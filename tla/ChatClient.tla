------------------------------- MODULE ChatClient -------------------------------
(***************************************************************************)
(* The Chat page of the browser (components/chat/chat.tsx): one event loop *)
(* that sends requests and takes their answers in whatever order they      *)
(* arrive.                                                                 *)
(*                                                                         *)
(* What the owner looks at is the React state of the mounted page; the     *)
(* conversation to come back to is in localStorage.  A read or a turn      *)
(* keeps the number restoreVersion had when it was sent, and its answer    *)
(* counts only while that is still the number.  The answer to a decision   *)
(* on an approval card keeps no number: it compares with the conversation  *)
(* that was shown when the card was clicked.  Leaving the page (another    *)
(* workspace, another route) unmounts it without stopping its requests;    *)
(* reloading the browser stops them.                                       *)
(*                                                                         *)
(* Abstracted: drafts, error texts, AI modes and capabilities, the list of *)
(* the history (any conversation that exists can be chosen), all but one   *)
(* workspace.  A version is used once, also across mounts: a new page      *)
(* starts at 0 again, but keeps a counter of its own.                      *)
(***************************************************************************)
EXTENDS Integers, FiniteSets

CONSTANTS
    CliConversations,
    CliCards,       \* approval cards, each offered once
    CliNone,
    CliMaxVersion   \* bound: selections, mounts and restores of a behaviour

ASSUME CliAssumption ==
    /\ CliNone \notin CliConversations /\ CliNone \notin CliCards
    /\ CliMaxVersion \in Nat

VARIABLES
    cliScreen,      \* the mounted page
    cliStored,      \* localStorage: the active conversation
    cliOffers,      \* the approval cards
    cliRequests,    \* what has been sent and not answered
    cliExists,      \* the conversations the server has
    cliChosen       \* history: what the owner chose to look at last

cliVars == <<cliScreen, cliStored, cliOffers, cliRequests, cliExists, cliChosen>>

-----------------------------------------------------------------------------
(* Types.                                                                  *)

CliShown == CliConversations \cup {CliNone}

\* "mount" is no request but the microtask a mounted page queues, "detail"
\* and "project" the two reads of a restore, "pending" the read of the
\* project that the address names, "card" a decision.  mount: the page that
\* sent it; shown: what the page showed then.
CliRequest ==
    [kind : {"mount", "pending", "detail", "project", "turn", "card"},
     version : 0..CliMaxVersion, mount : 0..CliMaxVersion,
     conversation : CliShown, shown : CliShown, card : CliCards \cup {CliNone}]

\* mount: restoreVersion when the page was mounted, which names it; shows:
\* the conversations whose messages are on screen (CliNone: messages of a
\* turn that has no conversation yet); project: pendingProject is set.
CliTypeOK ==
    /\ cliScreen \in [mount : 0..CliMaxVersion, version : 0..CliMaxVersion,
                      conversation : CliShown, shows : SUBSET CliShown,
                      turn : BOOLEAN, restoring : BOOLEAN, project : BOOLEAN]
    /\ cliStored \in CliShown
    /\ cliOffers \in [CliCards ->
          [state : {"unused", "open", "sent", "closed"}, conversation : CliShown]]
    /\ cliRequests \subseteq CliRequest
    /\ cliExists \subseteq CliConversations
    /\ cliChosen \in CliShown
    /\ cliScreen.mount <= cliScreen.version

CliSent(kind, version, conversation, card) ==
    [kind |-> kind, version |-> version, mount |-> cliScreen.mount,
     conversation |-> conversation, shown |-> cliScreen.conversation, card |-> card]

CliAnswered(r, sent) == cliRequests' = (cliRequests \ {r}) \cup sent

\* New messages replace those on screen, and their cards with them.
CliCardsGo ==
    cliOffers' = [k \in CliCards |->
        IF cliOffers[k].state \in {"open", "sent"}
        THEN [cliOffers[k] EXCEPT !.state = "closed"] ELSE cliOffers[k]]

CliMounted(r) == r.mount = cliScreen.mount
CliCurrent_Mounted(r) == CliMounted(r)
CliCurrent(r) == CliMounted(r) /\ r.version = cliScreen.version

-----------------------------------------------------------------------------
(* The page is mounted.                                                    *)

\* What a page queues or reads at once: the project in its address or the
\* stored conversation, if there is one.
CliFirst(version, pending) ==
    [kind |-> IF pending THEN "pending" ELSE "mount", version |-> version,
     mount |-> version, conversation |-> IF pending THEN CliNone ELSE cliStored,
     shown |-> CliNone, card |-> CliNone]

CliBlank(version) ==
    [mount |-> version, version |-> version, conversation |-> CliNone,
     shows |-> {}, turn |-> FALSE, restoring |-> TRUE, project |-> FALSE]

CliInit ==
    /\ cliExists \in SUBSET CliConversations
    /\ cliStored \in cliExists \cup {CliNone}
    /\ cliScreen = CliBlank(0)
    /\ cliOffers = [k \in CliCards |-> [state |-> "unused", conversation |-> CliNone]]
    /\ \E pending \in BOOLEAN :
          /\ cliRequests = {CliFirst(0, pending)}
          /\ cliChosen = CliFirst(0, pending).conversation

\* The page is unmounted, its reads and turns are invalidated by its version,
\* and mounted again; what was sent goes on unless the browser was reloaded.
\* (The bound leaves a version for the restore that follows.)
CliRemount ==
    /\ cliScreen.version + 1 < CliMaxVersion
    /\ cliScreen' = CliBlank(cliScreen.version + 1)
    /\ CliCardsGo
    /\ \E pending, reload \in BOOLEAN :
          LET first == CliFirst(cliScreen.version + 1, pending) IN
          /\ cliRequests' = (IF reload THEN {} ELSE cliRequests) \cup {first}
          /\ cliChosen' = first.conversation
    /\ UNCHANGED <<cliStored, cliExists>>

\* The project of the address: a new conversation is to belong to it.
CliPendingAnswered(r) ==
    /\ r.kind = "pending" /\ CliAnswered(r, {})
    /\ \/ /\ CliCurrent(r)
          /\ cliScreen' = [cliScreen EXCEPT !.project = TRUE, !.restoring = FALSE]
          /\ cliStored' = CliNone
       \/ /\ CliCurrent(r)
          /\ cliScreen' = [cliScreen EXCEPT !.restoring = FALSE]
          /\ UNCHANGED cliStored
       \/ ~CliCurrent(r) /\ UNCHANGED <<cliScreen, cliStored>>
    /\ UNCHANGED <<cliOffers, cliExists, cliChosen>>

-----------------------------------------------------------------------------
(* Restoring a conversation.                                               *)

CliRestores(r, c) ==
    /\ cliScreen.version < CliMaxVersion
    /\ cliScreen' = [cliScreen EXCEPT !.version = @ + 1, !.restoring = TRUE]
    /\ CliAnswered(r, {CliSent("detail", cliScreen.version + 1, c, CliNone)})

\* The microtask of a mounted page.
CliMountRuns(r) ==
    /\ r.kind = "mount"
    /\ \/ CliCurrent(r) /\ r.conversation # CliNone /\ CliRestores(r, r.conversation)
       \/ /\ CliCurrent(r) /\ r.conversation = CliNone
          /\ cliScreen' = [cliScreen EXCEPT !.restoring = FALSE]
          /\ CliAnswered(r, {})
       \/ ~CliCurrent(r) /\ CliAnswered(r, {}) /\ UNCHANGED cliScreen
    /\ UNCHANGED <<cliStored, cliOffers, cliExists, cliChosen>>

\* The owner picks a conversation of the history.
CliSelect_InTurn(c) ==
    /\ c \in cliExists
    /\ CliRestores(CliNone, c)
    /\ cliChosen' = c
    /\ UNCHANGED <<cliStored, cliOffers, cliExists>>
CliSelect(c) ==
    /\ ~cliScreen.turn
    /\ c \in cliExists
    /\ CliRestores(CliNone, c)
    /\ cliChosen' = c
    /\ UNCHANGED <<cliStored, cliOffers, cliExists>>

\* Both reads have been checked: the conversation takes the screen.
CliShows(r) ==
    /\ cliScreen' = [cliScreen EXCEPT !.conversation = r.conversation,
          !.shows = {r.conversation}, !.restoring = FALSE, !.project = FALSE]
    /\ cliStored' = r.conversation
    /\ CliCardsGo

\* The detail of a conversation; one that belongs to a project needs a read
\* more.  A failure leaves the page as it was.
CliDetailAnswered(r) ==
    /\ r.kind = "detail"
    /\ \/ CliCurrent(r) /\ CliAnswered(r, {}) /\ CliShows(r)
       \/ /\ CliCurrent(r) /\ CliAnswered(r, {[r EXCEPT !.kind = "project"]})
          /\ UNCHANGED <<cliScreen, cliStored, cliOffers>>
       \/ /\ CliCurrent(r) /\ CliAnswered(r, {})
          /\ cliScreen' = [cliScreen EXCEPT !.restoring = FALSE]
          /\ UNCHANGED <<cliStored, cliOffers>>
       \/ /\ ~CliCurrent(r) /\ CliAnswered(r, {})
          /\ UNCHANGED <<cliScreen, cliStored, cliOffers>>
    /\ UNCHANGED <<cliExists, cliChosen>>

CliProjectAnswered(r) ==
    /\ r.kind = "project" /\ CliAnswered(r, {})
    /\ \/ CliCurrent(r) /\ CliShows(r)
       \/ /\ CliCurrent(r)
          /\ cliScreen' = [cliScreen EXCEPT !.restoring = FALSE]
          /\ UNCHANGED <<cliStored, cliOffers>>
       \/ ~CliCurrent(r) /\ UNCHANGED <<cliScreen, cliStored, cliOffers>>
    /\ UNCHANGED <<cliExists, cliChosen>>

\* handleNewConversation.
CliNew_StillRestoring ==
    /\ ~cliScreen.turn
    /\ cliScreen.version < CliMaxVersion
    /\ cliScreen' = [cliScreen EXCEPT !.version = @ + 1, !.conversation = CliNone,
          !.shows = {}, !.project = FALSE]
    /\ cliStored' = CliNone /\ cliChosen' = CliNone
    /\ CliCardsGo
    /\ UNCHANGED <<cliRequests, cliExists>>
CliNew ==
    /\ ~cliScreen.turn
    /\ cliScreen.version < CliMaxVersion
    /\ cliScreen' = [cliScreen EXCEPT !.version = @ + 1, !.conversation = CliNone,
          !.shows = {}, !.restoring = FALSE, !.project = FALSE]
    /\ cliStored' = CliNone /\ cliChosen' = CliNone
    /\ CliCardsGo
    /\ UNCHANGED <<cliRequests, cliExists>>

-----------------------------------------------------------------------------
(* Turns and approval cards.                                               *)

\* handleSubmit: the question is on screen before it is sent.
CliSubmit_Restoring ==
    /\ ~cliScreen.turn
    /\ cliScreen' = [cliScreen EXCEPT !.turn = TRUE, !.shows = @ \cup {cliScreen.conversation}]
    /\ cliRequests' = cliRequests \cup
          {CliSent("turn", cliScreen.version, cliScreen.conversation, CliNone)}
    /\ cliChosen' = cliScreen.conversation
    /\ UNCHANGED <<cliStored, cliOffers, cliExists>>
CliSubmit ==
    /\ ~cliScreen.turn /\ ~cliScreen.restoring
    /\ cliScreen' = [cliScreen EXCEPT !.turn = TRUE, !.shows = @ \cup {cliScreen.conversation}]
    /\ cliRequests' = cliRequests \cup
          {CliSent("turn", cliScreen.version, cliScreen.conversation, CliNone)}
    /\ cliChosen' = cliScreen.conversation
    /\ UNCHANGED <<cliStored, cliOffers, cliExists>>

\* The conversation of a turn: the one it names or a new one.
CliServed(r) ==
    IF r.conversation # CliNone THEN {r.conversation} ELSE CliConversations \ cliExists

\* The reply may carry a card.  Messages that had no conversation get it.
CliReply(r, c) ==
    /\ cliScreen' = [cliScreen EXCEPT !.conversation = c, !.turn = FALSE,
          !.shows = (@ \ {CliNone}) \cup {c}, !.project = FALSE]
    /\ cliStored' = c /\ cliChosen' = c
    /\ \/ UNCHANGED cliOffers
       \/ \E k \in CliCards :
             /\ cliOffers[k].state = "unused"
             /\ cliOffers' = [cliOffers EXCEPT ![k] = [state |-> "open", conversation |-> c]]

\* An answer, or a failure before or after the server stored the turn; in
\* each case the page that asked may ask again.
CliTurnAnswered(r) ==
    /\ r.kind = "turn" /\ CliAnswered(r, {})
    /\ \/ \E c \in CliServed(r) :
             /\ cliExists' = cliExists \cup {c}
             /\ \/ CliCurrent(r) /\ CliReply(r, c)
                \/ /\ cliScreen' = IF CliMounted(r)
                                   THEN [cliScreen EXCEPT !.turn = FALSE] ELSE cliScreen
                   /\ UNCHANGED <<cliStored, cliChosen, cliOffers>>
       \/ /\ cliScreen' = IF CliMounted(r)
                          THEN [cliScreen EXCEPT !.turn = FALSE] ELSE cliScreen
          /\ UNCHANGED <<cliStored, cliChosen, cliOffers, cliExists>>

\* The owner decides on a card.
CliDecide(k) ==
    /\ cliOffers[k].state = "open"
    /\ cliOffers' = [cliOffers EXCEPT ![k].state = "sent"]
    /\ cliRequests' = cliRequests \cup
          {CliSent("card", cliScreen.version, cliOffers[k].conversation, k)}
    /\ UNCHANGED <<cliScreen, cliStored, cliExists, cliChosen>>

\* The completion handlers compare with the conversation that was shown when
\* the card was clicked, whatever is shown now.  The setters of a page that
\* is no longer mounted do nothing; localStorage is everybody's.
CliCompletes(r) ==
    /\ r.shown \in {CliNone, r.conversation}
    /\ cliStored' = r.conversation
    /\ cliScreen' = IF CliMounted(r)
          THEN [cliScreen EXCEPT !.conversation = r.conversation,
                                 !.shows = @ \cup {r.conversation}]
          ELSE cliScreen

\* A decision that ends has no card left to decide; one that failed for
\* another reason can be repeated on the card, if it is still there.
CliCardAnswered(r) ==
    /\ r.kind = "card" /\ CliAnswered(r, {})
    /\ \E state \in {"open", "closed"} :
          cliOffers' = [cliOffers EXCEPT ![r.card].state =
              IF @ = "sent" THEN state ELSE @]
    /\ \/ CliCompletes(r) /\ cliOffers'[r.card].state = "closed"
       \/ UNCHANGED <<cliScreen, cliStored>>
    /\ UNCHANGED <<cliExists, cliChosen>>

-----------------------------------------------------------------------------
CliAnswer(r) ==
    \/ CliPendingAnswered(r) \/ CliMountRuns(r) \/ CliDetailAnswered(r)
    \/ CliProjectAnswered(r) \/ CliTurnAnswered(r) \/ CliCardAnswered(r)

CliNext ==
    \/ CliRemount \/ CliNew \/ CliSubmit
    \/ \E c \in CliConversations : CliSelect(c)
    \/ \E k \in CliCards : CliDecide(k)
    \/ \E r \in cliRequests : CliAnswer(r)

CliSpec == CliInit /\ [][CliNext]_cliVars

-----------------------------------------------------------------------------
(* Properties.                                                             *)

\* The page never waits for an answer it would drop: while it says that it is
\* restoring, or that O-AI is replying, the microtask, the read or the turn
\* that ends this is on its way and counts, and it never does both, so a
\* restored conversation cannot take the screen from under a question.
\* (restoreVersion, turnPending and isRestoring, chat.tsx:164-233, 339-418.)
CliAnswersAreAwaited ==
    /\ cliScreen.turn => \E r \in cliRequests : r.kind = "turn" /\ CliCurrent(r)
    /\ cliScreen.restoring =>
          \E r \in cliRequests : r.kind \notin {"turn", "card"} /\ CliCurrent(r)
    /\ ~(cliScreen.turn /\ cliScreen.restoring)

\* Whatever order the answers come in, an answer to a read or a turn changes
\* what is shown, or what is stored, only if it answers the owner's last
\* choice, made on the page that is mounted (D124, "Selection concurrency").
CliOnlyLastChoiceShows ==
    [][\A r \in cliRequests \ cliRequests' :
          (r.kind # "card" /\ cliScreen'.mount = cliScreen.mount)
              => \/ UNCHANGED <<cliStored, cliScreen.conversation, cliScreen.shows>>
                 \/ r.conversation = cliChosen /\ CliMounted(r)]_cliVars

\* What is on screen belongs to the conversation the page says it shows: the
\* completion handlers refuse an "Action result [that] belongs to another
\* conversation." (chat.tsx:427).
CliOneConversation == cliScreen.shows \subseteq {cliScreen.conversation}
=============================================================================

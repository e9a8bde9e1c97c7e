-------------------------- MODULE ChatProofs --------------------------
(***************************************************************************)
(* The turns of a conversation and the chat's questions, bindings and      *)
(* reads, for every number of turns, conversations, threads and ids.       *)
(***************************************************************************)
EXTENDS CognitiveTurn, ChatActions, FiniteSetTheorems, TLAPS

-----------------------------------------------------------------------------
(* What the chat turns guarantee for any number of turns and conversations:   *)
(* cognitive turns of a conversation exclude each other, their replies saw    *)
(* the conversation, and only a verified draft is published.                  *)

-----------------------------------------------------------------------------
(* The inductive invariant.                                                *)

\* Steps at which a cognitive turn holds its lease.
HoldingSteps == {"leased", "resolved", "frozen", "prepared", "invoking", "calling",
                 "verifying", "accepted", "persisting"}

\* Steps between the question and the reply.
AskedSteps == {"prepared", "invoking", "calling", "verifying", "accepted", "persisting"}

\* A cognitive turn holds the lease of its conversation until it has replied
\* or failed.
CogExclusive ==
    \A t \in CogTurns :
        cogTurn[t].lane = "cognitive" /\ cogTurn[t].pc \in HoldingSteps =>
            cogTurn[t].conv \in CogConvs /\ cogGuard[cogTurn[t].conv] = t

\* A thread that has started has a conversation.
Placed == \A t \in CogTurns : cogTurn[t].pc # "idle" => cogTurn[t].conv \in CogConvs

\* A thread that has not started has written nothing.
IdleIsSilent ==
    \A c \in CogConvs : \A i \in DOMAIN cogMsgs[c] :
        cogTurn[cogMsgs[c][i].turn].pc # "idle"

\* Only a turn that has replied has a reply.
ReplyEnds ==
    \A c \in CogConvs : \A i \in DOMAIN cogMsgs[c] :
        cogMsgs[c][i].role = "assistant" /\ CogIsCognitive(cogMsgs[c][i].turn) =>
            cogTurn[cogMsgs[c][i].turn].pc \in {"answered", "done"}

\* Every cognitive message of c was there when q read the conversation.
SawAll(q, c) ==
    \A k \in DOMAIN cogMsgs[c] : CogIsCognitive(cogMsgs[c][k].turn) => k <= q.seen

FrozenSawAll ==
    \A t \in CogTurns :
        cogTurn[t].lane = "cognitive" /\ cogTurn[t].pc \in {"resolved", "frozen"} =>
            SawAll(cogTurn[t], cogTurn[t].conv)

\* The question of t stands at j of c: no cognitive message after it, and what
\* stands before it was seen.
QuestionAt(t, c, j) ==
    /\ cogMsgs[c][j] = [turn |-> t, role |-> "user"]
    /\ \A k \in DOMAIN cogMsgs[c] :
          CogIsCognitive(cogMsgs[c][k].turn) =>
              k <= j /\ (k < j => k <= cogTurn[t].seen)

Asked ==
    \A t \in CogTurns :
        cogTurn[t].lane = "cognitive" /\ cogTurn[t].pc \in AskedSteps =>
            /\ cogConv[cogTurn[t].conv] \in {"live", "deleted"}
            /\ cogConv[cogTurn[t].conv] = "live" =>
                  \E j \in DOMAIN cogMsgs[cogTurn[t].conv] :
                      QuestionAt(t, cogTurn[t].conv, j)

\* The critic of a draft that needs one has reviewed that very draft.
Reviewed(q) == CogCriticRequired(q) => q.review.of = q.revision + 1

\* What the gate lets through.
Verified(q) ==
    /\ q.verdict \in {"pass", "insufficient"}
    /\ q.items /\ q.draft = "model" =>
          /\ q.review.of = q.revision + 1
          /\ CogSeverity[q.review.result] <= CogSeverity[q.verdict]

Gated ==
    \A t \in CogTurns :
        cogTurn[t].lane = "cognitive" =>
            /\ cogTurn[t].pc = "verifying" => Reviewed(cogTurn[t])
            /\ cogTurn[t].pc \in {"accepted", "persisting", "answered"}
                  => Verified(cogTurn[t])

CogIInv ==
    /\ CogTypeOK /\ CogExclusive /\ Placed /\ IdleIsSilent /\ ReplyEnds
    /\ FrozenSawAll /\ Asked /\ Gated
    /\ CogReplySeesConversation /\ CogReviewedIsPublished

-----------------------------------------------------------------------------
(* Types of what threads become.                                           *)

LEMMA FreshType == CogFresh \in CogThread
BY DEF CogFresh, CogThread, CogSteps, CogLanes, CogPurposes, CogUnreviewed, CogResults

LEMMA EndedType ==
    ASSUME CogTypeOK, NEW t \in CogTurns, NEW pc \in CogSteps
    PROVE  /\ CogEnded(t, pc) \in CogThread
           /\ CogEnded(t, pc).pc = pc
           /\ CogEnded(t, pc).lane = cogTurn[t].lane
           /\ CogEnded(t, pc).conv = cogTurn[t].conv
<1>1. cogTurn[t] \in CogThread
  BY DEF CogTypeOK
<1> QED BY <1>1, FreshType DEF CogEnded, CogFresh, CogThread

\* A thread that goes on keeps the rest of its record.
LEMMA StepType ==
    ASSUME CogTypeOK, NEW t \in CogTurns, NEW pc \in CogSteps, NEW q,
           q = [cogTurn[t] EXCEPT !.pc = pc]
    PROVE  /\ q \in CogThread /\ q.pc = pc
           /\ q.lane = cogTurn[t].lane /\ q.conv = cogTurn[t].conv
           /\ q.seen = cogTurn[t].seen
           /\ Verified(q) <=> Verified(cogTurn[t])
<1>1. cogTurn[t] \in CogThread
  BY DEF CogTypeOK
<1> QED BY <1>1 DEF CogThread, Verified

-----------------------------------------------------------------------------
(* A step of one thread that writes no message.                            *)

\* Thread t becomes q: it stays in its lane, keeps what it read once it has
\* asked, holds the lease where it must, and passes the gate only reviewed.
Becomes(t, q) ==
    /\ q \in CogThread /\ q.pc # "idle" /\ q.conv \in CogConvs
    /\ cogTurn' = [cogTurn EXCEPT ![t] = q]
    /\ cogTurn[t].pc # "idle" => q.lane = cogTurn[t].lane
    /\ cogTurn[t].pc \in {"answered", "done"} =>
          /\ q.pc \in {"answered", "done"} /\ q.seen = cogTurn[t].seen
          /\ Verified(cogTurn[t]) => Verified(q)
    /\ q.lane = "cognitive" =>
          /\ q.pc \in HoldingSteps => cogGuard'[q.conv] = t
          /\ q.pc \in {"resolved", "frozen"} => SawAll(q, q.conv)
          /\ q.pc \in AskedSteps =>
                /\ cogTurn[t].pc \in AskedSteps
                /\ q.conv = cogTurn[t].conv /\ q.seen = cogTurn[t].seen
          /\ q.pc = "verifying" => Reviewed(q)
          /\ q.pc \in {"accepted", "persisting", "answered"} => Verified(q)

\* The tables: no committed conversation comes, goes or changes, and nobody
\* else loses a lease.
KeepsCommitted(t) ==
    /\ cogConv' \in [CogConvs -> {"absent", "pending", "live", "deleted"}]
    /\ \A c \in CogConvs : cogConv[c] # cogConv'[c] =>
          cogConv[c] \in {"absent", "pending"} /\ cogConv'[c] \in {"absent", "pending"}
    /\ cogMsgs' = cogMsgs
    /\ cogGuard' \in [CogConvs -> CogTurns \cup {CogNone}]
    /\ \A c \in CogConvs, u \in CogTurns \ {t} : cogGuard[c] = u => cogGuard'[c] = u
    /\ cogWriter' \in CogTurns \cup {CogNone}

LEMMA ThreadStepKeeps ==
    ASSUME CogIInv, NEW t \in CogTurns, NEW q, Becomes(t, q), KeepsCommitted(t)
    PROVE  CogIInv'
<1> USE DEF CogIInv
<1>1. /\ cogTurn'[t] = q /\ \A u \in CogTurns \ {t} : cogTurn'[u] = cogTurn[u]
      /\ cogMsgs' = cogMsgs
      /\ cogTurn \in [CogTurns -> CogThread] /\ cogMsgs \in [CogConvs -> Seq(CogMessage)]
  BY DEF Becomes, KeepsCommitted, CogTypeOK
<1>2. \A c \in CogConvs : \A i \in DOMAIN cogMsgs[c] :
         /\ cogMsgs[c][i] \in CogMessage
         /\ cogMsgs[c][i].turn \in CogTurns
         /\ cogTurn[cogMsgs[c][i].turn].pc # "idle"
  <2>1. ASSUME NEW c \in CogConvs, NEW i \in DOMAIN cogMsgs[c]
        PROVE  cogMsgs[c][i] \in CogMessage
    BY <1>1
  <2> QED BY <2>1 DEF IdleIsSilent, CogMessage
<1>3. \A u \in CogTurns : cogTurn[u].pc # "idle" => cogTurn'[u].lane = cogTurn[u].lane
  BY <1>1 DEF Becomes
<1>4. CogTypeOK'
  <2>1. cogTurn' \in [CogTurns -> CogThread]
    BY <1>1 DEF Becomes
  <2>2. /\ cogConv' \in [CogConvs -> {"absent", "pending", "live", "deleted"}]
        /\ cogGuard' \in [CogConvs -> CogTurns \cup {CogNone}]
        /\ cogWriter' \in CogTurns \cup {CogNone}
    BY DEF KeepsCommitted
  <2> QED BY <1>1, <2>1, <2>2 DEF CogTypeOK
<1>5. CogExclusive'
  <2> SUFFICES ASSUME NEW u \in CogTurns, cogTurn'[u].lane = "cognitive",
                      cogTurn'[u].pc \in HoldingSteps
               PROVE  cogTurn'[u].conv \in CogConvs /\ cogGuard'[cogTurn'[u].conv] = u
    BY DEF CogExclusive
  <2>1. CASE u = t
    BY <2>1, <1>1 DEF Becomes
  <2>2. CASE u # t
    <3>1. cogTurn'[u] = cogTurn[u]
      BY <2>2, <1>1
    <3>2. cogTurn[u].conv \in CogConvs /\ cogGuard[cogTurn[u].conv] = u
      BY <3>1 DEF CogExclusive
    <3> QED BY <2>2, <3>1, <3>2 DEF KeepsCommitted
  <2> QED BY <2>1, <2>2
<1>p. Placed'
  BY <1>1 DEF Placed, Becomes
<1>6. IdleIsSilent'
  <2>1. \A u \in CogTurns : cogTurn[u].pc # "idle" => cogTurn'[u].pc # "idle"
    BY <1>1 DEF Becomes
  <2> QED BY <2>1, <1>1, <1>2 DEF IdleIsSilent
<1>7. ReplyEnds'
  <2> SUFFICES ASSUME NEW c \in CogConvs, NEW i \in DOMAIN cogMsgs[c],
                      cogMsgs[c][i].role = "assistant",
                      cogTurn'[cogMsgs[c][i].turn].lane = "cognitive"
               PROVE  cogTurn'[cogMsgs[c][i].turn].pc \in {"answered", "done"}
    BY <1>1 DEF ReplyEnds, CogIsCognitive
  <2>1. cogTurn[cogMsgs[c][i].turn].pc \in {"answered", "done"}
    BY <1>2, <1>3 DEF ReplyEnds, CogIsCognitive
  <2> QED BY <2>1, <1>1, <1>2 DEF Becomes
<1>8. \A c \in CogConvs : \A k \in DOMAIN cogMsgs[c] :
         CogIsCognitive(cogMsgs[c][k].turn)' <=> CogIsCognitive(cogMsgs[c][k].turn)
  BY <1>1, <1>2, <1>3 DEF CogIsCognitive
<1>9. FrozenSawAll'
  <2> SUFFICES ASSUME NEW u \in CogTurns, cogTurn'[u].lane = "cognitive",
                      cogTurn'[u].pc \in {"resolved", "frozen"}
               PROVE  SawAll(cogTurn[u], cogTurn[u].conv)'
    BY DEF FrozenSawAll
  <2>1. cogTurn'[u].conv \in CogConvs
    BY <1>5 DEF CogExclusive, HoldingSteps
  <2>2. SawAll(cogTurn'[u], cogTurn'[u].conv)
    <3>1. CASE u = t
      BY <3>1, <1>1 DEF Becomes
    <3>2. CASE u # t
      BY <3>2, <1>1 DEF FrozenSawAll
    <3> QED BY <3>1, <3>2
  <2> QED BY <2>1, <2>2, <1>1, <1>8 DEF SawAll
<1>10. Asked'
  <2> SUFFICES ASSUME NEW u \in CogTurns, cogTurn'[u].lane = "cognitive",
                      cogTurn'[u].pc \in AskedSteps
               PROVE  /\ cogConv'[cogTurn'[u].conv] \in {"live", "deleted"}
                      /\ cogConv'[cogTurn'[u].conv] = "live" =>
                            \E j \in DOMAIN cogMsgs'[cogTurn'[u].conv] :
                                QuestionAt(u, cogTurn[u].conv, j)'
    BY DEF Asked
  <2> DEFINE c == cogTurn[u].conv
  <2>1. /\ cogTurn'[u].conv = c /\ cogTurn'[u].seen = cogTurn[u].seen
        /\ cogTurn[u].lane = "cognitive" /\ cogTurn[u].pc \in AskedSteps
    BY <1>1 DEF Becomes, AskedSteps
  <2>2. c \in CogConvs
    BY <2>1 DEF CogExclusive, HoldingSteps, AskedSteps
  <2>3. /\ cogConv[c] \in {"live", "deleted"}
        /\ cogConv[c] = "live" => \E j \in DOMAIN cogMsgs[c] : QuestionAt(u, c, j)
    BY <2>1 DEF Asked
  <2>4. cogConv'[c] = cogConv[c]
    BY <2>2, <2>3 DEF KeepsCommitted
  <2>5. \A j \in DOMAIN cogMsgs[c] : QuestionAt(u, c, j) => QuestionAt(u, c, j)'
    BY <2>1, <2>2, <1>1, <1>8 DEF QuestionAt
  <2> QED BY <2>1, <2>3, <2>4, <2>5, <1>1
<1>11. Gated'
  <2> SUFFICES ASSUME NEW u \in CogTurns, cogTurn'[u].lane = "cognitive"
               PROVE  /\ cogTurn'[u].pc = "verifying" => Reviewed(cogTurn'[u])
                      /\ cogTurn'[u].pc \in {"accepted", "persisting", "answered"}
                            => Verified(cogTurn'[u])
    BY DEF Gated, Reviewed, Verified, CogCriticRequired
  <2>1. CASE u = t
    BY <2>1, <1>1 DEF Becomes
  <2>2. CASE u # t
    BY <2>2, <1>1 DEF Gated
  <2> QED BY <2>1, <2>2
\* Who has replied stays as it was.
<1>12. \A c \in CogConvs : \A i \in DOMAIN cogMsgs[c] :
          cogMsgs[c][i].role = "assistant" /\ CogIsCognitive(cogMsgs[c][i].turn) =>
              /\ cogTurn'[cogMsgs[c][i].turn].seen = cogTurn[cogMsgs[c][i].turn].seen
              /\ Verified(cogTurn[cogMsgs[c][i].turn])
                    => Verified(cogTurn'[cogMsgs[c][i].turn])
  BY <1>1, <1>2 DEF ReplyEnds, Becomes
<1>13. CogReplySeesConversation'
  <2> SUFFICES ASSUME NEW c \in CogConvs, NEW i \in DOMAIN cogMsgs[c],
                      cogMsgs[c][i].role = "assistant",
                      CogIsCognitive(cogMsgs[c][i].turn)
               PROVE  \E j \in 1..(i - 1) :
                        /\ cogMsgs[c][j] = [turn |-> cogMsgs[c][i].turn, role |-> "user"]
                        /\ \A k \in (j + 1)..(i - 1) :
                              ~CogIsCognitive(cogMsgs[c][k].turn)'
                        /\ \A k \in 1..(j - 1) :
                              CogIsCognitive(cogMsgs[c][k].turn)'
                                  => k <= cogTurn'[cogMsgs[c][i].turn].seen
    BY <1>1, <1>8 DEF CogReplySeesConversation
  <2>1. PICK j \in 1..(i - 1) :
          /\ cogMsgs[c][j] = [turn |-> cogMsgs[c][i].turn, role |-> "user"]
          /\ \A k \in (j + 1)..(i - 1) : ~CogIsCognitive(cogMsgs[c][k].turn)
          /\ \A k \in 1..(j - 1) :
                CogIsCognitive(cogMsgs[c][k].turn) => k <= cogTurn[cogMsgs[c][i].turn].seen
    BY DEF CogReplySeesConversation
  <2>2. \A k \in 1..(i - 1) : k \in DOMAIN cogMsgs[c]
    BY <1>1
  <2>3. i \in Nat
    BY <1>1
  <2>4. cogTurn'[cogMsgs[c][i].turn].seen = cogTurn[cogMsgs[c][i].turn].seen
    BY <1>12
  <2>5. \A k \in (j + 1)..(i - 1) : ~CogIsCognitive(cogMsgs[c][k].turn)'
    BY <2>1, <2>2, <2>3, <1>8
  <2>6. \A k \in 1..(j - 1) :
          CogIsCognitive(cogMsgs[c][k].turn)' => k <= cogTurn'[cogMsgs[c][i].turn].seen
    BY <2>1, <2>2, <2>3, <2>4, <1>8
  <2> QED BY <2>1, <2>5, <2>6
<1>14. CogReviewedIsPublished'
  <2>1. CogReviewedIsPublished <=>
          \A c \in CogConvs : \A i \in DOMAIN cogMsgs[c] :
              cogMsgs[c][i].role = "assistant" /\ CogIsCognitive(cogMsgs[c][i].turn)
                  => Verified(cogTurn[cogMsgs[c][i].turn])
    BY DEF CogReviewedIsPublished, CogIsCognitive, Verified
  <2>2. CogReviewedIsPublished' <=>
          \A c \in CogConvs : \A i \in DOMAIN cogMsgs'[c] :
              cogMsgs'[c][i].role = "assistant" /\ CogIsCognitive(cogMsgs[c][i].turn)'
                  => Verified(cogTurn'[cogMsgs'[c][i].turn])
    BY DEF CogReviewedIsPublished, CogIsCognitive, Verified
  <2> QED BY <2>1, <2>2, <1>1, <1>8, <1>12
<1> QED
  BY <1>4, <1>5, <1>p, <1>6, <1>7, <1>9, <1>10, <1>11, <1>13, <1>14

-----------------------------------------------------------------------------
(* A step of one thread that commits a message.                            *)

\* Thread t becomes q and adds a message to c, which is committed with it.  A
\* cognitive turn does so to ask, having read the conversation, or to reply.
Writes(t, q, c, role) ==
    /\ q \in CogThread /\ q.pc \in {"prepared", "persisting", "answered"}
    /\ q.conv \in CogConvs
    /\ cogTurn' = [cogTurn EXCEPT ![t] = q]
    /\ cogTurn[t].pc # "idle" => q.lane = cogTurn[t].lane
    /\ cogTurn[t].pc \notin {"answered", "done"}
    /\ cogMsgs' = [cogMsgs EXCEPT ![c] = Append(@, [turn |-> t, role |-> role])]
    /\ cogConv[c] # "deleted" /\ cogConv' = [cogConv EXCEPT ![c] = "live"]
    /\ cogGuard' = cogGuard /\ cogWriter' \in CogTurns \cup {CogNone}
    /\ q.lane = "cognitive" =>
          /\ cogTurn[t].lane = "cognitive" /\ cogTurn[t].pc \in {"frozen", "persisting"}
          /\ q.conv = c /\ cogTurn[t].conv = c /\ q.seen = cogTurn[t].seen
          /\ role = "user" => q.pc = "prepared" /\ cogTurn[t].pc = "frozen"
          /\ role = "assistant" =>
                q.pc = "answered" /\ cogTurn[t].pc = "persisting" /\ Verified(q)

LEMMA WriteKeeps ==
    ASSUME CogIInv, NEW t \in CogTurns, NEW q, NEW c \in CogConvs,
           NEW role \in {"user", "assistant"}, Writes(t, q, c, role)
    PROVE  CogIInv'
<1> USE DEF CogIInv
<1> DEFINE m == [turn |-> t, role |-> role]
<1>1. /\ cogTurn'[t] = q /\ \A u \in CogTurns \ {t} : cogTurn'[u] = cogTurn[u]
      /\ cogTurn \in [CogTurns -> CogThread] /\ cogMsgs \in [CogConvs -> Seq(CogMessage)]
      /\ cogConv \in [CogConvs -> {"absent", "pending", "live", "deleted"}]
      /\ m \in CogMessage
  BY DEF Writes, CogTypeOK, CogMessage
<1>n. PICK n \in Nat : n = Len(cogMsgs[c]) /\ DOMAIN cogMsgs[c] = 1..n
  BY <1>1
<1>2. /\ \A d \in CogConvs \ {c} : cogMsgs'[d] = cogMsgs[d]
      /\ cogMsgs'[c] = Append(cogMsgs[c], m)
      /\ n \in Nat /\ DOMAIN cogMsgs[c] = 1..n
  BY <1>n, <1>1 DEF Writes
<1>3. /\ DOMAIN cogMsgs'[c] = 1..(n + 1) /\ cogMsgs'[c][n + 1] = m
      /\ \A k \in 1..n : cogMsgs'[c][k] = cogMsgs[c][k]
  BY <1>n, <1>1, <1>2
<1>4. \A d \in CogConvs : \A k \in DOMAIN cogMsgs[d] :
         /\ k \in DOMAIN cogMsgs'[d] /\ cogMsgs'[d][k] = cogMsgs[d][k] /\ k \in Nat
         /\ d = c => k <= n
  <2> SUFFICES ASSUME NEW d \in CogConvs, NEW k \in DOMAIN cogMsgs[d]
               PROVE  /\ k \in DOMAIN cogMsgs'[d] /\ cogMsgs'[d][k] = cogMsgs[d][k]
                      /\ k \in Nat
                      /\ d = c => k <= n
    OBVIOUS
  <2>1. k \in Nat
    BY <1>1
  <2>2. CASE d = c
    BY <2>1, <2>2, <1>2, <1>3
  <2>3. CASE d # c
    BY <2>1, <2>3, <1>2
  <2> QED BY <2>2, <2>3
<1>5. \A d \in CogConvs : \A k \in DOMAIN cogMsgs'[d] :
         k \in DOMAIN cogMsgs[d] \/ (d = c /\ k = n + 1)
  <2> SUFFICES ASSUME NEW d \in CogConvs, NEW k \in DOMAIN cogMsgs'[d]
               PROVE  k \in DOMAIN cogMsgs[d] \/ (d = c /\ k = n + 1)
    OBVIOUS
  <2>1. CASE d = c
    BY <2>1, <1>2, <1>3
  <2>2. CASE d # c
    BY <2>2, <1>2
  <2> QED BY <2>1, <2>2
<1>6. \A d \in CogConvs : \A i \in DOMAIN cogMsgs[d] :
         /\ cogMsgs[d][i].turn \in CogTurns
         /\ cogTurn[cogMsgs[d][i].turn].pc # "idle"
  <2>1. ASSUME NEW d \in CogConvs, NEW i \in DOMAIN cogMsgs[d]
        PROVE  cogMsgs[d][i] \in CogMessage
    BY <1>1
  <2> QED BY <2>1 DEF IdleIsSilent, CogMessage
<1>7. \A u \in CogTurns : cogTurn[u].pc # "idle" => cogTurn'[u].lane = cogTurn[u].lane
  BY <1>1 DEF Writes
<1>8. \A d \in CogConvs : \A k \in DOMAIN cogMsgs[d] :
         (cogTurn'[cogMsgs[d][k].turn].lane = "cognitive")
            <=> CogIsCognitive(cogMsgs[d][k].turn)
  BY <1>6, <1>7 DEF CogIsCognitive
\* The lease keeps every other cognitive turn out of c.
<1>9. ASSUME q.lane = "cognitive", NEW u \in CogTurns, u # t,
             cogTurn[u].lane = "cognitive", cogTurn[u].pc \in HoldingSteps
      PROVE  cogTurn[u].conv # c
  <2>1. cogGuard[c] = t
    BY <1>9 DEF Writes, CogExclusive, HoldingSteps
  <2>2. cogGuard[cogTurn[u].conv] = u
    BY <1>9 DEF CogExclusive
  <2> QED BY <2>1, <2>2, <1>9
<1>10. CogTypeOK'
  <2>1. cogTurn' \in [CogTurns -> CogThread]
    BY <1>1 DEF Writes
  <2>2. cogMsgs' \in [CogConvs -> Seq(CogMessage)]
    <3>1. Append(cogMsgs[c], m) \in Seq(CogMessage)
      BY <1>1
    <3> QED BY <3>1, <1>1 DEF Writes
  <2>3. /\ cogConv' \in [CogConvs -> {"absent", "pending", "live", "deleted"}]
        /\ cogGuard' \in [CogConvs -> CogTurns \cup {CogNone}]
        /\ cogWriter' \in CogTurns \cup {CogNone}
    BY <1>1 DEF Writes, CogTypeOK
  <2> QED BY <2>1, <2>2, <2>3 DEF CogTypeOK
<1>11. CogExclusive'
  <2> SUFFICES ASSUME NEW u \in CogTurns, cogTurn'[u].lane = "cognitive",
                      cogTurn'[u].pc \in HoldingSteps
               PROVE  cogTurn'[u].conv \in CogConvs /\ cogGuard[cogTurn'[u].conv] = u
    BY DEF CogExclusive, Writes
  <2>1. CASE u = t
    BY <2>1, <1>1 DEF Writes, CogExclusive, HoldingSteps
  <2>2. CASE u # t
    BY <2>2, <1>1 DEF CogExclusive
  <2> QED BY <2>1, <2>2
<1>p. Placed'
  BY <1>1 DEF Placed, Writes
<1>12. IdleIsSilent'
  <2> SUFFICES ASSUME NEW d \in CogConvs, NEW i \in DOMAIN cogMsgs'[d]
               PROVE  cogTurn'[cogMsgs'[d][i].turn].pc # "idle"
    BY DEF IdleIsSilent
  <2>1. q.pc # "idle"
    BY DEF Writes
  <2>2. CASE i \in DOMAIN cogMsgs[d]
    <3>1. cogMsgs'[d][i] = cogMsgs[d][i]
      BY <2>2, <1>4
    <3>2. CASE cogMsgs[d][i].turn = t
      BY <2>1, <3>1, <3>2, <1>1
    <3>3. CASE cogMsgs[d][i].turn # t
      BY <2>2, <3>1, <3>3, <1>1, <1>6
    <3> QED BY <3>2, <3>3
  <2>3. CASE d = c /\ i = n + 1
    BY <2>1, <2>3, <1>1, <1>3
  <2> QED BY <2>2, <2>3, <1>5
<1>13. ReplyEnds'
  <2> SUFFICES ASSUME NEW d \in CogConvs, NEW i \in DOMAIN cogMsgs'[d],
                      cogMsgs'[d][i].role = "assistant",
                      cogTurn'[cogMsgs'[d][i].turn].lane = "cognitive"
               PROVE  cogTurn'[cogMsgs'[d][i].turn].pc \in {"answered", "done"}
    BY DEF ReplyEnds, CogIsCognitive
  <2>1. CASE i \in DOMAIN cogMsgs[d]
    <3>1. cogMsgs'[d][i] = cogMsgs[d][i]
      BY <2>1, <1>4
    <3>2. cogTurn[cogMsgs[d][i].turn].pc \in {"answered", "done"}
      BY <2>1, <3>1, <1>8 DEF ReplyEnds
    <3>3. cogMsgs[d][i].turn # t
      BY <3>2 DEF Writes
    <3> QED BY <2>1, <3>1, <3>2, <3>3, <1>1, <1>6
  <2>2. CASE d = c /\ i = n + 1
    BY <2>2, <1>1, <1>3 DEF Writes
  <2> QED BY <2>1, <2>2, <1>5
<1>14. FrozenSawAll'
  <2> SUFFICES ASSUME NEW u \in CogTurns, cogTurn'[u].lane = "cognitive",
                      cogTurn'[u].pc \in {"resolved", "frozen"}
               PROVE  SawAll(cogTurn[u], cogTurn[u].conv)'
    BY DEF FrozenSawAll
  <2>1. u # t
    BY <1>1 DEF Writes
  <2>2. cogTurn'[u] = cogTurn[u] /\ SawAll(cogTurn[u], cogTurn[u].conv)
    BY <2>1, <1>1 DEF FrozenSawAll
  <2> DEFINE d == cogTurn[u].conv
  <2>3. d \in CogConvs
    BY <2>2 DEF CogExclusive, HoldingSteps
  <2>4. q.lane = "cognitive" => d # c
    BY <2>1, <2>2, <1>9 DEF HoldingSteps
  <2>5. ASSUME NEW k \in DOMAIN cogMsgs'[d],
               cogTurn'[cogMsgs'[d][k].turn].lane = "cognitive"
        PROVE  k <= cogTurn[u].seen
    <3>1. k \in DOMAIN cogMsgs[d]
      BY <2>3, <2>4, <2>5, <1>1, <1>3, <1>5
    <3> QED BY <2>2, <2>3, <2>5, <3>1, <1>4, <1>8 DEF SawAll
  <2> QED BY <2>2, <2>5 DEF SawAll, CogIsCognitive
<1>15. Asked'
  <2> SUFFICES ASSUME NEW u \in CogTurns, cogTurn'[u].lane = "cognitive",
                      cogTurn'[u].pc \in AskedSteps
               PROVE  /\ cogConv'[cogTurn'[u].conv] \in {"live", "deleted"}
                      /\ cogConv'[cogTurn'[u].conv] = "live" =>
                            \E j \in DOMAIN cogMsgs'[cogTurn'[u].conv] :
                                QuestionAt(u, cogTurn[u].conv, j)'
    BY DEF Asked
  <2>1. CASE u = t
    <3>1. /\ q.lane = "cognitive" /\ q.conv = c /\ role = "user"
          /\ cogTurn[t].lane = "cognitive" /\ cogTurn[t].pc = "frozen"
          /\ cogTurn[t].conv = c /\ q.seen = cogTurn[t].seen
      BY <2>1, <1>1 DEF Writes, AskedSteps
    <3>2. SawAll(cogTurn[t], c)
      BY <3>1 DEF FrozenSawAll
    <3>3. ASSUME NEW k \in DOMAIN cogMsgs'[c],
                 cogTurn'[cogMsgs'[c][k].turn].lane = "cognitive"
          PROVE  k <= n + 1 /\ (k < n + 1 => k <= q.seen)
      <4>1. CASE k = n + 1
        BY <4>1, <1>2
      <4>2. CASE k # n + 1
        <5>1. k \in DOMAIN cogMsgs[c]
          BY <4>2, <1>5
        <5>2. k <= q.seen
          BY <3>1, <3>2, <3>3, <5>1, <1>4, <1>8 DEF SawAll
        <5> QED BY <5>1, <5>2, <1>2, <1>4
      <4> QED BY <4>1, <4>2
    <3>4. QuestionAt(t, c, n + 1)'
      <4>1. cogMsgs'[c][n + 1] = [turn |-> t, role |-> "user"]
        BY <3>1, <1>3
      <4> QED BY <4>1, <3>3, <1>1 DEF QuestionAt, CogIsCognitive
    <3>5. cogTurn'[u].conv = c /\ n + 1 \in DOMAIN cogMsgs'[c]
      BY <2>1, <3>1, <1>n, <1>1, <1>3
    <3>6. cogConv'[c] = "live"
      BY <1>1 DEF Writes
    <3>7. QuestionAt(u, cogTurn[u].conv, n + 1)'
      BY <2>1, <3>4, <3>5 DEF QuestionAt
    <3> QED BY <3>5, <3>6, <3>7
  <2>2. CASE u # t
    <3>1. cogTurn'[u] = cogTurn[u]
      BY <2>2, <1>1
    <3> DEFINE d == cogTurn[u].conv
    <3>2. d \in CogConvs /\ (q.lane = "cognitive" => d # c)
      BY <2>2, <3>1, <1>9 DEF CogExclusive, HoldingSteps, AskedSteps
    <3>3. /\ cogConv[d] \in {"live", "deleted"}
          /\ cogConv[d] = "live" => \E j \in DOMAIN cogMsgs[d] : QuestionAt(u, d, j)
      BY <3>1 DEF Asked
    <3>4. cogConv'[d] = cogConv[d]
      BY <3>2, <3>3, <1>1 DEF Writes
    <3>5. ASSUME NEW j \in DOMAIN cogMsgs[d], QuestionAt(u, d, j)
          PROVE  j \in DOMAIN cogMsgs'[d] /\ QuestionAt(u, cogTurn[u].conv, j)'
      <4>1. /\ j \in DOMAIN cogMsgs'[d]
            /\ cogMsgs'[d][j] = [turn |-> u, role |-> "user"]
        BY <3>2, <3>5, <1>4 DEF QuestionAt
      <4>2. ASSUME NEW k \in DOMAIN cogMsgs'[d],
                   cogTurn'[cogMsgs'[d][k].turn].lane = "cognitive"
            PROVE  k <= j /\ (k < j => k <= cogTurn[u].seen)
        <5>1. k \in DOMAIN cogMsgs[d]
          BY <3>2, <4>2, <1>1, <1>3, <1>5
        <5> QED BY <3>2, <3>5, <4>2, <5>1, <1>4, <1>8 DEF QuestionAt
      <4> QED BY <3>1, <4>1, <4>2 DEF QuestionAt, CogIsCognitive
    <3> QED BY <3>1, <3>3, <3>4, <3>5
  <2> QED BY <2>1, <2>2
<1>16. Gated'
  <2> SUFFICES ASSUME NEW u \in CogTurns, cogTurn'[u].lane = "cognitive"
               PROVE  /\ cogTurn'[u].pc = "verifying" => Reviewed(cogTurn'[u])
                      /\ cogTurn'[u].pc \in {"accepted", "persisting", "answered"}
                            => Verified(cogTurn'[u])
    BY DEF Gated, Reviewed, Verified, CogCriticRequired
  <2>1. CASE u = t
    BY <2>1, <1>1 DEF Writes
  <2>2. CASE u # t
    BY <2>2, <1>1 DEF Gated
  <2> QED BY <2>1, <2>2
<1>17. CogReplySeesConversation'
  <2> SUFFICES ASSUME NEW d \in CogConvs, NEW i \in DOMAIN cogMsgs'[d],
                      cogMsgs'[d][i].role = "assistant",
                      cogTurn'[cogMsgs'[d][i].turn].lane = "cognitive"
               PROVE  \E j \in 1..(i - 1) :
                        /\ cogMsgs'[d][j] = [turn |-> cogMsgs'[d][i].turn, role |-> "user"]
                        /\ \A k \in (j + 1)..(i - 1) :
                              ~(cogTurn'[cogMsgs'[d][k].turn].lane = "cognitive")
                        /\ \A k \in 1..(j - 1) :
                              cogTurn'[cogMsgs'[d][k].turn].lane = "cognitive"
                                  => k <= cogTurn'[cogMsgs'[d][i].turn].seen
    BY DEF CogReplySeesConversation, CogIsCognitive
  <2>1. CASE i \in DOMAIN cogMsgs[d]
    <3> DEFINE u == cogMsgs[d][i].turn
    <3>1. /\ cogMsgs'[d][i] = cogMsgs[d][i] /\ i \in Nat
          /\ CogIsCognitive(u) /\ u \in CogTurns
      BY <2>1, <1>4, <1>6, <1>8
    <3>2. PICK j \in 1..(i - 1) :
            /\ cogMsgs[d][j] = [turn |-> u, role |-> "user"]
            /\ \A k \in (j + 1)..(i - 1) : ~CogIsCognitive(cogMsgs[d][k].turn)
            /\ \A k \in 1..(j - 1) :
                  CogIsCognitive(cogMsgs[d][k].turn) => k <= cogTurn[u].seen
      BY <2>1, <3>1 DEF CogReplySeesConversation
    <3>3. \A k \in 1..(i - 1) : k \in DOMAIN cogMsgs[d]
      BY <2>1, <1>1
    <3>4. cogTurn'[u].seen = cogTurn[u].seen
      <4>1. cogTurn[u].pc \in {"answered", "done"}
        BY <2>1, <3>1 DEF ReplyEnds
      <4> QED BY <3>1, <4>1, <1>1 DEF Writes
    <3>5. \A k \in 1..(i - 1) :
            /\ cogMsgs'[d][k] = cogMsgs[d][k]
            /\ (cogTurn'[cogMsgs'[d][k].turn].lane = "cognitive")
                  <=> CogIsCognitive(cogMsgs[d][k].turn)
      BY <3>3, <1>4, <1>8
    <3>6. j \in Nat /\ j >= 1 /\ j <= i - 1
      BY <3>1
    <3>7. cogMsgs'[d][j] = [turn |-> cogMsgs'[d][i].turn, role |-> "user"]
      BY <3>1, <3>2, <3>5
    <3>8. \A k \in (j + 1)..(i - 1) : ~(cogTurn'[cogMsgs'[d][k].turn].lane = "cognitive")
      <4> SUFFICES ASSUME NEW k \in (j + 1)..(i - 1)
                   PROVE  ~(cogTurn'[cogMsgs'[d][k].turn].lane = "cognitive")
        OBVIOUS
      <4>1. k \in 1..(i - 1)
        BY <3>1, <3>6
      <4> QED BY <4>1, <3>2, <3>5
    <3>9. \A k \in 1..(j - 1) : cogTurn'[cogMsgs'[d][k].turn].lane = "cognitive"
                                    => k <= cogTurn'[cogMsgs'[d][i].turn].seen
      <4> SUFFICES ASSUME NEW k \in 1..(j - 1),
                          cogTurn'[cogMsgs'[d][k].turn].lane = "cognitive"
                   PROVE  k <= cogTurn[u].seen
        BY <3>1, <3>4
      <4>1. k \in 1..(i - 1)
        BY <3>1, <3>6
      <4> QED BY <4>1, <3>2, <3>5
    <3> QED BY <3>7, <3>8, <3>9
  <2>2. CASE d = c /\ i = n + 1
    <3>1. /\ role = "assistant" /\ q.lane = "cognitive" /\ cogMsgs'[c][i].turn = t
          /\ cogTurn[t].lane = "cognitive" /\ cogTurn[t].pc = "persisting"
          /\ cogTurn[t].conv = c /\ cogTurn'[t].seen = cogTurn[t].seen
      BY <2>2, <1>1, <1>3 DEF Writes
    <3>2. PICK j \in DOMAIN cogMsgs[c] : QuestionAt(t, c, j)
      BY <3>1 DEF Asked, AskedSteps, Writes
    <3>3. j \in 1..n /\ n \in Nat
      BY <3>2, <1>2
    <3>4. cogMsgs'[c][j] = [turn |-> t, role |-> "user"]
      BY <3>2, <1>4 DEF QuestionAt
    <3>5. \A k \in 1..n : cogTurn'[cogMsgs'[c][k].turn].lane = "cognitive"
                => k <= j /\ (k < j => k <= cogTurn[t].seen)
      BY <3>2, <1>2, <1>4, <1>8 DEF QuestionAt
    <3>6. \A k \in (j + 1)..(i - 1) : ~(cogTurn'[cogMsgs'[c][k].turn].lane = "cognitive")
      <4> SUFFICES ASSUME NEW k \in (j + 1)..(i - 1)
                   PROVE  ~(cogTurn'[cogMsgs'[c][k].turn].lane = "cognitive")
        OBVIOUS
      <4>1. k \in 1..n /\ ~(k <= j)
        BY <2>2, <3>3
      <4> QED BY <4>1, <3>5
    <3>7. \A k \in 1..(j - 1) : cogTurn'[cogMsgs'[c][k].turn].lane = "cognitive"
                                    => k <= cogTurn[t].seen
      <4> SUFFICES ASSUME NEW k \in 1..(j - 1),
                          cogTurn'[cogMsgs'[c][k].turn].lane = "cognitive"
                   PROVE  k <= cogTurn[t].seen
        OBVIOUS
      <4>1. k \in 1..n /\ k < j
        BY <3>3
      <4> QED BY <4>1, <3>5
    <3>8. j \in 1..(i - 1)
      BY <2>2, <3>3
    <3> QED BY <2>2, <3>1, <3>4, <3>6, <3>7, <3>8
  <2> QED BY <2>1, <2>2, <1>5
<1>18. CogReviewedIsPublished'
  <2>1. \A d \in CogConvs : \A i \in DOMAIN cogMsgs[d] :
            cogMsgs[d][i].role = "assistant" /\ CogIsCognitive(cogMsgs[d][i].turn)
                => Verified(cogTurn[cogMsgs[d][i].turn])
    BY DEF CogReviewedIsPublished, CogIsCognitive, Verified
  <2>2. ASSUME NEW d \in CogConvs, NEW i \in DOMAIN cogMsgs'[d],
               cogMsgs'[d][i].role = "assistant",
               cogTurn'[cogMsgs'[d][i].turn].lane = "cognitive"
        PROVE  Verified(cogTurn'[cogMsgs'[d][i].turn])
    <3>1. CASE i \in DOMAIN cogMsgs[d]
      <4>1. cogMsgs'[d][i] = cogMsgs[d][i] /\ CogIsCognitive(cogMsgs[d][i].turn)
        BY <2>2, <3>1, <1>4, <1>8
      <4>2. cogTurn[cogMsgs[d][i].turn].pc \in {"answered", "done"}
        BY <2>2, <3>1, <4>1 DEF ReplyEnds
      <4>3. cogTurn'[cogMsgs[d][i].turn] = cogTurn[cogMsgs[d][i].turn]
        BY <3>1, <4>2, <1>1, <1>6 DEF Writes
      <4> QED BY <2>1, <2>2, <3>1, <4>1, <4>3
    <3>2. CASE d = c /\ i = n + 1
      BY <2>2, <3>2, <1>1, <1>3 DEF Writes
    <3> QED BY <3>1, <3>2, <1>5
  <2> QED BY <2>2 DEF CogReviewedIsPublished, Verified
<1> QED
  BY <1>10, <1>11, <1>p, <1>12, <1>13, <1>14, <1>15, <1>16, <1>17, <1>18

-----------------------------------------------------------------------------
(* Steps of everybody: an edit of the project, a restart; a delete.        *)

\* What a thread keeps: it ends, or it goes on and knows of a change.
Survives(u) ==
    /\ cogTurn'[u] \in CogThread /\ cogTurn'[u].lane = cogTurn[u].lane
    /\ cogTurn'[u].pc # "idle" => cogTurn[u].pc # "idle" /\ cogTurn'[u].conv = cogTurn[u].conv
    /\ cogTurn[u].pc \in {"answered", "done"} =>
          /\ cogTurn'[u].pc \in {"answered", "done"}
          /\ cogTurn'[u].seen = cogTurn[u].seen
          /\ Verified(cogTurn[u]) => Verified(cogTurn'[u])
    /\ cogTurn'[u].pc # "done" =>
          /\ cogTurn'[u].pc = cogTurn[u].pc /\ cogTurn'[u].conv = cogTurn[u].conv
          /\ cogTurn'[u].seen = cogTurn[u].seen
          /\ Reviewed(cogTurn[u]) => Reviewed(cogTurn'[u])
          /\ Verified(cogTurn[u]) => Verified(cogTurn'[u])
          /\ cogTurn'[u].pc \in HoldingSteps =>
                \A c \in CogConvs : cogGuard[c] = u => cogGuard'[c] = u

LEMMA SurvivalKeeps ==
    ASSUME CogIInv, \A u \in CogTurns : Survives(u),
           cogTurn' \in [CogTurns -> CogThread], cogMsgs' = cogMsgs,
           cogConv' \in [CogConvs -> {"absent", "pending", "live", "deleted"}],
           \A c \in CogConvs : cogConv[c] # cogConv'[c] =>
               cogConv[c] \in {"absent", "pending"} /\ cogConv'[c] \in {"absent", "pending"},
           cogGuard' \in [CogConvs -> CogTurns \cup {CogNone}],
           cogWriter' \in CogTurns \cup {CogNone}
    PROVE  CogIInv'
<1> USE DEF CogIInv
<1>1. CogTypeOK'
  BY DEF CogTypeOK
<1>2. \A c \in CogConvs : \A i \in DOMAIN cogMsgs[c] :
         /\ cogMsgs[c][i].turn \in CogTurns
         /\ cogTurn[cogMsgs[c][i].turn].pc # "idle"
  <2>1. ASSUME NEW c \in CogConvs, NEW i \in DOMAIN cogMsgs[c]
        PROVE  cogMsgs[c][i] \in CogMessage
    BY DEF CogTypeOK
  <2> QED BY <2>1 DEF IdleIsSilent, CogMessage
<1>3. CogExclusive'
  <2> SUFFICES ASSUME NEW u \in CogTurns, cogTurn'[u].lane = "cognitive",
                      cogTurn'[u].pc \in HoldingSteps
               PROVE  cogTurn'[u].conv \in CogConvs /\ cogGuard'[cogTurn'[u].conv] = u
    BY DEF CogExclusive
  <2>1. cogTurn'[u].pc # "done"
    BY DEF HoldingSteps
  <2>2. cogTurn'[u].conv \in CogConvs /\ cogGuard[cogTurn'[u].conv] = u
    BY <2>1 DEF Survives, CogExclusive
  <2> QED BY <2>1, <2>2 DEF Survives
<1>p. Placed'
  BY DEF Placed, Survives
<1>4. IdleIsSilent'
  BY <1>2 DEF IdleIsSilent, Survives
<1>5. \A c \in CogConvs : \A k \in DOMAIN cogMsgs[c] :
         (cogTurn'[cogMsgs[c][k].turn].lane = "cognitive")
            <=> CogIsCognitive(cogMsgs[c][k].turn)
  BY <1>2 DEF CogIsCognitive, Survives
<1>6. ReplyEnds'
  BY <1>2, <1>5 DEF ReplyEnds, CogIsCognitive, Survives
<1>7. FrozenSawAll'
  <2> SUFFICES ASSUME NEW u \in CogTurns, cogTurn'[u].lane = "cognitive",
                      cogTurn'[u].pc \in {"resolved", "frozen"}
               PROVE  SawAll(cogTurn[u], cogTurn[u].conv)'
    BY DEF FrozenSawAll
  <2>1. /\ cogTurn[u].lane = "cognitive" /\ cogTurn[u].pc \in {"resolved", "frozen"}
        /\ cogTurn'[u].conv = cogTurn[u].conv /\ cogTurn'[u].seen = cogTurn[u].seen
    BY DEF Survives
  <2>2. SawAll(cogTurn[u], cogTurn[u].conv) /\ cogTurn[u].conv \in CogConvs
    BY <2>1 DEF FrozenSawAll, CogExclusive, HoldingSteps
  <2> QED BY <2>1, <2>2, <1>5 DEF SawAll, CogIsCognitive
<1>8. Asked'
  <2> SUFFICES ASSUME NEW u \in CogTurns, cogTurn'[u].lane = "cognitive",
                      cogTurn'[u].pc \in AskedSteps
               PROVE  /\ cogConv'[cogTurn'[u].conv] \in {"live", "deleted"}
                      /\ cogConv'[cogTurn'[u].conv] = "live" =>
                            \E j \in DOMAIN cogMsgs'[cogTurn'[u].conv] :
                                QuestionAt(u, cogTurn[u].conv, j)'
    BY DEF Asked
  <2>1. /\ cogTurn[u].lane = "cognitive" /\ cogTurn[u].pc \in AskedSteps
        /\ cogTurn'[u].conv = cogTurn[u].conv /\ cogTurn'[u].seen = cogTurn[u].seen
    BY DEF Survives, AskedSteps
  <2> DEFINE c == cogTurn[u].conv
  <2>2. c \in CogConvs
    BY <2>1 DEF CogExclusive, HoldingSteps, AskedSteps
  <2>3. /\ cogConv[c] \in {"live", "deleted"}
        /\ cogConv[c] = "live" => \E j \in DOMAIN cogMsgs[c] : QuestionAt(u, c, j)
    BY <2>1 DEF Asked
  <2>4. cogConv'[c] = cogConv[c]
    BY <2>2, <2>3
  <2>5. \A j \in DOMAIN cogMsgs[c] : QuestionAt(u, c, j) => QuestionAt(u, cogTurn[u].conv, j)'
    BY <2>1, <2>2, <1>5 DEF QuestionAt, CogIsCognitive
  <2> QED BY <2>1, <2>3, <2>4, <2>5
<1>9. Gated'
  <2> SUFFICES ASSUME NEW u \in CogTurns, cogTurn'[u].lane = "cognitive"
               PROVE  /\ cogTurn'[u].pc = "verifying" => Reviewed(cogTurn'[u])
                      /\ cogTurn'[u].pc \in {"accepted", "persisting", "answered"}
                            => Verified(cogTurn'[u])
    BY DEF Gated, Reviewed, Verified, CogCriticRequired
  <2> QED BY DEF Gated, Survives
<1>10. \A c \in CogConvs : \A i \in DOMAIN cogMsgs[c] :
          cogMsgs[c][i].role = "assistant" /\ CogIsCognitive(cogMsgs[c][i].turn) =>
              /\ cogTurn'[cogMsgs[c][i].turn].seen = cogTurn[cogMsgs[c][i].turn].seen
              /\ Verified(cogTurn[cogMsgs[c][i].turn])
                    => Verified(cogTurn'[cogMsgs[c][i].turn])
  BY <1>2 DEF ReplyEnds, Survives
<1>11. CogReplySeesConversation'
  <2> SUFFICES ASSUME NEW c \in CogConvs, NEW i \in DOMAIN cogMsgs[c],
                      cogMsgs[c][i].role = "assistant",
                      CogIsCognitive(cogMsgs[c][i].turn)
               PROVE  \E j \in 1..(i - 1) :
                        /\ cogMsgs[c][j] = [turn |-> cogMsgs[c][i].turn, role |-> "user"]
                        /\ \A k \in (j + 1)..(i - 1) :
                              ~(cogTurn'[cogMsgs[c][k].turn].lane = "cognitive")
                        /\ \A k \in 1..(j - 1) :
                              cogTurn'[cogMsgs[c][k].turn].lane = "cognitive"
                                  => k <= cogTurn'[cogMsgs[c][i].turn].seen
    BY <1>5 DEF CogReplySeesConversation, CogIsCognitive
  <2>1. PICK j \in 1..(i - 1) :
          /\ cogMsgs[c][j] = [turn |-> cogMsgs[c][i].turn, role |-> "user"]
          /\ \A k \in (j + 1)..(i - 1) : ~CogIsCognitive(cogMsgs[c][k].turn)
          /\ \A k \in 1..(j - 1) :
                CogIsCognitive(cogMsgs[c][k].turn) => k <= cogTurn[cogMsgs[c][i].turn].seen
    BY DEF CogReplySeesConversation
  <2>2. i \in Nat /\ \A k \in 1..(i - 1) : k \in DOMAIN cogMsgs[c]
    BY DEF CogTypeOK
  <2>3. cogTurn'[cogMsgs[c][i].turn].seen = cogTurn[cogMsgs[c][i].turn].seen
    BY <1>10
  <2>4. \A k \in (j + 1)..(i - 1) : ~(cogTurn'[cogMsgs[c][k].turn].lane = "cognitive")
    BY <2>1, <2>2, <1>5
  <2>5. \A k \in 1..(j - 1) :
          cogTurn'[cogMsgs[c][k].turn].lane = "cognitive"
              => k <= cogTurn'[cogMsgs[c][i].turn].seen
    BY <2>1, <2>2, <2>3, <1>5
  <2> QED BY <2>1, <2>4, <2>5
<1>12. CogReviewedIsPublished'
  <2>1. \A c \in CogConvs : \A i \in DOMAIN cogMsgs[c] :
            cogMsgs[c][i].role = "assistant" /\ CogIsCognitive(cogMsgs[c][i].turn)
                => Verified(cogTurn[cogMsgs[c][i].turn])
    BY DEF CogReviewedIsPublished, CogIsCognitive, Verified
  <2>2. \A c \in CogConvs : \A i \in DOMAIN cogMsgs'[c] :
            cogMsgs'[c][i].role = "assistant"
                /\ cogTurn'[cogMsgs'[c][i].turn].lane = "cognitive"
            => Verified(cogTurn'[cogMsgs'[c][i].turn])
    BY <2>1, <1>5, <1>10
  <2> QED BY <2>2 DEF CogReviewedIsPublished, Verified
<1> QED
  BY <1>1, <1>3, <1>p, <1>4, <1>6, <1>7, <1>8, <1>9, <1>11, <1>12

LEMMA EditKeeps == ASSUME CogIInv, CogEdit PROVE CogIInv'
<1>1. /\ cogTurn \in [CogTurns -> CogThread]
      /\ cogConv \in [CogConvs -> {"absent", "pending", "live", "deleted"}]
      /\ cogGuard \in [CogConvs -> CogTurns \cup {CogNone}]
      /\ cogWriter \in CogTurns \cup {CogNone}
  BY DEF CogIInv, CogTypeOK
<1>2. /\ cogConv' = cogConv /\ cogMsgs' = cogMsgs /\ cogWriter' = cogWriter
      /\ cogGuard' = cogGuard
  BY DEF CogEdit, CogKeepsTables
<1>3. ASSUME NEW u \in CogTurns PROVE Survives(u) /\ cogTurn'[u] \in CogThread
  <2>1. \/ cogTurn'[u] = [cogTurn[u] EXCEPT !.changed = TRUE]
        \/ cogTurn'[u] = cogTurn[u]
    BY DEF CogEdit
  <2>2. cogTurn[u] \in CogThread
    BY <1>1
  <2>3. cogTurn'[u] \in CogThread
    BY <2>1, <2>2 DEF CogThread
  <2>4. /\ cogTurn'[u].pc = cogTurn[u].pc /\ cogTurn'[u].conv = cogTurn[u].conv
        /\ cogTurn'[u].lane = cogTurn[u].lane /\ cogTurn'[u].seen = cogTurn[u].seen
        /\ cogTurn'[u].items = cogTurn[u].items /\ cogTurn'[u].draft = cogTurn[u].draft
        /\ cogTurn'[u].review = cogTurn[u].review /\ cogTurn'[u].verdict = cogTurn[u].verdict
        /\ cogTurn'[u].revision = cogTurn[u].revision
    BY <2>1, <2>2 DEF CogThread
  <2> QED BY <2>3, <2>4, <1>2 DEF Survives, Verified, Reviewed, CogCriticRequired
<1>4. cogTurn' \in [CogTurns -> CogThread]
  BY <1>3 DEF CogEdit
<1> QED BY <1>1, <1>2, <1>3, <1>4, SurvivalKeeps

LEMMA RestartKeeps == ASSUME CogIInv, CogRestart PROVE CogIInv'
<1>1. /\ CogTypeOK
      /\ cogTurn \in [CogTurns -> CogThread]
      /\ cogConv \in [CogConvs -> {"absent", "pending", "live", "deleted"}]
  BY DEF CogIInv, CogTypeOK
<1>2. ASSUME NEW u \in CogTurns PROVE Survives(u) /\ cogTurn'[u] \in CogThread
  <2>1. cogTurn[u] \in CogThread
    BY <1>1
  <2>2. CASE cogTurn[u].pc = "idle"
    <3>1. cogTurn'[u] = cogTurn[u]
      BY <2>2 DEF CogRestart
    <3> QED BY <2>1, <2>2, <3>1 DEF Survives, HoldingSteps
  <2>3. CASE cogTurn[u].pc \in {"answered", "done"}
    <3>1. cogTurn'[u] = [cogTurn[u] EXCEPT !.pc = "done"]
      BY <2>3 DEF CogRestart
    <3>2. cogTurn'[u] \in CogThread /\ cogTurn'[u].pc = "done"
      BY <2>1, <3>1 DEF CogThread, CogSteps
    <3>3. /\ cogTurn'[u].lane = cogTurn[u].lane /\ cogTurn'[u].seen = cogTurn[u].seen
          /\ cogTurn'[u].conv = cogTurn[u].conv
          /\ cogTurn'[u].items = cogTurn[u].items /\ cogTurn'[u].draft = cogTurn[u].draft
          /\ cogTurn'[u].review = cogTurn[u].review
          /\ cogTurn'[u].verdict = cogTurn[u].verdict
          /\ cogTurn'[u].revision = cogTurn[u].revision
      BY <2>1, <3>1 DEF CogThread
    <3> QED BY <2>3, <3>2, <3>3 DEF Survives, Verified
  <2>4. CASE cogTurn[u].pc \notin {"idle", "answered", "done"}
    <3>1. cogTurn'[u] = CogEnded(u, "done")
      BY <2>4 DEF CogRestart
    <3>2. cogTurn'[u] \in CogThread /\ cogTurn'[u].pc = "done"
          /\ cogTurn'[u].lane = cogTurn[u].lane /\ cogTurn'[u].conv = cogTurn[u].conv
      BY <3>1, <1>1, EndedType DEF CogSteps
    <3> QED BY <2>4, <3>2 DEF Survives
  <2> QED BY <2>2, <2>3, <2>4
<1>3. cogTurn' \in [CogTurns -> CogThread]
  BY <1>2 DEF CogRestart
<1>4. /\ cogConv' \in [CogConvs -> {"absent", "pending", "live", "deleted"}]
      /\ \A c \in CogConvs : cogConv[c] # cogConv'[c] =>
            cogConv[c] \in {"absent", "pending"} /\ cogConv'[c] \in {"absent", "pending"}
  BY <1>1 DEF CogRestart
<1>5. /\ cogGuard' \in [CogConvs -> CogTurns \cup {CogNone}]
      /\ cogWriter' \in CogTurns \cup {CogNone} /\ cogMsgs' = cogMsgs
  BY DEF CogRestart
<1> QED BY <1>2, <1>3, <1>4, <1>5, SurvivalKeeps

LEMMA DeleteKeeps == ASSUME CogIInv, NEW d \in CogConvs, CogDelete(d) PROVE CogIInv'
<1> USE DEF CogIInv
<1>1. /\ cogMsgs \in [CogConvs -> Seq(CogMessage)]
      /\ cogConv \in [CogConvs -> {"absent", "pending", "live", "deleted"}]
  BY DEF CogTypeOK
<1>2. /\ cogTurn' = cogTurn /\ cogGuard' = cogGuard /\ cogWriter' = cogWriter
      /\ cogMsgs' = [cogMsgs EXCEPT ![d] = <<>>]
      /\ cogConv' = [cogConv EXCEPT ![d] = "deleted"]
  BY DEF CogDelete
<1>3. /\ cogMsgs'[d] = <<>> /\ cogConv'[d] = "deleted"
      /\ \A c \in CogConvs \ {d} : cogMsgs'[c] = cogMsgs[c] /\ cogConv'[c] = cogConv[c]
      /\ DOMAIN cogMsgs'[d] = {}
  BY <1>1, <1>2
<1>4. CogTypeOK'
  BY <1>1, <1>2 DEF CogTypeOK
<1>5. CogExclusive'
  BY <1>2 DEF CogExclusive
<1>6. Placed' /\ IdleIsSilent' /\ ReplyEnds'
  BY <1>2, <1>3 DEF Placed, IdleIsSilent, ReplyEnds, CogIsCognitive
<1>7. FrozenSawAll'
  <2> SUFFICES ASSUME NEW u \in CogTurns, cogTurn[u].lane = "cognitive",
                      cogTurn[u].pc \in {"resolved", "frozen"}
               PROVE  SawAll(cogTurn[u], cogTurn[u].conv)'
    BY <1>2 DEF FrozenSawAll
  <2>1. SawAll(cogTurn[u], cogTurn[u].conv) /\ cogTurn[u].conv \in CogConvs
    BY DEF FrozenSawAll, CogExclusive, HoldingSteps
  <2> QED BY <2>1, <1>2, <1>3 DEF SawAll, CogIsCognitive
<1>8. Asked'
  <2> SUFFICES ASSUME NEW u \in CogTurns, cogTurn[u].lane = "cognitive",
                      cogTurn[u].pc \in AskedSteps
               PROVE  /\ cogConv'[cogTurn[u].conv] \in {"live", "deleted"}
                      /\ cogConv'[cogTurn[u].conv] = "live" =>
                            \E j \in DOMAIN cogMsgs'[cogTurn[u].conv] :
                                QuestionAt(u, cogTurn[u].conv, j)'
    BY <1>2 DEF Asked
  <2>1. cogTurn[u].conv \in CogConvs
    BY DEF CogExclusive, HoldingSteps, AskedSteps
  <2>2. CASE cogTurn[u].conv = d
    BY <2>2, <1>3
  <2>3. CASE cogTurn[u].conv # d
    <3>1. /\ cogConv'[cogTurn[u].conv] = cogConv[cogTurn[u].conv]
          /\ cogMsgs'[cogTurn[u].conv] = cogMsgs[cogTurn[u].conv]
      BY <2>1, <2>3, <1>3
    <3>2. \A j : QuestionAt(u, cogTurn[u].conv, j) => QuestionAt(u, cogTurn[u].conv, j)'
      BY <3>1, <1>2 DEF QuestionAt, CogIsCognitive
    <3> QED BY <3>1, <3>2 DEF Asked
  <2> QED BY <2>2, <2>3
<1>9. Gated'
  BY <1>2 DEF Gated, Reviewed, Verified, CogCriticRequired
<1>10. CogReplySeesConversation'
  BY <1>2, <1>3 DEF CogReplySeesConversation, CogIsCognitive
<1>11. CogReviewedIsPublished'
  BY <1>2, <1>3 DEF CogReviewedIsPublished
<1> QED BY <1>4, <1>5, <1>6, <1>7, <1>8, <1>9, <1>10, <1>11

-----------------------------------------------------------------------------
(* The steps of one thread.                                                *)

\* An exception ends the turn and rolls back what it has not committed.
LEMMA FailKeeps ==
    ASSUME CogIInv, NEW t \in CogTurns, CogFail(t),
           cogTurn[t].pc \notin {"idle", "answered", "done"}
    PROVE  CogIInv'
<1>1. /\ CogTypeOK /\ cogTurn \in [CogTurns -> CogThread]
      /\ cogConv \in [CogConvs -> {"absent", "pending", "live", "deleted"}]
      /\ cogGuard \in [CogConvs -> CogTurns \cup {CogNone}]
      /\ cogWriter \in CogTurns \cup {CogNone}
  BY DEF CogIInv, CogTypeOK
<1>2. /\ CogEnded(t, "failing") \in CogThread /\ CogEnded(t, "failing").pc = "failing"
      /\ CogEnded(t, "failing").lane = cogTurn[t].lane
      /\ CogEnded(t, "failing").conv \in CogConvs
  BY <1>1, EndedType DEF CogSteps, CogIInv, Placed
<1>3. Becomes(t, CogEnded(t, "failing"))
  BY <1>2 DEF Becomes, CogFail, CogGoes, HoldingSteps, AskedSteps
<1>4. KeepsCommitted(t)
  BY <1>1 DEF KeepsCommitted, CogFail, CogRollback
<1> QED BY <1>2, <1>3, <1>4, ThreadStepKeeps

\* A turn that changes no table but its own thread.
LEMMA OnlyThread ==
    ASSUME CogIInv, NEW t \in CogTurns, CogKeepsTables, cogGuard' = cogGuard
    PROVE  KeepsCommitted(t)
BY DEF CogIInv, CogTypeOK, KeepsCommitted, CogKeepsTables

LEMMA ReserveKeeps ==
    ASSUME CogIInv, NEW t \in CogTurns, NEW lane \in CogLanes, NEW c \in CogConvs,
           CogReserve(t, lane, c)
    PROVE  CogIInv'
<1> DEFINE q == [CogFresh EXCEPT !.pc = "reserved", !.lane = lane, !.conv = c]
<1>1. q \in CogThread /\ q.pc = "reserved"
  BY FreshType DEF CogFresh, CogThread, CogSteps
<1>2. Becomes(t, q)
  BY <1>1 DEF Becomes, CogReserve, CogGoes, HoldingSteps, AskedSteps
<1>3. KeepsCommitted(t)
  BY DEF CogIInv, CogTypeOK, KeepsCommitted, CogReserve
<1> HIDE DEF q
<1> QED BY <1>2, <1>3, ThreadStepKeeps

LEMMA AcquireKeeps ==
    ASSUME CogIInv, NEW t \in CogTurns, CogAcquire(t)
    PROVE  CogIInv'
<1>1. /\ CogTypeOK /\ cogTurn[t].conv \in CogConvs
      /\ cogGuard \in [CogConvs -> CogTurns \cup {CogNone}]
  BY DEF CogIInv, CogTypeOK, Placed, CogAcquire
<1>2. PICK q : q = [cogTurn[t] EXCEPT !.pc = "leased"]
  OBVIOUS
<1>3. /\ q \in CogThread /\ q.pc = "leased" /\ q.lane = cogTurn[t].lane
      /\ q.conv = cogTurn[t].conv
  BY <1>1, <1>2, StepType DEF CogSteps
<1>4. cogGuard' = [cogGuard EXCEPT ![cogTurn[t].conv] = t]
  BY DEF CogAcquire
<1>5. Becomes(t, q)
  BY <1>1, <1>2, <1>3, <1>4
     DEF Becomes, CogAcquire, CogStep, CogGoes, HoldingSteps, AskedSteps
<1>6. KeepsCommitted(t)
  BY <1>1, <1>4, CogAssumption
     DEF CogIInv, CogTypeOK, KeepsCommitted, CogAcquire, CogKeepsTables, CogLeaseFree
<1> QED BY <1>5, <1>6, ThreadStepKeeps

LEMMA ResolveKeeps ==
    ASSUME CogIInv, NEW t \in CogTurns, CogResolve(t)
    PROVE  CogIInv'
<1>1. /\ CogTypeOK /\ cogTurn[t].conv \in CogConvs /\ cogTurn[t] \in CogThread
      /\ cogMsgs[cogTurn[t].conv] \in Seq(CogMessage)
  BY DEF CogIInv, CogTypeOK, Placed, CogResolve
<1>2. PICK n \in Nat : n = Len(cogMsgs[cogTurn[t].conv])
                       /\ DOMAIN cogMsgs[cogTurn[t].conv] = 1..n
  BY <1>1
<1>3. PICK q : q = [cogTurn[t] EXCEPT !.pc = "resolved", !.seen = n]
  OBVIOUS
<1>4. /\ q \in CogThread /\ q.pc = "resolved" /\ q.lane = cogTurn[t].lane
      /\ q.conv = cogTurn[t].conv /\ q.seen = n
  BY <1>1, <1>3 DEF CogThread, CogSteps
<1>5. SawAll(q, q.conv)
  BY <1>2, <1>4 DEF SawAll
<1>6. q.lane = "cognitive" => cogGuard[q.conv] = t
  BY <1>4 DEF CogIInv, CogExclusive, HoldingSteps, CogResolve
<1>7. KeepsCommitted(t) /\ cogGuard' = cogGuard
  BY OnlyThread DEF CogResolve
<1>8. Becomes(t, q)
  BY <1>1, <1>2, <1>3, <1>4, <1>5, <1>6, <1>7
     DEF Becomes, CogResolve, CogGoes, AskedSteps
<1> QED BY <1>7, <1>8, ThreadStepKeeps

LEMMA CaptureKeeps ==
    ASSUME CogIInv, NEW t \in CogTurns, CogCapture(t)
    PROVE  CogIInv'
<1>1. /\ CogTypeOK /\ cogTurn[t].conv \in CogConvs /\ cogTurn[t] \in CogThread
      /\ cogTurn[t].pc = "resolved"
  BY DEF CogIInv, CogTypeOK, Placed, CogCapture
<1>2. cogTurn[t].lane = "cognitive" =>
         cogGuard[cogTurn[t].conv] = t /\ SawAll(cogTurn[t], cogTurn[t].conv)
  BY <1>1 DEF CogIInv, CogExclusive, HoldingSteps, FrozenSawAll
<1>3. KeepsCommitted(t) /\ cogGuard' = cogGuard
  BY OnlyThread DEF CogCapture
<1>4. PICK q : /\ cogTurn' = [cogTurn EXCEPT ![t] = q]
               /\ q \in CogThread /\ q.pc \in {"leased", "frozen"}
               /\ q.lane = cogTurn[t].lane /\ q.conv = cogTurn[t].conv
               /\ q.seen = cogTurn[t].seen
  <2>1. ASSUME NEW items \in BOOLEAN,
               CogGoes(t, [cogTurn[t] EXCEPT !.pc = "frozen", !.again = FALSE,
                              !.items = items /\ cogTurn[t].lane = "cognitive"])
        PROVE  \E q : /\ cogTurn' = [cogTurn EXCEPT ![t] = q]
                      /\ q \in CogThread /\ q.pc \in {"leased", "frozen"}
                      /\ q.lane = cogTurn[t].lane /\ q.conv = cogTurn[t].conv
                      /\ q.seen = cogTurn[t].seen
    <3>1. PICK b \in BOOLEAN : b = (items /\ cogTurn[t].lane = "cognitive")
      BY Zenon
    <3>2. PICK q : q = [cogTurn[t] EXCEPT !.pc = "frozen", !.again = FALSE, !.items = b]
      OBVIOUS
    <3>3. /\ q \in CogThread /\ q.pc = "frozen" /\ q.lane = cogTurn[t].lane
          /\ q.conv = cogTurn[t].conv /\ q.seen = cogTurn[t].seen
      BY <1>1, <3>2 DEF CogThread, CogSteps
    <3> QED BY <2>1, <3>1, <3>2, <3>3 DEF CogGoes
  <2>2. ASSUME CogGoes(t, [cogTurn[t] EXCEPT !.pc = "leased", !.changed = FALSE,
                                             !.again = TRUE])
        PROVE  \E q : /\ cogTurn' = [cogTurn EXCEPT ![t] = q]
                      /\ q \in CogThread /\ q.pc \in {"leased", "frozen"}
                      /\ q.lane = cogTurn[t].lane /\ q.conv = cogTurn[t].conv
                      /\ q.seen = cogTurn[t].seen
    <3>2. PICK q : q = [cogTurn[t] EXCEPT !.pc = "leased", !.changed = FALSE,
                                          !.again = TRUE]
      OBVIOUS
    <3>3. /\ q \in CogThread /\ q.pc = "leased" /\ q.lane = cogTurn[t].lane
          /\ q.conv = cogTurn[t].conv /\ q.seen = cogTurn[t].seen
      BY <1>1, <3>2 DEF CogThread, CogSteps
    <3> QED BY <2>2, <3>2, <3>3 DEF CogGoes
  <2> QED BY <2>1, <2>2 DEF CogCapture
<1>5. Becomes(t, q)
  BY <1>1, <1>2, <1>3, <1>4 DEF Becomes, AskedSteps, SawAll
<1> QED BY <1>3, <1>5, ThreadStepKeeps

LEMMA PrepareKeeps ==
    ASSUME CogIInv, NEW t \in CogTurns, CogPrepare(t)
    PROVE  CogIInv'
<1>1. /\ CogTypeOK /\ cogTurn[t].conv \in CogConvs /\ cogTurn[t] \in CogThread
      /\ cogTurn[t].pc = "frozen"
  BY DEF CogIInv, CogTypeOK, Placed, CogPrepare
<1>2. PICK action \in {"respond", "insufficient", "revise"} :
         CogGoes(t, [cogTurn[t] EXCEPT !.pc = "prepared", !.action = action])
  BY DEF CogPrepare
<1>3. PICK q : q = [cogTurn[t] EXCEPT !.pc = "prepared", !.action = action]
  OBVIOUS
<1>4. /\ q \in CogThread /\ q.pc = "prepared" /\ q.lane = cogTurn[t].lane
      /\ q.conv = cogTurn[t].conv /\ q.seen = cogTurn[t].seen
  BY <1>1, <1>3 DEF CogThread, CogSteps
<1>5. Writes(t, q, cogTurn[t].conv, "user")
  BY <1>1, <1>2, <1>3, <1>4
     DEF Writes, CogPrepare, CogGoes, CogCommitMessage, CogReadable
<1> QED BY <1>1, <1>5, WriteKeeps

LEMMA CompleteKeeps ==
    ASSUME CogIInv, NEW t \in CogTurns, CogComplete(t)
    PROVE  CogIInv'
<1>1. /\ CogTypeOK /\ cogTurn[t].conv \in CogConvs /\ cogTurn[t].pc = "persisting"
  BY DEF CogIInv, CogTypeOK, Placed, CogComplete
<1>2. PICK q : q = [cogTurn[t] EXCEPT !.pc = "answered"]
  OBVIOUS
<1>3. /\ q \in CogThread /\ q.pc = "answered" /\ q.lane = cogTurn[t].lane
      /\ q.conv = cogTurn[t].conv /\ q.seen = cogTurn[t].seen
      /\ Verified(q) <=> Verified(cogTurn[t])
  BY <1>1, <1>2, StepType DEF CogSteps
<1>4. q.lane = "cognitive" => Verified(q)
  BY <1>1, <1>3 DEF CogIInv, Gated
<1>5. Writes(t, q, cogTurn[t].conv, "assistant")
  BY <1>1, <1>2, <1>3, <1>4
     DEF Writes, CogComplete, CogStep, CogGoes, CogCommitMessage, CogReadable
<1> QED BY <1>1, <1>5, WriteKeeps

LEMMA BridgeKeeps ==
    ASSUME CogIInv, NEW t \in CogTurns, NEW c \in CogConvs, CogBridge(t, c)
    PROVE  CogIInv'
<1>1. PICK q : q = [CogFresh EXCEPT !.pc = "persisting", !.lane = "bridge", !.conv = c]
  OBVIOUS
<1>2. q \in CogThread /\ q.pc = "persisting" /\ q.lane = "bridge" /\ q.conv = c
  BY <1>1, FreshType DEF CogFresh, CogThread, CogSteps, CogLanes
<1>3. Writes(t, q, c, "user")
  BY <1>1, <1>2 DEF Writes, CogBridge, CogGoes, CogIInv, CogTypeOK
<1> QED BY <1>3, WriteKeeps

\* A draft that needs a critic goes to it; one that does not is as reviewed as
\* it has to be.
LEMMA DraftedType ==
    ASSUME NEW q \in CogThread, NEW critic \in CogPurposes
    PROVE  /\ CogDrafted(q, critic) \in CogThread
           /\ CogDrafted(q, critic).pc \in {"invoking", "verifying"}
           /\ CogDrafted(q, critic).lane = q.lane /\ CogDrafted(q, critic).conv = q.conv
           /\ CogDrafted(q, critic).seen = q.seen
           /\ CogDrafted(q, critic).pc = "verifying" => Reviewed(CogDrafted(q, critic))
<1>1. CogUnreviewed \in [of : 0..2, result : CogResults]
  BY DEF CogUnreviewed, CogResults
<1>2. CASE CogCriticRequired(q)
  BY <1>1, <1>2 DEF CogDrafted, CogThread, CogSteps
<1>3. CASE ~CogCriticRequired(q)
  <2>1. PICK p : p = [q EXCEPT !.pc = "verifying", !.review = CogUnreviewed]
    OBVIOUS
  <2>2. /\ p \in CogThread /\ p.pc = "verifying" /\ p.lane = q.lane /\ p.conv = q.conv
        /\ p.seen = q.seen /\ p.items = q.items /\ p.draft = q.draft
    BY <1>1, <2>1 DEF CogThread, CogSteps
  <2>3. CogDrafted(q, critic) = p
    BY <1>3, <2>1 DEF CogDrafted
  <2> QED BY <1>3, <2>2, <2>3 DEF Reviewed, CogCriticRequired
<1> QED BY <1>2, <1>3

\* A turn between its question and its reply that goes on there.
LEMMA GoesOn ==
    ASSUME CogIInv, NEW t \in CogTurns, NEW q \in CogThread,
           cogTurn[t].pc \in AskedSteps, q.pc \in AskedSteps,
           q.lane = cogTurn[t].lane, q.conv = cogTurn[t].conv, q.seen = cogTurn[t].seen,
           cogTurn' = [cogTurn EXCEPT ![t] = q],
           CogKeepsTables, cogGuard' = cogGuard,
           q.lane = "cognitive" =>
               /\ q.pc = "verifying" => Reviewed(q)
               /\ q.pc \in {"accepted", "persisting"} => Verified(q)
    PROVE  CogIInv'
<1>1. q.conv \in CogConvs /\ (q.lane = "cognitive" => cogGuard[q.conv] = t)
  BY DEF CogIInv, Placed, CogExclusive, HoldingSteps, AskedSteps
<1>2. Becomes(t, q)
  BY <1>1 DEF Becomes, AskedSteps
<1>3. KeepsCommitted(t)
  BY OnlyThread
<1> QED BY <1>2, <1>3, ThreadStepKeeps

LEMMA SynthesizeKeeps ==
    ASSUME CogIInv, NEW t \in CogTurns, CogSynthesize(t)
    PROVE  CogIInv'
<1>1. cogTurn[t] \in CogThread /\ cogTurn[t].pc = "prepared"
  BY DEF CogIInv, CogTypeOK, CogSynthesize
<1>2. CogKeepsTables /\ cogGuard' = cogGuard
  BY DEF CogSynthesize
<1>3. CASE cogTurn[t].action = "respond"
  <2>1. PICK q : q = [cogTurn[t] EXCEPT !.pc = "invoking", !.purpose = "primary"]
    OBVIOUS
  <2>2. /\ q \in CogThread /\ q.pc = "invoking" /\ q.lane = cogTurn[t].lane
        /\ q.conv = cogTurn[t].conv /\ q.seen = cogTurn[t].seen
    BY <1>1, <2>1 DEF CogThread, CogSteps, CogPurposes
  <2>3. cogTurn' = [cogTurn EXCEPT ![t] = q]
    BY <1>3, <2>1 DEF CogSynthesize, CogGoes
  <2> QED BY <1>1, <1>2, <2>2, <2>3, GoesOn DEF AskedSteps
<1>4. CASE cogTurn[t].action # "respond"
  <2>1. PICK p : p = [cogTurn[t] EXCEPT !.draft = "fixed"]
    OBVIOUS
  <2>2. /\ p \in CogThread /\ p.lane = cogTurn[t].lane
        /\ p.conv = cogTurn[t].conv /\ p.seen = cogTurn[t].seen
    BY <1>1, <2>1 DEF CogThread
  <2>3. PICK q : q = CogDrafted(p, "critic")
    OBVIOUS
  <2>4. /\ q \in CogThread /\ q.pc \in {"invoking", "verifying"} /\ q.lane = p.lane
        /\ q.conv = p.conv /\ q.seen = p.seen /\ (q.pc = "verifying" => Reviewed(q))
    BY <2>2, <2>3, DraftedType DEF CogPurposes
  <2>5. cogTurn' = [cogTurn EXCEPT ![t] = q]
    BY <1>4, <2>1, <2>3 DEF CogSynthesize, CogGoes
  <2> QED BY <1>1, <1>2, <2>2, <2>4, <2>5, GoesOn DEF AskedSteps
<1> QED BY <1>3, <1>4

LEMMA AnswerKeeps ==
    ASSUME CogIInv, NEW t \in CogTurns, CogAnswer(t)
    PROVE  CogIInv'
<1>1. cogTurn[t] \in CogThread /\ cogTurn[t].pc = "calling"
  BY DEF CogIInv, CogTypeOK, CogAnswer
<1>2. CogKeepsTables /\ cogGuard' = cogGuard
  BY DEF CogAnswer
<1>3. PICK p : p = [cogTurn[t] EXCEPT !.calls = @ \cup {cogTurn[t].purpose}]
  OBVIOUS
<1>4. /\ p \in CogThread /\ p.lane = cogTurn[t].lane
      /\ p.conv = cogTurn[t].conv /\ p.seen = cogTurn[t].seen
  BY <1>1, <1>3 DEF CogThread
<1>5. ASSUME NEW r \in CogThread, NEW critic \in CogPurposes, r.lane = p.lane,
             r.conv = p.conv, r.seen = p.seen, CogGoes(t, CogDrafted(r, critic))
      PROVE  CogIInv'
  <2>1. PICK q : q = CogDrafted(r, critic)
    OBVIOUS
  <2>2. /\ q \in CogThread /\ q.pc \in {"invoking", "verifying"} /\ q.lane = r.lane
        /\ q.conv = r.conv /\ q.seen = r.seen /\ (q.pc = "verifying" => Reviewed(q))
    BY <2>1, DraftedType
  <2>3. cogTurn' = [cogTurn EXCEPT ![t] = q]
    BY <1>5, <2>1 DEF CogGoes
  <2> QED BY <1>1, <1>2, <1>4, <1>5, <2>2, <2>3, GoesOn DEF AskedSteps
<1>6. CASE CogGoes(t, CogDrafted([p EXCEPT !.draft = "model"], "critic"))
  <2>1. PICK r : r = [p EXCEPT !.draft = "model"]
    OBVIOUS
  <2>2. /\ r \in CogThread /\ r.lane = p.lane
        /\ r.conv = p.conv /\ r.seen = p.seen
    BY <1>4, <2>1 DEF CogThread
  <2> QED BY <1>5, <1>6, <2>1, <2>2 DEF CogPurposes
<1>7. CASE CogGoes(t, CogDrafted([p EXCEPT !.draft = "model", !.revision = 1], "post_critic"))
  <2>1. PICK r : r = [p EXCEPT !.draft = "model", !.revision = 1]
    OBVIOUS
  <2>d. PICK d : d = [p EXCEPT !.draft = "model"]
    OBVIOUS
  <2>e. /\ d \in CogThread /\ d.lane = p.lane /\ d.conv = p.conv /\ d.seen = p.seen
        /\ r = [d EXCEPT !.revision = 1]
    BY <1>4, <2>1, <2>d DEF CogThread
  <2>2. /\ r \in CogThread /\ r.lane = p.lane
        /\ r.conv = p.conv /\ r.seen = p.seen
    BY <2>e DEF CogThread
  <2> QED BY <1>5, <1>7, <2>1, <2>2 DEF CogPurposes
<1>8. ASSUME NEW result \in CogCriticResults,
             CogGoes(t, [p EXCEPT !.pc = "verifying",
                            !.review = [of |-> p.revision + 1, result |-> result]])
      PROVE  CogIInv'
  <2>1. PICK q : q = [p EXCEPT !.pc = "verifying",
                         !.review = [of |-> p.revision + 1, result |-> result]]
    OBVIOUS
  <2>2. p.revision \in 0..1 /\ p.revision + 1 \in 0..2
    BY <1>4 DEF CogThread
  <2>3. /\ q \in CogThread /\ q.pc = "verifying" /\ q.lane = p.lane
        /\ q.conv = p.conv /\ q.seen = p.seen
        /\ q.review.of = p.revision + 1 /\ q.revision = p.revision
    BY <1>4, <2>1, <2>2 DEF CogThread, CogSteps, CogCriticResults, CogResults
  <2>4. cogTurn' = [cogTurn EXCEPT ![t] = q]
    BY <1>8, <2>1 DEF CogGoes
  <2> QED BY <1>1, <1>2, <1>4, <2>3, <2>4, GoesOn DEF AskedSteps, Reviewed
<1> QED BY <1>3, <1>6, <1>7, <1>8 DEF CogAnswer

\* Steps that move a turn between question and reply and change nothing else.
LEMMA InvokeKeeps ==
    ASSUME CogIInv, NEW t \in CogTurns,
           CogInvoke(t) \/ CogPublish(t) \/ CogContextReply(t)
    PROVE  CogIInv'
<1>1. CogTypeOK
  BY DEF CogIInv
<1>2. CASE CogInvoke(t)
  <2>1. PICK q : q = [cogTurn[t] EXCEPT !.pc = "calling"]
    OBVIOUS
  <2>2. /\ q \in CogThread /\ q.pc = "calling" /\ q.lane = cogTurn[t].lane
        /\ q.conv = cogTurn[t].conv /\ q.seen = cogTurn[t].seen
    BY <1>1, <2>1, StepType DEF CogSteps
  <2> QED BY <1>2, <2>1, <2>2, GoesOn DEF CogInvoke, CogStep, CogGoes, AskedSteps
<1>3. CASE CogPublish(t)
  <2>1. PICK q : q = [cogTurn[t] EXCEPT !.pc = "persisting"]
    OBVIOUS
  <2>2. /\ q \in CogThread /\ q.pc = "persisting" /\ q.lane = cogTurn[t].lane
        /\ q.conv = cogTurn[t].conv /\ q.seen = cogTurn[t].seen
        /\ Verified(q) <=> Verified(cogTurn[t])
    BY <1>1, <2>1, StepType DEF CogSteps
  <2>3. q.lane = "cognitive" => Verified(q)
    BY <1>3, <2>2 DEF CogIInv, Gated, CogPublish
  <2> QED BY <1>3, <2>1, <2>2, <2>3, GoesOn DEF CogPublish, CogStep, CogGoes, AskedSteps
<1>4. CASE CogContextReply(t)
  <2>1. PICK q : q = [cogTurn[t] EXCEPT !.pc = "persisting"]
    OBVIOUS
  <2>2. /\ q \in CogThread /\ q.pc = "persisting" /\ q.lane = cogTurn[t].lane
        /\ q.conv = cogTurn[t].conv /\ q.seen = cogTurn[t].seen
    BY <1>1, <2>1, StepType DEF CogSteps
  <2> QED BY <1>4, <2>1, <2>2, GoesOn DEF CogContextReply, CogStep, CogGoes, AskedSteps
<1> QED BY <1>2, <1>3, <1>4

\* Severity orders the results; the verdict is no milder than the review.
LEMMA VerdictCovers ==
    ASSUME NEW q \in CogThread, NEW check \in CogChecks(q)
    PROVE  /\ CogVerdict(check, q.review) \in CogResults
           /\ q.review.of > 0 =>
                 CogSeverity[q.review.result] <= CogSeverity[CogVerdict(check, q.review)]
<1>1. check \in CogResults /\ q.review.result \in CogResults /\ q.review.of \in 0..2
  BY DEF CogChecks, CogResults, CogThread
<1>2. \A r \in CogResults : CogSeverity[r] \in Nat
  BY DEF CogResults, CogSeverity
<1> QED BY <1>1, <1>2 DEF CogVerdict

LEMMA VerifyKeeps ==
    ASSUME CogIInv, NEW t \in CogTurns, CogVerify(t)
    PROVE  CogIInv'
<1>1. /\ CogTypeOK /\ cogTurn[t] \in CogThread /\ cogTurn[t].pc = "verifying"
      /\ CogKeepsTables /\ cogGuard' = cogGuard
  BY DEF CogIInv, CogTypeOK, CogVerify
<1>2. cogTurn[t].lane = "cognitive" => Reviewed(cogTurn[t])
  BY <1>1 DEF CogIInv, Gated
<1>3. PICK check \in CogChecks(cogTurn[t]) :
        \/ /\ CogVerdict(check, cogTurn[t].review) \in {"pass", "insufficient"}
           /\ CogGoes(t, [cogTurn[t] EXCEPT !.verdict = CogVerdict(check, cogTurn[t].review),
                             !.pc = "accepted", !.calls = {}, !.purpose = "primary"])
        \/ CogGoes(t, [cogTurn[t] EXCEPT !.verdict = CogVerdict(check, cogTurn[t].review),
                          !.pc = "invoking", !.purpose = "revision"])
        \/ CogGoes(t, CogEnded(t, "failing"))
  BY <1>1 DEF CogVerify, CogThread
<1>4. PICK v \in CogResults :
        /\ v = CogVerdict(check, cogTurn[t].review)
        /\ cogTurn[t].review.of > 0 => CogSeverity[cogTurn[t].review.result] <= CogSeverity[v]
  BY <1>1, VerdictCovers
<1>5. CASE /\ v \in {"pass", "insufficient"}
           /\ CogGoes(t, [cogTurn[t] EXCEPT !.verdict = v,
                             !.pc = "accepted", !.calls = {}, !.purpose = "primary"])
  <2>1. PICK q : q = [cogTurn[t] EXCEPT !.verdict = v,
                        !.pc = "accepted", !.calls = {}, !.purpose = "primary"]
    OBVIOUS
  <2>2. /\ q \in CogThread /\ q.pc = "accepted" /\ q.lane = cogTurn[t].lane
        /\ q.conv = cogTurn[t].conv /\ q.seen = cogTurn[t].seen
        /\ q.verdict = v /\ q.items = cogTurn[t].items /\ q.draft = cogTurn[t].draft
        /\ q.review = cogTurn[t].review /\ q.revision = cogTurn[t].revision
    BY <1>1, <2>1 DEF CogThread, CogSteps, CogPurposes
  <2>3. q.revision + 1 > 0
    BY <2>2 DEF CogThread
  <2>4. q.lane = "cognitive" => Verified(q)
    BY <1>2, <1>4, <1>5, <2>2, <2>3 DEF Verified, Reviewed, CogCriticRequired
  <2>5. cogTurn' = [cogTurn EXCEPT ![t] = q]
    BY <1>5, <2>1 DEF CogGoes
  <2> QED BY <1>1, <2>2, <2>4, <2>5, GoesOn DEF AskedSteps
<1>6. CASE CogGoes(t, [cogTurn[t] EXCEPT !.verdict = v,
                         !.pc = "invoking", !.purpose = "revision"])
  <2>1. PICK q : q = [cogTurn[t] EXCEPT !.verdict = v,
                        !.pc = "invoking", !.purpose = "revision"]
    OBVIOUS
  <2>2. /\ q \in CogThread /\ q.pc = "invoking" /\ q.lane = cogTurn[t].lane
        /\ q.conv = cogTurn[t].conv /\ q.seen = cogTurn[t].seen
    BY <1>1, <2>1 DEF CogThread, CogSteps, CogPurposes
  <2>3. cogTurn' = [cogTurn EXCEPT ![t] = q]
    BY <1>6, <2>1 DEF CogGoes
  <2> QED BY <1>1, <2>2, <2>3, GoesOn DEF AskedSteps
<1>7. CASE CogGoes(t, CogEnded(t, "failing"))
  <2>1. /\ CogEnded(t, "failing") \in CogThread /\ CogEnded(t, "failing").pc = "failing"
        /\ CogEnded(t, "failing").lane = cogTurn[t].lane
        /\ CogEnded(t, "failing").conv \in CogConvs
    BY <1>1, EndedType DEF CogSteps, CogIInv, Placed
  <2>2. Becomes(t, CogEnded(t, "failing"))
    BY <1>1, <1>7, <2>1 DEF Becomes, CogGoes, HoldingSteps, AskedSteps
  <2> QED BY <1>1, <2>1, <2>2, OnlyThread, ThreadStepKeeps
<1> QED BY <1>3, <1>4, <1>5, <1>6, <1>7

LEMMA ReleaseKeeps ==
    ASSUME CogIInv, NEW t \in CogTurns, CogRelease(t)
    PROVE  CogIInv'
<1>1. CogTypeOK /\ cogTurn[t].conv \in CogConvs
      /\ cogGuard \in [CogConvs -> CogTurns \cup {CogNone}]
  BY DEF CogIInv, CogTypeOK, Placed, CogRelease
<1>2. PICK q : q = [cogTurn[t] EXCEPT !.pc = "done"]
  OBVIOUS
<1>3. /\ q \in CogThread /\ q.pc = "done" /\ q.lane = cogTurn[t].lane
      /\ q.conv = cogTurn[t].conv /\ q.seen = cogTurn[t].seen
      /\ Verified(q) <=> Verified(cogTurn[t])
  BY <1>1, <1>2, StepType DEF CogSteps
<1>4. Becomes(t, q)
  BY <1>1, <1>2, <1>3
     DEF Becomes, CogRelease, CogStep, CogGoes, HoldingSteps, AskedSteps
<1>5. KeepsCommitted(t)
  BY <1>1, CogAssumption
     DEF CogIInv, CogTypeOK, KeepsCommitted, CogRelease, CogKeepsTables
<1> QED BY <1>4, <1>5, ThreadStepKeeps

LEMMA ThreadKeeps ==
    ASSUME CogIInv, NEW t \in CogTurns, CogThreadNext(t)
    PROVE  CogIInv'
<1>1. CASE \/ CogRefused(t) \/ CogResolveFails(t) \/ CogCaptureFails(t)
           \/ CogPrepareFails(t) \/ CogSynthesisFails(t) \/ CogPublicationFails(t)
  BY <1>1, FailKeeps
     DEF CogRefused, CogResolveFails, CogCaptureFails, CogPrepareFails,
         CogSynthesisFails, CogPublicationFails
<1>2. CASE \E lane \in CogLanes, c \in CogConvs : CogReserve(t, lane, c)
  BY <1>2, ReserveKeeps
<1>3. CASE \E c \in CogConvs : CogBridge(t, c)
  BY <1>3, BridgeKeeps
<1>4. CASE CogAcquire(t) \/ CogResolve(t) \/ CogCapture(t) \/ CogPrepare(t)
  BY <1>4, AcquireKeeps, ResolveKeeps, CaptureKeeps, PrepareKeeps
<1>5. CASE CogSynthesize(t) \/ CogInvoke(t) \/ CogAnswer(t) \/ CogVerify(t)
  BY <1>5, SynthesizeKeeps, InvokeKeeps, AnswerKeeps, VerifyKeeps
<1>6. CASE CogPublish(t) \/ CogComplete(t) \/ CogRelease(t) \/ CogContextReply(t)
  BY <1>6, InvokeKeeps, CompleteKeeps, ReleaseKeeps
<1> QED BY <1>1, <1>2, <1>3, <1>4, <1>5, <1>6 DEF CogThreadNext

-----------------------------------------------------------------------------
(* The specification.                                                      *)

LEMMA InitInv == CogInit => CogIInv
<1> SUFFICES ASSUME CogInit PROVE CogIInv
  OBVIOUS
<1>1. \A t \in CogTurns : cogTurn[t] = CogFresh /\ cogTurn[t].pc = "idle"
  BY DEF CogInit, CogFresh
<1>2. \A c \in CogConvs : cogMsgs[c] = <<>> /\ DOMAIN cogMsgs[c] = {}
  BY DEF CogInit
<1>3. CogTypeOK
  BY FreshType DEF CogInit, CogTypeOK
<1>4. CogExclusive /\ Placed /\ FrozenSawAll /\ Asked /\ Gated
  BY <1>1 DEF CogExclusive, Placed, FrozenSawAll, Asked, Gated, HoldingSteps, AskedSteps
<1>5. IdleIsSilent /\ ReplyEnds /\ CogReplySeesConversation /\ CogReviewedIsPublished
  BY <1>2 DEF IdleIsSilent, ReplyEnds, CogReplySeesConversation, CogReviewedIsPublished
<1> QED BY <1>3, <1>4, <1>5 DEF CogIInv

LEMMA StutterKeeps == ASSUME CogIInv, UNCHANGED cogVars PROVE CogIInv'
<1>1. /\ cogTurn' = cogTurn /\ cogMsgs' = cogMsgs /\ cogConv' = cogConv
      /\ cogGuard' = cogGuard /\ cogWriter' = cogWriter
  BY DEF cogVars
<1>2. CogTypeOK
  BY DEF CogIInv
<1>3. \A u \in CogTurns : Survives(u)
  BY <1>1, <1>2 DEF Survives, CogTypeOK
<1> QED BY <1>1, <1>2, <1>3, SurvivalKeeps DEF CogTypeOK

LEMMA NextKeeps == CogIInv /\ [CogNext]_cogVars => CogIInv'
<1> SUFFICES ASSUME CogIInv, [CogNext]_cogVars PROVE CogIInv'
  OBVIOUS
<1>1. CASE \E t \in CogTurns : CogThreadNext(t)
  BY <1>1, ThreadKeeps
<1>2. CASE \E c \in CogConvs : CogDelete(c)
  BY <1>2, DeleteKeeps
<1>3. CASE CogEdit \/ CogRestart
  BY <1>3, EditKeeps, RestartKeeps
<1>4. CASE UNCHANGED cogVars
  BY <1>4, StutterKeeps
<1> QED BY <1>1, <1>2, <1>3, <1>4 DEF CogNext

LEMMA CogIInvHolds == CogSpec => []CogIInv
BY InitInv, NextKeeps, PTL DEF CogSpec

\* The tables, the guard and the threads of the chat keep their types, for
\* any number of turns and conversations.
THEOREM CognitiveTypeCorrect == CogSpec => []CogTypeOK
<1>1. CogIInv => CogTypeOK
  BY DEF CogIInv
<1> QED BY <1>1, CogIInvHolds, PTL

\* Whatever the context and bridge lanes write, and whoever deletes a
\* conversation, edits the project or restarts the process in between: a
\* cognitive reply stands after its own question with no other cognitive turn
\* in between, and its snapshot saw every cognitive message before it.
THEOREM RepliesSawTheConversation == CogSpec => []CogReplySeesConversation
<1>1. CogIInv => CogReplySeesConversation
  BY DEF CogIInv
<1> QED BY <1>1, CogIInvHolds, PTL

\* No sequence of drafts, reviews and revisions publishes a model's draft over
\* a context that its critic has not reviewed, or has refused.
THEOREM ReviewedPublished == CogSpec => []CogReviewedIsPublished
<1>1. CogIInv => CogReviewedIsPublished
  BY DEF CogIInv
<1> QED BY <1>1, CogIInvHolds, PTL

-----------------------------------------------------------------------------
(* Insufficient evidence: what a turn may have done before its reply.       *)

\* A turn whose cognition asked for no model's draft never gets one: it has
\* called no model, and the purpose it may call next is not a first one.
Unasked(q) ==
    q.pc \in {"invoking", "calling", "verifying"} /\ q.action # "respond" =>
        /\ q.draft = "fixed" /\ q.calls = {} /\ q.pc # "calling"
        /\ q.pc = "invoking" => q.purpose # "primary"

Grounded(q) ==
    /\ q.review.result \in CogCriticResults
    /\ q.verdict = "insufficient" =>
          q.draft = "fixed" /\ q.pc \in {"accepted", "persisting", "answered", "done"}
    /\ q.pc \in {"idle", "reserved", "leased", "resolved", "frozen", "prepared"}
          => q.calls = {}
    /\ Unasked(q)

CogGrounded == \A t \in CogTurns : Grounded(cogTurn[t])

LEMMA FreshGrounded == Grounded(CogFresh)
BY DEF Grounded, Unasked, CogFresh, CogUnreviewed, CogCriticResults

LEMMA EndedGrounded ==
    ASSUME NEW t \in CogTurns, NEW pc \in {"failing", "done"}
    PROVE  Grounded(CogEnded(t, pc))
BY DEF Grounded, Unasked, CogEnded, CogFresh, CogUnreviewed, CogCriticResults

\* One thread moves: the others stay as they are.
LEMMA GoesGrounded ==
    ASSUME CogTypeOK, CogGrounded, NEW t \in CogTurns, NEW q, CogGoes(t, q), Grounded(q)
    PROVE  CogGrounded'
BY DEF CogTypeOK, CogGrounded, CogGoes

\* The steps up to the reservation of a thread, and those that end it.
LEMMA StartsGrounded ==
    ASSUME CogTypeOK, CogGrounded, NEW t \in CogTurns, NEW c \in CogConvs,
           NEW lane \in CogLanes, CogReserve(t, lane, c) \/ CogBridge(t, c)
    PROVE  CogGrounded'
<1>1. PICK pc \in {"reserved", "persisting"}, l \in CogLanes :
        CogGoes(t, [CogFresh EXCEPT !.pc = pc, !.lane = l, !.conv = c])
  BY DEF CogReserve, CogBridge, CogLanes
<1>2. Grounded([CogFresh EXCEPT !.pc = pc, !.lane = l, !.conv = c])
  BY DEF Grounded, Unasked, CogFresh, CogUnreviewed, CogCriticResults
<1> QED BY <1>1, <1>2, GoesGrounded

LEMMA FailsGrounded ==
    ASSUME CogTypeOK, CogGrounded, NEW t \in CogTurns, CogFail(t)
    PROVE  CogGrounded'
BY EndedGrounded, GoesGrounded DEF CogFail

\* Before the cognition there are no calls; afterwards what counts is kept.
LEMMA ReadsGrounded ==
    ASSUME CogTypeOK, CogGrounded, NEW t \in CogTurns,
           CogAcquire(t) \/ CogResolve(t) \/ CogCapture(t) \/ CogPrepare(t)
    PROVE  CogGrounded'
<1>1. /\ cogTurn[t] \in CogThread /\ Grounded(cogTurn[t])
      /\ cogTurn[t].pc \in {"reserved", "leased", "resolved", "frozen"}
  BY DEF CogTypeOK, CogGrounded, CogAcquire, CogResolve, CogCapture, CogPrepare
<1>2. ASSUME NEW q, CogGoes(t, q), q.review = cogTurn[t].review,
             q.pc \in {"leased", "resolved", "frozen", "prepared"},
             q.verdict = cogTurn[t].verdict, q.calls = cogTurn[t].calls
      PROVE  CogGrounded'
  <2>1. Grounded(q)
    BY <1>1, <1>2 DEF Grounded, Unasked
  <2> QED BY <1>2, <2>1, GoesGrounded
<1>3. CASE CogAcquire(t)
  <2>1. PICK q : q = [cogTurn[t] EXCEPT !.pc = "leased"]
    OBVIOUS
  <2> QED BY <1>1, <1>2, <1>3, <2>1 DEF CogAcquire, CogStep, CogThread
<1>4. CASE CogResolve(t)
  <2>1. PICK q : q = [cogTurn[t] EXCEPT !.pc = "resolved",
                                        !.seen = Len(cogMsgs[cogTurn[t].conv])]
    OBVIOUS
  <2>2. /\ q.pc = "resolved" /\ q.review = cogTurn[t].review
        /\ q.verdict = cogTurn[t].verdict /\ q.calls = cogTurn[t].calls
    BY <1>1, <2>1 DEF CogThread
  <2> QED BY <1>2, <1>4, <2>1, <2>2 DEF CogResolve
<1>5. CASE CogCapture(t)
  <2>1. ASSUME NEW items \in BOOLEAN,
               CogGoes(t, [cogTurn[t] EXCEPT !.pc = "frozen", !.again = FALSE,
                             !.items = items /\ cogTurn[t].lane = "cognitive"])
        PROVE  CogGrounded'
    <3>1. PICK q : q = [cogTurn[t] EXCEPT !.pc = "frozen", !.again = FALSE,
                          !.items = items /\ cogTurn[t].lane = "cognitive"]
      OBVIOUS
    <3>2. /\ q.pc = "frozen" /\ q.review = cogTurn[t].review
          /\ q.verdict = cogTurn[t].verdict /\ q.calls = cogTurn[t].calls
      BY <1>1, <3>1 DEF CogThread
    <3> QED BY <1>2, <2>1, <3>1, <3>2
  <2>2. CASE CogGoes(t, [cogTurn[t] EXCEPT !.pc = "leased", !.changed = FALSE,
                                           !.again = TRUE])
    <3>1. PICK q : q = [cogTurn[t] EXCEPT !.pc = "leased", !.changed = FALSE,
                                          !.again = TRUE]
      OBVIOUS
    <3>2. /\ q.pc = "leased" /\ q.review = cogTurn[t].review
          /\ q.verdict = cogTurn[t].verdict /\ q.calls = cogTurn[t].calls
      BY <1>1, <3>1 DEF CogThread
    <3> QED BY <1>2, <2>2, <3>1, <3>2
  <2> QED BY <1>5, <2>1, <2>2 DEF CogCapture
<1>6. CASE CogPrepare(t)
  <2>1. PICK action \in {"respond", "insufficient", "revise"} :
          CogGoes(t, [cogTurn[t] EXCEPT !.pc = "prepared", !.action = action])
    BY <1>6 DEF CogPrepare
  <2>2. PICK q : q = [cogTurn[t] EXCEPT !.pc = "prepared", !.action = action]
    OBVIOUS
  <2>3. /\ q.pc = "prepared" /\ q.review = cogTurn[t].review
        /\ q.verdict = cogTurn[t].verdict /\ q.calls = cogTurn[t].calls
    BY <1>1, <2>2 DEF CogThread
  <2> QED BY <1>2, <2>1, <2>2, <2>3
<1> QED BY <1>3, <1>4, <1>5, <1>6

\* What becomes of a draft.
LEMMA DraftedGrounded ==
    ASSUME NEW q \in CogThread, NEW critic \in {"critic", "post_critic"},
           q.verdict # "insufficient",
           q.action = "respond" \/ (q.draft = "fixed" /\ q.calls = {})
    PROVE  Grounded(CogDrafted(q, critic))
<1>1. PICK p : p = CogDrafted(q, critic)
  OBVIOUS
<1>2. /\ p.pc \in {"invoking", "verifying"} /\ p.review = CogUnreviewed
      /\ p.verdict = q.verdict /\ p.action = q.action /\ p.draft = q.draft
      /\ p.calls = q.calls /\ (p.pc = "invoking" => p.purpose = critic)
  <2>1. CASE CogCriticRequired(q)
    BY <1>1, <2>1 DEF CogDrafted, CogThread
  <2>2. CASE ~CogCriticRequired(q)
    BY <1>1, <2>2 DEF CogDrafted, CogThread
  <2> QED BY <2>1, <2>2
<1>3. Grounded(p)
  BY <1>2 DEF Grounded, Unasked, CogUnreviewed, CogCriticResults
<1> QED BY <1>1, <1>3

LEMMA SynthesizeGrounded ==
    ASSUME CogTypeOK, CogGrounded, NEW t \in CogTurns, CogSynthesize(t)
    PROVE  CogGrounded'
<1>1. /\ cogTurn[t] \in CogThread /\ Grounded(cogTurn[t]) /\ cogTurn[t].pc = "prepared"
      /\ cogTurn[t].calls = {} /\ cogTurn[t].verdict # "insufficient"
  BY DEF CogTypeOK, CogGrounded, Grounded, CogSynthesize
<1>2. CASE cogTurn[t].action = "respond"
  <2>1. PICK q : q = [cogTurn[t] EXCEPT !.pc = "invoking", !.purpose = "primary"]
    OBVIOUS
  <2>2. Grounded(q)
    BY <1>1, <1>2, <2>1 DEF Grounded, Unasked, CogThread
  <2> QED BY <1>2, <2>1, <2>2, GoesGrounded DEF CogSynthesize
<1>3. CASE cogTurn[t].action # "respond"
  <2>1. PICK p : p = [cogTurn[t] EXCEPT !.draft = "fixed"]
    OBVIOUS
  <2>2. p \in CogThread /\ p.draft = "fixed" /\ p.calls = {} /\ p.verdict # "insufficient"
    BY <1>1, <2>1 DEF CogThread
  <2>3. Grounded(CogDrafted(p, "critic"))
    BY <2>2, DraftedGrounded
  <2> QED BY <1>3, <2>1, <2>3, GoesGrounded DEF CogSynthesize
<1> QED BY <1>2, <1>3

\* The first call of a turn is a primary one.
LEMMA InvokeGrounded ==
    ASSUME CogTypeOK, CogGrounded, NEW t \in CogTurns, CogInvoke(t)
    PROVE  CogGrounded'
<1>1. /\ cogTurn[t] \in CogThread /\ Grounded(cogTurn[t]) /\ cogTurn[t].pc = "invoking"
      /\ cogTurn[t].calls = {} => cogTurn[t].purpose = "primary"
  BY DEF CogTypeOK, CogGrounded, CogInvoke, CogMayInvoke
<1>2. cogTurn[t].action = "respond"
  BY <1>1 DEF Grounded, Unasked
<1>3. PICK q : q = [cogTurn[t] EXCEPT !.pc = "calling"]
  OBVIOUS
<1>4. Grounded(q)
  BY <1>1, <1>2, <1>3 DEF Grounded, Unasked, CogThread
<1> QED BY <1>3, <1>4, GoesGrounded DEF CogInvoke, CogStep

LEMMA AnswerGrounded ==
    ASSUME CogTypeOK, CogGrounded, NEW t \in CogTurns, CogAnswer(t)
    PROVE  CogGrounded'
<1>1. /\ cogTurn[t] \in CogThread /\ Grounded(cogTurn[t]) /\ cogTurn[t].pc = "calling"
      /\ cogTurn[t].action = "respond" /\ cogTurn[t].verdict # "insufficient"
  BY DEF CogTypeOK, CogGrounded, Grounded, Unasked, CogAnswer
<1>2. PICK p : p = [cogTurn[t] EXCEPT !.calls = @ \cup {cogTurn[t].purpose}]
  OBVIOUS
<1>3. /\ p \in CogThread /\ p.action = "respond" /\ p.verdict # "insufficient"
  BY <1>1, <1>2 DEF CogThread
<1>4. CASE CogGoes(t, CogDrafted([p EXCEPT !.draft = "model"], "critic"))
  <2>1. PICK r : r = [p EXCEPT !.draft = "model"]
    OBVIOUS
  <2>2. r \in CogThread /\ r.action = "respond" /\ r.verdict # "insufficient"
    BY <1>3, <2>1 DEF CogThread
  <2> QED BY <1>4, <2>1, <2>2, DraftedGrounded, GoesGrounded
<1>5. CASE CogGoes(t, CogDrafted([p EXCEPT !.draft = "model", !.revision = 1],
                                 "post_critic"))
  <2>1. PICK r : r = [p EXCEPT !.draft = "model", !.revision = 1]
    OBVIOUS
  <2>d. PICK d : d = [p EXCEPT !.draft = "model"]
    OBVIOUS
  <2>e. /\ d \in CogThread /\ d.action = "respond" /\ d.verdict # "insufficient"
        /\ r = [d EXCEPT !.revision = 1]
    BY <1>3, <2>1, <2>d DEF CogThread
  <2>2. r \in CogThread /\ r.action = "respond" /\ r.verdict # "insufficient"
    BY <2>e DEF CogThread
  <2> QED BY <1>5, <2>1, <2>2, DraftedGrounded, GoesGrounded
<1>6. ASSUME NEW result \in CogCriticResults,
             CogGoes(t, [p EXCEPT !.pc = "verifying",
                            !.review = [of |-> p.revision + 1, result |-> result]])
      PROVE  CogGrounded'
  <2>1. PICK q : q = [p EXCEPT !.pc = "verifying",
                         !.review = [of |-> p.revision + 1, result |-> result]]
    OBVIOUS
  <2>2. /\ q.pc = "verifying" /\ q.review.result \in CogCriticResults
        /\ q.action = "respond" /\ q.verdict # "insufficient"
    BY <1>3, <1>6, <2>1 DEF CogThread
  <2>3. Grounded(q)
    BY <2>2 DEF Grounded, Unasked
  <2> QED BY <1>6, <2>1, <2>3, GoesGrounded
<1> QED BY <1>2, <1>4, <1>5, <1>6 DEF CogAnswer

\* A verdict of insufficiency is the checks' own: no critic can bring it, and
\* the checks find it where the cognition asked for the fixed reply.
LEMMA VerifyGrounded ==
    ASSUME CogTypeOK, CogGrounded, NEW t \in CogTurns, CogVerify(t)
    PROVE  CogGrounded'
<1>1. /\ cogTurn[t] \in CogThread /\ Grounded(cogTurn[t]) /\ cogTurn[t].pc = "verifying"
  BY DEF CogTypeOK, CogGrounded, CogVerify
<1>c. PICK check \in CogChecks(cogTurn[t]) :
        LET q == [cogTurn[t] EXCEPT !.verdict = CogVerdict(check, cogTurn[t].review)] IN
        \/ /\ CogVerdict(check, cogTurn[t].review) \in {"pass", "insufficient"}
           /\ CogGoes(t, [q EXCEPT !.pc = "accepted", !.calls = {},
                                   !.purpose = "primary"])
        \/ /\ CogVerdict(check, cogTurn[t].review) = "revise"
           /\ CogGoes(t, [q EXCEPT !.pc = "invoking", !.purpose = "revision"])
        \/ CogGoes(t, CogEnded(t, "failing"))
  BY DEF CogVerify
<1>2. PICK q :
        /\ q = [cogTurn[t] EXCEPT !.verdict = CogVerdict(check, cogTurn[t].review)]
        /\ \/ /\ CogVerdict(check, cogTurn[t].review) \in {"pass", "insufficient"}
              /\ CogGoes(t, [q EXCEPT !.pc = "accepted", !.calls = {},
                                      !.purpose = "primary"])
           \/ /\ CogVerdict(check, cogTurn[t].review) = "revise"
              /\ CogGoes(t, [q EXCEPT !.pc = "invoking", !.purpose = "revision"])
           \/ CogGoes(t, CogEnded(t, "failing"))
  BY <1>c
<1>3. PICK v : v = CogVerdict(check, cogTurn[t].review)
  OBVIOUS
<1>4. v = "insufficient" => cogTurn[t].draft = "fixed"
  <2>1. v \in {check, cogTurn[t].review.result}
    BY <1>3 DEF CogVerdict
  <2>2. cogTurn[t].review.result # "insufficient"
    BY <1>1 DEF Grounded, CogCriticResults
  <2>3. check = "insufficient" => cogTurn[t].action # "respond"
    BY DEF CogChecks
  <2> QED BY <1>1, <2>1, <2>2, <2>3 DEF Grounded, Unasked
<1>5. /\ q.verdict = v /\ q.review = cogTurn[t].review /\ q.draft = cogTurn[t].draft
      /\ q.action = cogTurn[t].action /\ q.calls = cogTurn[t].calls
      /\ DOMAIN q = DOMAIN cogTurn[t]
  BY <1>1, <1>2, <1>3 DEF CogThread
<1>6. CASE /\ v \in {"pass", "insufficient"}
           /\ CogGoes(t, [q EXCEPT !.pc = "accepted", !.calls = {}, !.purpose = "primary"])
  <2>1. PICK p : p = [q EXCEPT !.pc = "accepted", !.calls = {}, !.purpose = "primary"]
    OBVIOUS
  <2>2. /\ p.pc = "accepted" /\ p.verdict = v /\ p.draft = cogTurn[t].draft
        /\ p.review = cogTurn[t].review
    BY <1>1, <1>2, <1>3, <2>1 DEF CogThread
  <2>3. Grounded(p)
    BY <1>1, <1>4, <2>2 DEF Grounded, Unasked
  <2> QED BY <1>6, <2>1, <2>3, GoesGrounded
<1>7. CASE /\ v = "revise"
           /\ CogGoes(t, [q EXCEPT !.pc = "invoking", !.purpose = "revision"])
  <2>1. PICK p : p = [q EXCEPT !.pc = "invoking", !.purpose = "revision"]
    OBVIOUS
  <2>2. /\ p.pc = "invoking" /\ p.purpose = "revision" /\ p.verdict = "revise"
        /\ p.draft = cogTurn[t].draft /\ p.review = cogTurn[t].review
        /\ p.action = cogTurn[t].action /\ p.calls = cogTurn[t].calls
    BY <1>1, <1>2, <1>3, <1>7, <2>1 DEF CogThread
  <2>3. Grounded(p)
    BY <1>1, <2>2 DEF Grounded, Unasked
  <2> QED BY <1>7, <2>1, <2>3, GoesGrounded
<1>8. CASE CogGoes(t, CogEnded(t, "failing"))
  BY <1>8, EndedGrounded, GoesGrounded
<1> QED BY <1>2, <1>3, <1>6, <1>7, <1>8

\* After the gate, and in the other lanes, only the step changes.
LEMMA RepliesGrounded ==
    ASSUME CogTypeOK, CogGrounded, NEW t \in CogTurns,
           CogPublish(t) \/ CogComplete(t) \/ CogRelease(t) \/ CogContextReply(t)
    PROVE  CogGrounded'
<1>1. /\ cogTurn[t] \in CogThread /\ Grounded(cogTurn[t])
  BY DEF CogTypeOK, CogGrounded
<1>2. PICK pc \in {"persisting", "answered", "done"} :
        CogGoes(t, [cogTurn[t] EXCEPT !.pc = pc])
  BY DEF CogPublish, CogComplete, CogRelease, CogContextReply, CogStep
<1>3. Grounded([cogTurn[t] EXCEPT !.pc = pc])
  BY <1>1 DEF Grounded, Unasked, CogThread
<1> QED BY <1>2, <1>3, GoesGrounded

LEMMA ThreadGrounded ==
    ASSUME CogTypeOK, CogGrounded, NEW t \in CogTurns, CogThreadNext(t)
    PROVE  CogGrounded'
<1>1. CASE \E lane \in CogLanes, c \in CogConvs : CogReserve(t, lane, c)
  BY <1>1, StartsGrounded
<1>2. CASE \E c \in CogConvs : CogBridge(t, c)
  BY <1>2, StartsGrounded DEF CogLanes
<1>3. CASE \/ CogRefused(t) \/ CogResolveFails(t) \/ CogCaptureFails(t)
           \/ CogPrepareFails(t) \/ CogSynthesisFails(t) \/ CogPublicationFails(t)
  BY <1>3, FailsGrounded DEF CogRefused, CogResolveFails, CogCaptureFails,
     CogPrepareFails, CogSynthesisFails, CogPublicationFails
<1>4. CASE CogAcquire(t) \/ CogResolve(t) \/ CogCapture(t) \/ CogPrepare(t)
  BY <1>4, ReadsGrounded
<1>5. CASE CogSynthesize(t) \/ CogInvoke(t) \/ CogAnswer(t) \/ CogVerify(t)
  BY <1>5, SynthesizeGrounded, InvokeGrounded, AnswerGrounded, VerifyGrounded
<1>6. CASE CogPublish(t) \/ CogComplete(t) \/ CogRelease(t) \/ CogContextReply(t)
  BY <1>6, RepliesGrounded
<1> QED BY <1>1, <1>2, <1>3, <1>4, <1>5, <1>6 DEF CogThreadNext

\* An edit marks what was read; a restart ends what was under way.
LEMMA OthersGrounded ==
    ASSUME CogTypeOK, CogGrounded, CogEdit \/ CogRestart \/ (\E c \in CogConvs : CogDelete(c))
    PROVE  CogGrounded'
<1> SUFFICES ASSUME NEW t \in CogTurns PROVE Grounded(cogTurn'[t])
  BY DEF CogGrounded
<1>1. cogTurn[t] \in CogThread /\ Grounded(cogTurn[t])
  BY DEF CogTypeOK, CogGrounded
<1>2. \/ cogTurn'[t] = cogTurn[t]
      \/ cogTurn'[t] = [cogTurn[t] EXCEPT !.changed = TRUE]
      \/ cogTurn'[t] = [cogTurn[t] EXCEPT !.pc = "done"]
      \/ cogTurn'[t] = CogEnded(t, "done")
  BY DEF CogEdit, CogRestart, CogDelete
<1>3. Grounded([cogTurn[t] EXCEPT !.changed = TRUE])
  BY <1>1 DEF Grounded, Unasked, CogThread
<1>4. Grounded([cogTurn[t] EXCEPT !.pc = "done"])
  BY <1>1 DEF Grounded, Unasked, CogThread
<1> QED BY <1>1, <1>2, <1>3, <1>4, EndedGrounded

LEMMA CogGroundedHolds == CogSpec => []CogGrounded
<1>1. CogInit => CogGrounded
  BY FreshGrounded DEF CogInit, CogGrounded
<1>2. CogTypeOK /\ CogGrounded /\ [CogNext]_cogVars => CogGrounded'
  <2>1. ASSUME CogTypeOK, CogGrounded, UNCHANGED cogVars PROVE CogGrounded'
    BY <2>1 DEF cogVars, CogGrounded
  <2> QED BY <2>1, ThreadGrounded, OthersGrounded DEF CogNext
<1> QED BY <1>1, <1>2, CognitiveTypeCorrect, PTL DEF CogSpec

\* Where the evidence was found insufficient no model's draft is published,
\* although the publication itself does not ask: whatever fails, is refused,
\* asked again, revised or restarted in between.
THEOREM InsufficiencyFixed == CogSpec => []CogInsufficiencyIsFixed
<1>1. CogTypeOK /\ CogGrounded => CogInsufficiencyIsFixed
  <2> SUFFICES ASSUME CogTypeOK, CogGrounded, NEW c \in CogConvs, NEW i \in DOMAIN cogMsgs[c]
               PROVE  cogTurn[cogMsgs[c][i].turn].verdict = "insufficient"
                          => cogTurn[cogMsgs[c][i].turn].draft = "fixed"
    BY DEF CogInsufficiencyIsFixed
  <2>1. cogMsgs[c] \in Seq(CogMessage)
    BY DEF CogTypeOK
  <2>2. cogMsgs[c][i] \in CogMessage
    BY <2>1
  <2> QED BY <2>2 DEF CogMessage, CogGrounded, Grounded
<1> QED BY <1>1, CognitiveTypeCorrect, CogGroundedHolds, PTL

\* Whatever the order of drafts, critics, revisions and lost leases, a reply is
\* what its verification let pass: a reviewed draft, or the fixed reply.
THEOREM OnlyVerifiedPublished == CogSpec => []CogOnlyVerifiedIsPublished
<1>1. CogReviewedIsPublished /\ CogInsufficiencyIsFixed => CogOnlyVerifiedIsPublished
  BY DEF CogOnlyVerifiedIsPublished
<1> QED BY <1>1, ReviewedPublished, InsufficiencyFixed, PTL

-----------------------------------------------------------------------------
(* ChatActions: the inductive invariant.                                    *)

\* An approval that cannot be decided any more.
ChaDead(a) == chaPending[a] = ChaGone \/ chaClock >= chaPending[a]

ChaIsIssued(a) == chaIssued[a].kind \in ChaKinds

\* While the owner may decide an approval she was told of, it is bound.
ChaTracked(a) == ChaIsIssued(a) /\ (chaBound[a] = ChaGone => ChaDead(a))

ChaApprovalOK(a) ==
    \/ chaIssued[a] = ChaUnissued /\ chaPending[a] = ChaGone /\ chaBound[a] = ChaGone
    \/ /\ ChaIsIssued(a) /\ chaIssued[a].conv \in ChaConvs
       /\ chaPending[a] \in {ChaGone, chaIssued[a].expires}
       /\ chaBound[a] \in {ChaGone, chaIssued[a].expires}

ChaStoresOK ==
    /\ \A a \in ChaApprovals : ChaApprovalOK(a)
    /\ \A a \in chaTold : ChaTracked(a)
    /\ \A a \in chaRead : ChaIsIssued(a)

\* A result was read for its conversation, from its source.
ChaContextOK ==
    \A c \in ChaConvs, s \in ChaSources :
        LET r == chaContext[c][s] IN
        r # ChaNoResult =>
            r.by \in chaRead /\ chaIssued[r.by].conv = c /\ chaIssued[r.by].kind = s

\* A thread that brings date d to the connectors.
ChaBrings(q, d) ==
    q.pc \in {"look", "begin", "ask", "check", "bundle", "propose"} /\ q.date = d

ChaCarries(t, d) == ChaBrings(chaThreads[t], d)

\* A question is pending in one conversation, or on its way in one thread, or
\* one approval was prepared for it: never in two of these places.
ChaDateOK(d) ==
    /\ chaAnswered[d] \in {<<>>, <<"confirmed">>, <<"cancelled">>, <<"expired">>}
    /\ \A c \in ChaConvs : chaQuestions[c].date = d =>
          /\ chaAnswered[d] = <<>>
          /\ \A e \in ChaConvs : chaQuestions[e].date = d => e = c
    /\ \A t \in ChaThreads : ChaCarries(t, d) =>
          /\ chaAnswered[d] = <<"confirmed">>
          /\ \A s \in ChaThreads : ChaCarries(s, d) => s = t
          /\ \A a \in ChaApprovals : chaIssued[a].date # d
    /\ \A a \in ChaApprovals : chaIssued[a].date = d =>
          /\ chaAnswered[d] = <<"confirmed">>
          /\ \A b \in ChaApprovals : chaIssued[b].date = d => b = a

ChaDeciding == {"scope", "decide", "read", "complete", "answer", "capture"}

\* What a message carries before a lane takes it.
ChaMessageOK(q) ==
    /\ q.pc # "idle" => q.conv \in ChaConvs
    /\ q.pc \in {"classify", "clear", "consume"} => q.date = ChaNone
    /\ q.pc \in {"classify", "clear"} =>
          /\ q.message \in ChaKinds \cup {"approve", "no"} => q.kind \in ChaKinds
          /\ q.message = "approve" => q.kind = "calendar"
    /\ q.pc = "begin" => q.message \in {"date", "analyze"} \/ q.kind \in ChaKinds
    /\ q.pc \in {"guard", "look", "check", "propose"} => q.kind \in ChaKinds
    /\ q.pc = "bundle" => q.message = "analyze"
    /\ q.since <= q.now

\* The approval a thread prepares, or decides, is the one it says it is.
ChaApprovalAt(q) ==
    /\ q.pc \in ChaDeciding \cup {"bind", "finish"} =>
          /\ q.approval \in ChaApprovals /\ ChaIsIssued(q.approval)
          /\ chaIssued[q.approval].kind = q.kind /\ chaIssued[q.approval].conv = q.conv
    /\ q.pc = "finish" => ChaTracked(q.approval)
    /\ q.pc \in {"read", "complete"} => chaPending[q.approval] = ChaGone
    /\ q.pc = "capture" => q.kind \in ChaSources /\ q.approval \in chaRead

\* What a typed approval was offered before, of the kinds that were looked at
\* up to now, awaits no decision.
ChaPassed(q) ==
    IF q.pc = "model" THEN ChaKinds
    ELSE IF q.pc # "guard" \/ q.kind = "calendar" THEN {}
    ELSE IF q.kind = "gmail" THEN {"calendar"} ELSE ChaSources

ChaOfferedOK(q) ==
    q.message = "approve" =>
        \A a \in q.offered :
            /\ a \in chaTold /\ chaIssued[a].conv = q.conv
            /\ chaIssued[a].kind \in ChaPassed(q) => ChaDead(a)

ChaBundleOK(q) ==
    /\ q.bundle # {} => {chaIssued[r.by].kind : r \in q.bundle} = ChaSources
    /\ \A r \in q.bundle :
          r.by \in chaRead /\ chaIssued[r.by].conv = q.conv /\ q.since < r.expires

ChaThreadOK(q) ==
    /\ ChaMessageOK(q) /\ ChaApprovalAt(q) /\ ChaOfferedOK(q) /\ ChaBundleOK(q)
    /\ q.now <= chaClock

ChaIInv ==
    /\ ChaTypeOK /\ ChaStoresOK /\ ChaContextOK
    /\ \A d \in ChaDates : ChaDateOK(d)
    /\ \A t \in ChaThreads : ChaThreadOK(chaThreads[t])

-----------------------------------------------------------------------------
(* ChatActions: types.                                                      *)

ChaStoreTypes ==
    /\ chaClock \in 0..ChaMaxTime
    /\ chaLive \subseteq ChaConvs
    /\ chaQuestions \in [ChaConvs -> ChaQuestion]
    /\ chaPending \in [ChaApprovals -> ChaDeadlines]
    /\ chaBound \in [ChaApprovals -> ChaDeadlines]
    /\ chaContext \in [ChaConvs -> [ChaSources -> ChaResult]]
    /\ chaTurns \in 0..ChaMaxTurns
    /\ chaIssued \in [ChaApprovals -> ChaIssue]
    /\ chaTold \subseteq ChaApprovals
    /\ chaAnswered \in [ChaDates -> Seq({"confirmed", "cancelled", "expired"})]
    /\ chaRead \subseteq ChaApprovals

LEMMA ChaTypeIs ==
    ChaTypeOK <=> ChaStoreTypes /\ chaThreads \in [ChaThreads -> ChaThread]
BY DEF ChaTypeOK, ChaStoreTypes

LEMMA ChaTypeNext ==
    ASSUME ChaStoreTypes', chaThreads' \in [ChaThreads -> ChaThread]
    PROVE  ChaTypeOK'
BY DEF ChaTypeOK, ChaStoreTypes

LEMMA ChaBounds ==
    /\ ChaNone \notin ChaConvs /\ ChaNone \notin ChaApprovals /\ ChaNone \notin ChaDates
    /\ ChaQuestionTTL \in Nat /\ ChaApprovalTTL \in Nat /\ ChaContextTTL \in Nat
    /\ ChaMaxTime \in Nat /\ ChaMaxTurns \in Nat /\ ChaGone \in Int /\ ChaGone = -1
BY ChaConstantsAssumption DEF ChaGone

LEMMA ChaKindsAre ==
    /\ ChaSources = {"gmail", "calendar"} /\ ChaKinds = {"gmail", "calendar", "write"}
    /\ "none" \notin ChaKinds
    /\ ChaMessages = {"gmail", "calendar", "write", "date", "yes", "no", "approve",
                      "analyze", "other"}
BY DEF ChaSources, ChaKinds, ChaMessages

LEMMA ChaThreadIs ==
    ASSUME NEW q \in ChaThread
    PROVE  /\ q.pc \in ChaSteps /\ q.conv \in ChaConvs \cup {ChaNone}
           /\ q.message \in ChaMessages \cup {"none"} /\ q.kind \in ChaKinds \cup {"none"}
           /\ q.date \in ChaDates \cup {ChaNone}
           /\ q.approval \in ChaApprovals \cup {ChaNone}
           /\ q.now \in Nat /\ q.since \in Nat /\ q.now <= ChaMaxTime
           /\ q.offered \subseteq ChaApprovals /\ q.approved \in BOOLEAN
           /\ q.bundle \subseteq ChaResult
BY ChaBounds DEF ChaThread

LEMMA ChaThreadAt ==
    ASSUME ChaTypeOK, NEW t \in ChaThreads
    PROVE  chaThreads[t] \in ChaThread
BY DEF ChaTypeOK

LEMMA ChaIssueIs ==
    ASSUME ChaTypeOK, NEW a \in ChaApprovals
    PROVE  /\ chaIssued[a] \in ChaIssue /\ chaIssued[a].expires \in Nat
           /\ chaIssued[a].kind \in ChaKinds \cup {"none"}
           /\ chaIssued[a].date \in ChaDates \cup {ChaNone}
           /\ chaPending[a] \in Int /\ chaBound[a] \in Int
           /\ chaPending[a] \in ChaDeadlines /\ chaBound[a] \in ChaDeadlines
           /\ chaIssued[a].expires \in ChaDeadlines
           /\ chaClock \in Nat /\ chaClock <= ChaMaxTime
BY ChaBounds DEF ChaTypeOK, ChaIssue, ChaDeadlines

LEMMA ChaUnissuedIs ==
    /\ ChaUnissued.kind = "none" /\ ChaUnissued.date = ChaNone
    /\ ChaUnissued.conv = ChaNone /\ ChaUnissued \in ChaIssue
BY ChaBounds DEF ChaUnissued, ChaIssue

LEMMA ChaIdleIs ==
    /\ ChaIdle \in ChaThread /\ ChaIdle.pc = "idle" /\ ChaIdle.conv = ChaNone
    /\ ChaIdle.message = "none" /\ ChaIdle.kind = "none" /\ ChaIdle.date = ChaNone
    /\ ChaIdle.now = 0 /\ ChaIdle.since = 0 /\ ChaIdle.offered = {} /\ ChaIdle.bundle = {}
BY ChaBounds DEF ChaIdle, ChaThread, ChaSteps

LEMMA ChaIdleOK == ChaTypeOK => ChaThreadOK(ChaIdle)
BY ChaIdleIs, ChaBounds
DEF ChaThreadOK, ChaMessageOK, ChaApprovalAt, ChaOfferedOK, ChaBundleOK, ChaDeciding, ChaTypeOK

LEMMA ChaGoesIs ==
    ASSUME ChaTypeOK, NEW t \in ChaThreads, NEW q \in ChaThread, ChaGoes(t, q)
    PROVE  /\ chaThreads' \in [ChaThreads -> ChaThread]
           /\ chaThreads'[t] = q
           /\ \A s \in ChaThreads \ {t} : chaThreads'[s] = chaThreads[s]
BY DEF ChaTypeOK, ChaGoes

\* Two threads that differ in where they are, and when they read the clock.
ChaLike(p, q) ==
    /\ p.conv = q.conv /\ p.message = q.message /\ p.date = q.date
    /\ p.approval = q.approval /\ p.since = q.since /\ p.offered = q.offered
    /\ p.approved = q.approved

LEMMA ChaStepIs ==
    ASSUME ChaTypeOK, NEW t \in ChaThreads, NEW pc \in ChaSteps, NEW now \in 0..ChaMaxTime,
           ChaStep(t, pc, now)
    PROVE  \E p \in ChaThread :
              /\ ChaGoes(t, p) /\ p.pc = pc /\ p.now = now /\ ChaLike(p, chaThreads[t])
              /\ p.kind = chaThreads[t].kind /\ p.bundle = chaThreads[t].bundle
<1> DEFINE p == [chaThreads[t] EXCEPT !.pc = pc, !.now = now]
<1>1. p \in ChaThread /\ p.pc = pc /\ p.now = now /\ ChaLike(p, chaThreads[t])
      /\ p.kind = chaThreads[t].kind /\ p.bundle = chaThreads[t].bundle
  BY ChaThreadAt DEF ChaThread, ChaLike
<1>2. ChaGoes(t, p)
  BY DEF ChaStep
<1> HIDE DEF p
<1> QED
  BY <1>1, <1>2

-----------------------------------------------------------------------------
(* ChatActions: what a step leaves alone.                                   *)

\* What is issued, told and read only grows, and what cannot be decided any
\* more stays so.
ChaGrows ==
    /\ chaClock <= chaClock'
    /\ chaTold \subseteq chaTold' /\ chaRead \subseteq chaRead'
    /\ \A a \in ChaApprovals : ChaIsIssued(a) =>
          chaIssued'[a] = chaIssued[a] /\ chaPending'[a] \in {chaPending[a], ChaGone}
    /\ \A a \in ChaApprovals : ChaTracked(a) => ChaTracked(a)'

LEMMA ChaDeadStays ==
    ASSUME ChaTypeOK, ChaStoreTypes', ChaGrows, NEW a \in ChaApprovals,
           ChaIsIssued(a), ChaDead(a)
    PROVE  ChaDead(a)' /\ ChaIsIssued(a)' /\ chaIssued'[a] = chaIssued[a]
<1>1. chaClock' \in Int /\ chaClock \in Int /\ chaPending[a] \in Int
  BY ChaBounds, ChaIssueIs DEF ChaStoreTypes
<1> QED
  BY <1>1 DEF ChaGrows, ChaDead, ChaIsIssued

LEMMA ChaThreadStays ==
    ASSUME ChaTypeOK, ChaStoresOK, ChaStoreTypes', ChaGrows,
           NEW q \in ChaThread, ChaThreadOK(q)
    PROVE  ChaThreadOK(q)'
<1>1. ChaMessageOK(q)'
  BY DEF ChaThreadOK, ChaMessageOK
<1>2. ChaApprovalAt(q)'
  <2>1. ASSUME q.approval \in ChaApprovals, ChaIsIssued(q.approval)
        PROVE  /\ chaIssued'[q.approval] = chaIssued[q.approval] /\ ChaIsIssued(q.approval)'
               /\ ChaTracked(q.approval) => ChaTracked(q.approval)'
               /\ chaPending[q.approval] = ChaGone => chaPending'[q.approval] = ChaGone
               /\ q.approval \in chaRead => q.approval \in chaRead'
    BY <2>1 DEF ChaGrows, ChaIsIssued
  <2>2. CASE q.pc \notin ChaDeciding \cup {"bind", "finish"}
    BY <2>2 DEF ChaApprovalAt, ChaDeciding
  <2>3. CASE q.pc \in ChaDeciding \cup {"bind", "finish"}
    BY <2>1, <2>3 DEF ChaThreadOK, ChaApprovalAt
  <2> QED
    BY <2>2, <2>3
<1>3. ChaOfferedOK(q)'
  <2>1. SUFFICES ASSUME q.message = "approve", NEW a \in q.offered
                 PROVE  /\ a \in chaTold' /\ chaIssued'[a].conv = q.conv
                        /\ chaIssued'[a].kind \in ChaPassed(q) => ChaDead(a)'
    BY DEF ChaOfferedOK, ChaPassed
  <2>2. /\ a \in chaTold /\ chaIssued[a].conv = q.conv
        /\ chaIssued[a].kind \in ChaPassed(q) => ChaDead(a)
    BY <2>1 DEF ChaThreadOK, ChaOfferedOK
  <2>3. a \in ChaApprovals /\ ChaIsIssued(a)
    BY <2>1, <2>2, ChaThreadIs DEF ChaStoresOK, ChaTracked
  <2> QED
    BY <2>2, <2>3, ChaDeadStays DEF ChaGrows
<1>4. ChaBundleOK(q)'
  <2>1. \A r \in q.bundle : r.by \in chaRead /\ r.by \in ChaApprovals /\ ChaIsIssued(r.by)
    BY DEF ChaThreadOK, ChaBundleOK, ChaStoresOK, ChaTypeOK
  <2>2. \A r \in q.bundle : chaIssued'[r.by] = chaIssued[r.by] /\ r.by \in chaRead'
    BY <2>1 DEF ChaGrows
  <2> QED
    BY <2>2 DEF ChaThreadOK, ChaBundleOK
<1>5. q.now <= chaClock'
  BY ChaThreadIs, ChaBounds DEF ChaThreadOK, ChaGrows, ChaTypeOK, ChaStoreTypes
<1> QED
  BY <1>1, <1>2, <1>3, <1>4, <1>5 DEF ChaThreadOK

LEMMA ChaContextStays ==
    ASSUME ChaTypeOK, ChaStoresOK, ChaContextOK, ChaGrows, chaContext' = chaContext
    PROVE  ChaContextOK'
<1>1. SUFFICES ASSUME NEW c \in ChaConvs, NEW s \in ChaSources, NEW r,
                      r = chaContext[c][s], r # ChaNoResult
               PROVE  r.by \in chaRead' /\ chaIssued'[r.by].conv = c
                      /\ chaIssued'[r.by].kind = s
  BY DEF ChaContextOK
<1>2. r.by \in chaRead /\ chaIssued[r.by].conv = c /\ chaIssued[r.by].kind = s
  BY <1>1 DEF ChaContextOK
<1>3. r.by \in ChaApprovals /\ ChaIsIssued(r.by)
  BY <1>2 DEF ChaStoresOK, ChaTypeOK
<1> QED
  BY <1>2, <1>3 DEF ChaGrows

\* One thread goes on.
LEMMA ChaCombine ==
    ASSUME ChaIInv, NEW t \in ChaThreads, NEW q \in ChaThread, ChaGoes(t, q),
           ChaThreadOK(q)', ChaGrows, ChaStoreTypes', ChaStoresOK', ChaContextOK',
           \A d \in ChaDates : ChaDateOK(d)'
    PROVE  ChaIInv'
<1>1. ChaTypeOK /\ ChaStoresOK
  BY DEF ChaIInv
<1>2. /\ chaThreads' \in [ChaThreads -> ChaThread] /\ chaThreads'[t] = q
      /\ \A s \in ChaThreads \ {t} : chaThreads'[s] = chaThreads[s]
  BY <1>1, ChaGoesIs
<1>3. ASSUME NEW s \in ChaThreads PROVE ChaThreadOK(chaThreads[s])'
  <2>1. CASE s = t
    BY <1>2, <2>1
  <2>2. CASE s # t
    <3>1. PICK p \in ChaThread : p = chaThreads[s]
      BY <1>1, ChaThreadAt
    <3>2. ChaThreadOK(p)
      BY <3>1 DEF ChaIInv
    <3>3. ChaThreadOK(p)'
      BY <1>1, <3>2, ChaThreadStays
    <3> QED
      BY <1>2, <2>2, <3>1, <3>3
  <2> QED
    BY <2>1, <2>2
<1> QED
  BY <1>2, <1>3, ChaTypeNext DEF ChaIInv

\* No date is asked about, answered or brought to a connector.
LEMMA ChaDatesSteady ==
    ASSUME ChaIInv, NEW t \in ChaThreads, NEW q \in ChaThread, ChaGoes(t, q),
           chaAnswered' = chaAnswered,
           \A a \in ChaApprovals : chaIssued'[a].date = chaIssued[a].date,
           \A c \in ChaConvs : chaQuestions'[c].date \in {chaQuestions[c].date, ChaNone},
           \A d \in ChaDates : ChaBrings(q, d) => ChaCarries(t, d)
    PROVE  \A d \in ChaDates : ChaDateOK(d)'
<1> TAKE d \in ChaDates
<1>1. ChaTypeOK /\ ChaDateOK(d) /\ d # ChaNone
  BY ChaBounds DEF ChaIInv
<1>2. \A s \in ChaThreads : ChaCarries(s, d)' => ChaCarries(s, d)
  BY <1>1, ChaGoesIs DEF ChaCarries
<1>3. \A c \in ChaConvs : chaQuestions'[c].date = d => chaQuestions[c].date = d
  BY <1>1
<1> QED
  BY <1>1, <1>2, <1>3 DEF ChaDateOK

\* Nothing but the thread changes.
LEMMA ChaQuiet ==
    ASSUME ChaIInv, NEW t \in ChaThreads, NEW q \in ChaThread, ChaGoes(t, q),
           UNCHANGED <<chaStores, chaClock, chaLive, chaHistory>>,
           chaTurns' \in 0..ChaMaxTurns, ChaThreadOK(q),
           \A d \in ChaDates : ChaBrings(q, d) => ChaCarries(t, d)
    PROVE  ChaIInv'
<1>1. /\ UNCHANGED <<chaQuestions, chaPending, chaBound, chaContext, chaIssued, chaTold,
                     chaAnswered, chaRead, chaClock, chaLive>>
      /\ ChaTypeOK /\ ChaStoresOK /\ ChaContextOK
  BY DEF chaStores, chaHistory, ChaIInv
<1>2. ChaStoreTypes'
  BY <1>1, ChaTypeIs DEF ChaStoreTypes
<1>3. ChaGrows
  BY <1>1 DEF ChaGrows, ChaTracked, ChaIsIssued, ChaDead, ChaTypeOK
<1>4. ChaStoresOK'
  BY <1>1 DEF ChaStoresOK, ChaApprovalOK, ChaTracked, ChaIsIssued, ChaDead
<1>5. ChaContextOK' /\ ChaThreadOK(q)'
  BY <1>1, <1>2, <1>3, ChaContextStays, ChaThreadStays
<1>6. \A d \in ChaDates : ChaDateOK(d)'
  BY <1>1, ChaDatesSteady
<1> QED
  BY <1>2, <1>3, <1>4, <1>5, <1>6, ChaCombine

-----------------------------------------------------------------------------
(* ChatActions: the steps that only move their thread.                      *)

LEMMA ChaReplySafe ==
    ASSUME ChaIInv, NEW t \in ChaThreads, ChaReply(t),
           UNCHANGED <<chaStores, chaWorld, chaHistory>>
    PROVE  ChaIInv'
<1>1. ChaGoes(t, ChaIdle) /\ ChaIdle \in ChaThread /\ ChaTypeOK /\ ChaThreadOK(ChaIdle)
  BY ChaIdleIs, ChaIdleOK DEF ChaReply, ChaIInv
<1>2. \A d \in ChaDates : ~ChaBrings(ChaIdle, d)
  BY ChaIdleIs DEF ChaBrings
<1>3. UNCHANGED <<chaClock, chaLive>> /\ chaTurns' \in 0..ChaMaxTurns
  BY <1>1 DEF chaWorld, ChaTypeOK
<1> QED
  BY <1>1, <1>2, <1>3, ChaQuiet

LEMMA ChaSendSafe ==
    ASSUME ChaIInv, NEW t \in ChaThreads, NEW c \in ChaConvs, NEW m \in ChaMessages,
           ChaSend(t, c, m)
    PROVE  ChaIInv'
<1> DEFINE q == [ChaIdle EXCEPT
          !.pc = IF m = "analyze" THEN "begin" ELSE "classify",
          !.conv = c, !.message = m, !.now = chaClock,
          !.kind = IF m \in ChaKinds THEN m ELSE IF m = "approve" THEN "calendar"
                   ELSE IF m = "no" THEN "write" ELSE "none",
          !.since = IF m = "analyze" THEN chaClock ELSE 0,
          !.offered = IF m = "approve" THEN {a \in chaTold : chaIssued[a].conv = c}
                      ELSE {}]
<1>1. ChaTypeOK /\ chaClock \in 0..ChaMaxTime /\ chaTold \subseteq ChaApprovals
      /\ chaClock \in Nat
  BY ChaBounds DEF ChaIInv, ChaTypeOK
<1>2. /\ q.pc = (IF m = "analyze" THEN "begin" ELSE "classify") /\ q.conv = c
      /\ q.message = m /\ q.now = chaClock /\ q.date = ChaNone
      /\ q.kind = (IF m \in ChaKinds THEN m ELSE IF m = "approve" THEN "calendar"
                   ELSE IF m = "no" THEN "write" ELSE "none")
      /\ q.since = (IF m = "analyze" THEN chaClock ELSE 0)
      /\ q.offered = (IF m = "approve" THEN {a \in chaTold : chaIssued[a].conv = c}
                      ELSE {})
      /\ q.bundle = {} /\ q.approval = ChaIdle.approval /\ q.approved = ChaIdle.approved
  BY DEF ChaIdle
<1>3. q \in ChaThread
  <2>1. /\ ChaIdle \in ChaThread /\ m \in ChaMessages \cup {"none"}
        /\ "begin" \in ChaSteps /\ "classify" \in ChaSteps /\ 0 \in 0..ChaMaxTime
        /\ {"calendar", "write", "none"} \subseteq ChaKinds \cup {"none"}
        /\ {a \in chaTold : chaIssued[a].conv = c} \in SUBSET ChaApprovals
    BY <1>1, ChaIdleIs, ChaBounds, ChaKindsAre DEF ChaSteps
  <2> QED
    BY <1>1, <2>1 DEF ChaThread
<1>4. ChaGoes(t, q)
  BY DEF ChaSend
<1> HIDE DEF q
<1>5. ChaThreadOK(q)
  <2>1. ChaMessageOK(q)
    BY <1>1, <1>2, ChaKindsAre DEF ChaMessageOK
  <2>2. ChaApprovalAt(q)
    BY <1>2 DEF ChaApprovalAt, ChaDeciding
  <2>3. ChaOfferedOK(q)
    BY <1>2 DEF ChaOfferedOK, ChaPassed
  <2>4. ChaBundleOK(q)
    BY <1>2 DEF ChaBundleOK
  <2> QED
    BY <1>1, <1>2, <2>1, <2>2, <2>3, <2>4 DEF ChaThreadOK
<1>6. \A d \in ChaDates : ~ChaBrings(q, d)
  BY <1>2, ChaBounds DEF ChaBrings
<1>7. /\ UNCHANGED <<chaStores, chaClock, chaLive, chaHistory>>
      /\ chaTurns' \in 0..ChaMaxTurns
  BY ChaBounds DEF ChaSend, ChaIInv, ChaTypeOK
<1> QED
  BY <1>3, <1>4, <1>5, <1>6, <1>7, ChaQuiet

\* What a thread carries to another step of the same message.
LEMMA ChaMoves ==
    ASSUME ChaIInv, NEW t \in ChaThreads, NEW p \in ChaThread, ChaLike(p, chaThreads[t]),
           p.bundle = chaThreads[t].bundle, p.pc # "idle",
           chaThreads[t].pc # "idle", chaThreads[t].now <= p.now, p.now <= chaClock
    PROVE  /\ p.conv \in ChaConvs /\ p.since <= p.now /\ p.now <= chaClock
           /\ ChaBundleOK(p)
           /\ p.message = "approve" => \A a \in p.offered :
                 a \in chaTold /\ a \in ChaApprovals /\ chaIssued[a].conv = p.conv
<1> PICK q \in ChaThread : q = chaThreads[t]
  BY ChaThreadAt DEF ChaIInv
<1>1. ChaThreadOK(q) /\ ChaLike(p, q)
  BY DEF ChaIInv
<1>2. p.conv \in ChaConvs /\ p.since <= p.now
  BY <1>1, ChaThreadIs, ChaBounds DEF ChaThreadOK, ChaMessageOK, ChaLike
<1>3. ChaBundleOK(p)
  BY <1>1 DEF ChaThreadOK, ChaBundleOK, ChaLike
<1>4. p.message = "approve" => \A a \in p.offered :
          a \in chaTold /\ a \in ChaApprovals /\ chaIssued[a].conv = p.conv
  BY <1>1, ChaThreadIs DEF ChaThreadOK, ChaOfferedOK, ChaLike
<1> QED
  BY <1>2, <1>3, <1>4

LEMMA ChaClassifySafe ==
    ASSUME ChaIInv, NEW t \in ChaThreads, ChaClassify(t)
    PROVE  ChaIInv'
<1> PICK q \in ChaThread : q = chaThreads[t]
  BY ChaThreadAt DEF ChaIInv
<1>1. ChaTypeOK /\ ChaThreadOK(q) /\ q.pc = "classify" /\ q.now \in 0..ChaMaxTime
  BY ChaThreadIs, ChaBounds DEF ChaIInv, ChaClassify
<1>2. PICK pc \in {"look", "begin", "guard", "model", "consume", "clear"} :
        /\ ChaStep(t, pc, q.now)
        /\ pc \notin {"consume", "clear"} => pc = ChaLane(q.message)
        /\ pc = "consume" => q.message \in {"yes", "no"}
  BY DEF ChaClassify, ChaLane
<1>3. PICK p \in ChaThread :
        /\ ChaGoes(t, p) /\ p.pc = pc /\ p.now = q.now /\ ChaLike(p, q)
        /\ p.kind = q.kind /\ p.bundle = q.bundle
  BY <1>1, <1>2, ChaStepIs DEF ChaSteps
<1>4. ChaThreadOK(p)
  <2>1. /\ p.conv \in ChaConvs /\ p.since <= p.now /\ p.now <= chaClock /\ ChaBundleOK(p)
        /\ p.message = "approve" => \A a \in p.offered :
              a \in chaTold /\ a \in ChaApprovals /\ chaIssued[a].conv = p.conv
    BY <1>1, <1>2, <1>3, ChaMoves, ChaThreadIs DEF ChaThreadOK
  <2>2. ChaMessageOK(p)
    BY <1>1, <1>2, <1>3, <2>1, ChaKindsAre, ChaThreadIs
    DEF ChaThreadOK, ChaMessageOK, ChaLike, ChaLane
  <2>3. ChaApprovalAt(p)
    BY <1>2, <1>3 DEF ChaApprovalAt, ChaDeciding
  <2>4. ChaOfferedOK(p)
    BY <1>1, <1>2, <1>3, <2>1, ChaKindsAre
    DEF ChaOfferedOK, ChaPassed, ChaLane, ChaThreadOK, ChaMessageOK, ChaLike
  <2> QED
    BY <2>1, <2>2, <2>3, <2>4 DEF ChaThreadOK
<1>5. \A d \in ChaDates : ~ChaBrings(p, d)
  BY <1>1, <1>3, ChaBounds DEF ChaBrings, ChaThreadOK, ChaMessageOK, ChaLike
<1>6. /\ UNCHANGED <<chaStores, chaClock, chaLive, chaHistory>>
      /\ chaTurns' \in 0..ChaMaxTurns
  BY <1>1 DEF ChaClassify, chaWorld, ChaTypeOK
<1> QED
  BY <1>3, <1>4, <1>5, <1>6, ChaQuiet

LEMMA ChaBeginSafe ==
    ASSUME ChaIInv, NEW t \in ChaThreads, ChaBegin(t)
    PROVE  ChaIInv'
<1> PICK q \in ChaThread : q = chaThreads[t]
  BY ChaThreadAt DEF ChaIInv
<1>1. ChaTypeOK /\ ChaThreadOK(q) /\ q.pc = "begin" /\ q.now \in 0..ChaMaxTime
      /\ UNCHANGED <<chaStores, chaWorld, chaHistory>>
  BY ChaThreadIs, ChaBounds DEF ChaIInv, ChaBegin
<1>2. CASE ChaReply(t)
  BY <1>1, <1>2, ChaReplySafe
<1>3. ASSUME NEW pc \in {"ask", "bundle", "check", "propose"}, ChaStep(t, pc, q.now),
             pc \in {"check", "propose"} => q.message \notin {"date", "analyze"},
             pc = "bundle" => q.message = "analyze"
      PROVE  ChaIInv'
  <2>1. PICK p \in ChaThread :
          /\ ChaGoes(t, p) /\ p.pc = pc /\ p.now = q.now /\ ChaLike(p, q)
          /\ p.kind = q.kind /\ p.bundle = q.bundle
    BY <1>1, <1>3, ChaStepIs DEF ChaSteps
  <2>2. ChaThreadOK(p)
    <3>1. /\ p.conv \in ChaConvs /\ p.since <= p.now /\ p.now <= chaClock /\ ChaBundleOK(p)
          /\ p.message = "approve" => \A a \in p.offered :
                a \in chaTold /\ a \in ChaApprovals /\ chaIssued[a].conv = p.conv
      BY <1>1, <1>3, <2>1, ChaMoves, ChaThreadIs DEF ChaThreadOK
    <3>2. ChaMessageOK(p)
      BY <1>1, <1>3, <2>1, <3>1 DEF ChaThreadOK, ChaMessageOK, ChaLike
    <3>3. ChaApprovalAt(p)
      BY <1>3, <2>1 DEF ChaApprovalAt, ChaDeciding
    <3>4. ChaOfferedOK(p)
      BY <1>3, <2>1, <3>1 DEF ChaOfferedOK, ChaPassed
    <3> QED
      BY <3>1, <3>2, <3>3, <3>4 DEF ChaThreadOK
  <2>3. \A d \in ChaDates : ChaBrings(p, d) => ChaCarries(t, d)
    BY <1>1, <2>1 DEF ChaBrings, ChaCarries, ChaLike
  <2>4. UNCHANGED <<chaClock, chaLive>> /\ chaTurns' \in 0..ChaMaxTurns
    BY <1>1 DEF chaWorld, ChaTypeOK
  <2> QED
    BY <1>1, <2>1, <2>2, <2>3, <2>4, ChaQuiet
<1> QED
  BY <1>2, <1>3 DEF ChaBegin

LEMMA ChaModelSafe ==
    ASSUME ChaIInv, NEW t \in ChaThreads, ChaModel(t)
    PROVE  ChaIInv'
BY ChaReplySafe DEF ChaModel

LEMMA ChaDecideSafe ==
    ASSUME ChaIInv, NEW t \in ChaThreads, NEW a \in ChaApprovals, NEW approved \in BOOLEAN,
           ChaDecide(t, a, approved)
    PROVE  ChaIInv'
<1> DEFINE q == [ChaIdle EXCEPT
          !.pc = IF chaIssued[a].kind = "write" THEN "scope" ELSE "decide",
          !.approval = a, !.now = chaClock, !.conv = chaIssued[a].conv,
          !.kind = chaIssued[a].kind, !.approved = approved]
<1>1. /\ ChaTypeOK /\ chaClock \in 0..ChaMaxTime /\ chaClock \in Nat
      /\ ChaIsIssued(a) /\ chaIssued[a].conv \in ChaConvs
  BY ChaBounds, ChaUnissuedIs, ChaKindsAre
  DEF ChaIInv, ChaTypeOK, ChaDecide, ChaStoresOK, ChaTracked, ChaApprovalOK, ChaIsIssued
<1>2. /\ q.pc = (IF chaIssued[a].kind = "write" THEN "scope" ELSE "decide")
      /\ q.approval = a /\ q.now = chaClock /\ q.conv = chaIssued[a].conv
      /\ q.kind = chaIssued[a].kind /\ q.message = "none" /\ q.date = ChaNone
      /\ q.since = 0 /\ q.offered = {} /\ q.bundle = {}
  BY DEF ChaIdle
<1>3. q \in ChaThread
  <2>1. /\ ChaIdle \in ChaThread /\ "scope" \in ChaSteps /\ "decide" \in ChaSteps
        /\ chaIssued[a].kind \in ChaKinds \cup {"none"}
        /\ chaIssued[a].conv \in ChaConvs \cup {ChaNone}
    BY <1>1, ChaIdleIs DEF ChaSteps, ChaIsIssued
  <2> QED
    BY <1>1, <2>1 DEF ChaThread
<1>4. ChaGoes(t, q)
  BY DEF ChaDecide
<1> HIDE DEF q
<1>5. ChaThreadOK(q)
  <2>1. ChaMessageOK(q)
    BY <1>1, <1>2, ChaKindsAre DEF ChaMessageOK
  <2>2. ChaApprovalAt(q)
    BY <1>1, <1>2 DEF ChaApprovalAt
  <2>3. ChaOfferedOK(q) /\ ChaBundleOK(q)
    BY <1>2 DEF ChaOfferedOK, ChaBundleOK
  <2> QED
    BY <1>1, <1>2, <2>1, <2>2, <2>3 DEF ChaThreadOK
<1>6. \A d \in ChaDates : ~ChaBrings(q, d)
  BY <1>2, ChaBounds DEF ChaBrings
<1>7. /\ UNCHANGED <<chaStores, chaClock, chaLive, chaHistory>>
      /\ chaTurns' \in 0..ChaMaxTurns
  BY <1>1 DEF ChaDecide, chaWorld, ChaTypeOK
<1> QED
  BY <1>3, <1>4, <1>5, <1>6, <1>7, ChaQuiet

LEMMA ChaAnswerSafe ==
    ASSUME ChaIInv, NEW t \in ChaThreads, ChaAnswer(t)
    PROVE  ChaIInv'
<1> PICK q \in ChaThread : q = chaThreads[t]
  BY ChaThreadAt DEF ChaIInv
<1>1. ChaTypeOK /\ ChaThreadOK(q) /\ q.pc = "answer" /\ q.now \in 0..ChaMaxTime
      /\ UNCHANGED <<chaStores, chaWorld, chaHistory>>
  BY ChaThreadIs, ChaBounds DEF ChaIInv, ChaAnswer
<1>2. CASE ChaReply(t)
  BY <1>1, <1>2, ChaReplySafe
<1>3. CASE q.kind \in ChaSources /\ q.approval \in chaRead /\ ChaStep(t, "capture", q.now)
  <2>1. PICK p \in ChaThread :
          /\ ChaGoes(t, p) /\ p.pc = "capture" /\ p.now = q.now /\ ChaLike(p, q)
          /\ p.kind = q.kind /\ p.bundle = q.bundle
    BY <1>1, <1>3, ChaStepIs DEF ChaSteps
  <2>2. ChaThreadOK(p)
    <3>1. /\ p.conv \in ChaConvs /\ p.since <= p.now /\ p.now <= chaClock /\ ChaBundleOK(p)
          /\ p.message = "approve" => \A a \in p.offered :
                a \in chaTold /\ a \in ChaApprovals /\ chaIssued[a].conv = p.conv
      BY <1>1, <2>1, ChaMoves, ChaThreadIs DEF ChaThreadOK
    <3>2. ChaMessageOK(p)
      BY <2>1, <3>1 DEF ChaMessageOK
    <3>3. ChaApprovalAt(p)
      BY <1>1, <1>3, <2>1 DEF ChaThreadOK, ChaApprovalAt, ChaDeciding, ChaLike
    <3>4. ChaOfferedOK(p)
      BY <2>1, <3>1 DEF ChaOfferedOK, ChaPassed
    <3> QED
      BY <3>1, <3>2, <3>3, <3>4 DEF ChaThreadOK
  <2>3. \A d \in ChaDates : ~ChaBrings(p, d)
    BY <2>1 DEF ChaBrings
  <2>4. UNCHANGED <<chaClock, chaLive>> /\ chaTurns' \in 0..ChaMaxTurns
    BY <1>1 DEF chaWorld, ChaTypeOK
  <2> QED
    BY <1>1, <2>1, <2>2, <2>3, <2>4, ChaQuiet
<1> QED
  BY <1>2, <1>3 DEF ChaAnswer

-----------------------------------------------------------------------------
(* ChatActions: the questions.                                              *)

LEMMA ChaAsked ==
    ASSUME ChaIInv, NEW t \in ChaThreads, NEW q \in ChaThread, ChaGoes(t, q), ChaThreadOK(q),
           UNCHANGED <<chaPending, chaBound, chaContext, chaWorld, chaIssued, chaTold, chaRead>>,
           chaQuestions' \in [ChaConvs -> ChaQuestion],
           chaAnswered' \in [ChaDates -> Seq({"confirmed", "cancelled", "expired"})],
           \A d \in ChaDates : ChaDateOK(d)'
    PROVE  ChaIInv'
<1>1. /\ UNCHANGED <<chaClock, chaLive, chaTurns>>
      /\ ChaTypeOK /\ ChaStoresOK /\ ChaContextOK
  BY DEF chaWorld, ChaIInv
<1>2. ChaStoreTypes'
  BY <1>1, ChaTypeIs DEF ChaStoreTypes
<1>3. ChaGrows
  BY <1>1 DEF ChaGrows, ChaTracked, ChaIsIssued, ChaDead, ChaTypeOK
<1>4. ChaStoresOK'
  BY <1>1 DEF ChaStoresOK, ChaApprovalOK, ChaTracked, ChaIsIssued, ChaDead
<1>5. ChaContextOK' /\ ChaThreadOK(q)'
  BY <1>1, <1>2, <1>3, ChaContextStays, ChaThreadStays
<1> QED
  BY <1>2, <1>3, <1>4, <1>5, ChaCombine

LEMMA ChaNoQuestionIs == ChaNoQuestion \in ChaQuestion /\ ChaNoQuestion.date = ChaNone
BY ChaBounds DEF ChaNoQuestion, ChaQuestion

LEMMA ChaClearSafe ==
    ASSUME ChaIInv, NEW t \in ChaThreads, ChaClear(t)
    PROVE  ChaIInv'
<1> PICK q \in ChaThread : q = chaThreads[t]
  BY ChaThreadAt DEF ChaIInv
<1>1. ChaTypeOK /\ ChaThreadOK(q) /\ q.pc = "clear" /\ q.now \in 0..ChaMaxTime
      /\ UNCHANGED <<chaPending, chaBound, chaContext, chaWorld, chaHistory>>
      /\ chaQuestions' = [chaQuestions EXCEPT ![q.conv] = ChaNoQuestion]
  BY ChaThreadIs, ChaBounds DEF ChaIInv, ChaClear
<1>2. PICK pc \in {"look", "begin", "guard", "model"} :
        ChaStep(t, pc, q.now) /\ pc = ChaLane(q.message)
  BY DEF ChaClear, ChaLane
<1>3. PICK p \in ChaThread :
        /\ ChaGoes(t, p) /\ p.pc = pc /\ p.now = q.now /\ ChaLike(p, q)
        /\ p.kind = q.kind /\ p.bundle = q.bundle
  BY <1>1, <1>2, ChaStepIs DEF ChaSteps
<1>4. ChaThreadOK(p)
  <2>1. /\ p.conv \in ChaConvs /\ p.since <= p.now /\ p.now <= chaClock /\ ChaBundleOK(p)
        /\ p.message = "approve" => \A a \in p.offered :
              a \in chaTold /\ a \in ChaApprovals /\ chaIssued[a].conv = p.conv
    BY <1>1, <1>2, <1>3, ChaMoves, ChaThreadIs DEF ChaThreadOK
  <2>2. ChaMessageOK(p)
    BY <1>1, <1>2, <1>3, <2>1, ChaKindsAre, ChaThreadIs
    DEF ChaThreadOK, ChaMessageOK, ChaLike, ChaLane
  <2>3. ChaApprovalAt(p)
    BY <1>2, <1>3 DEF ChaApprovalAt, ChaDeciding
  <2>4. ChaOfferedOK(p)
    BY <1>1, <1>2, <1>3, <2>1, ChaKindsAre
    DEF ChaOfferedOK, ChaPassed, ChaLane, ChaThreadOK, ChaMessageOK, ChaLike
  <2> QED
    BY <2>1, <2>2, <2>3, <2>4 DEF ChaThreadOK
<1>5. \A d \in ChaDates : ~ChaBrings(p, d)
  BY <1>1, <1>3, ChaBounds DEF ChaBrings, ChaThreadOK, ChaMessageOK, ChaLike
<1>6. /\ chaQuestions' \in [ChaConvs -> ChaQuestion]
      /\ \A c \in ChaConvs : chaQuestions'[c].date \in {chaQuestions[c].date, ChaNone}
  BY <1>1, ChaNoQuestionIs DEF ChaTypeOK
<1>7. UNCHANGED <<chaIssued, chaTold, chaAnswered, chaRead>>
  BY <1>1 DEF chaHistory
<1>8. \A d \in ChaDates : ChaDateOK(d)'
  BY <1>3, <1>5, <1>6, <1>7, ChaDatesSteady
<1>9. chaAnswered' \in [ChaDates -> Seq({"confirmed", "cancelled", "expired"})]
  BY <1>1, <1>7 DEF ChaTypeOK
<1> QED
  BY <1>1, <1>3, <1>4, <1>6, <1>7, <1>8, <1>9, ChaAsked

\* A question is answered once: it was pending, and is not any more.
LEMMA ChaAnswered ==
    ASSUME ChaIInv, NEW t \in ChaThreads, NEW p \in ChaThread, ChaGoes(t, p), ChaThreadOK(p),
           NEW c \in ChaConvs, NEW d \in ChaDates, d = chaQuestions[c].date,
           NEW v \in {"confirmed", "cancelled", "expired"},
           UNCHANGED <<chaPending, chaBound, chaContext, chaWorld, chaIssued, chaTold, chaRead>>,
           chaQuestions' = [chaQuestions EXCEPT ![c] = ChaNoQuestion],
           chaAnswered' = [chaAnswered EXCEPT ![d] = Append(@, v)],
           \A e \in ChaDates : ChaBrings(p, e) => e = d /\ v = "confirmed"
    PROVE  ChaIInv'
<1>1. /\ ChaTypeOK /\ chaAnswered[d] = <<>> /\ d # ChaNone
      /\ \A e \in ChaConvs : chaQuestions[e].date = d => e = c
      /\ \A s \in ChaThreads : ~ChaCarries(s, d)
      /\ \A a \in ChaApprovals : chaIssued[a].date # d
  <2>1. ChaDateOK(d)
    BY DEF ChaIInv
  <2>2. <<"confirmed">> # <<>>
    OBVIOUS
  <2> QED
    BY <2>1, <2>2, ChaBounds DEF ChaDateOK, ChaIInv
<1>2. /\ chaThreads' \in [ChaThreads -> ChaThread] /\ chaThreads'[t] = p
      /\ \A s \in ChaThreads \ {t} : chaThreads'[s] = chaThreads[s]
  BY <1>1, ChaGoesIs
<1>3. /\ chaAnswered' \in [ChaDates -> Seq({"confirmed", "cancelled", "expired"})]
      /\ chaAnswered'[d] = <<v>>
      /\ \A e \in ChaDates \ {d} : chaAnswered'[e] = chaAnswered[e]
  <2>1. Append(<<>>, v) = <<v>> /\ <<v>> \in Seq({"confirmed", "cancelled", "expired"})
    OBVIOUS
  <2> QED
    BY <1>1, <2>1 DEF ChaTypeOK
<1>4. /\ chaQuestions' \in [ChaConvs -> ChaQuestion] /\ chaQuestions'[c].date = ChaNone
      /\ \A b \in ChaConvs \ {c} : chaQuestions'[b] = chaQuestions[b]
  BY <1>1, ChaNoQuestionIs DEF ChaTypeOK
<1>5. ASSUME NEW e \in ChaDates PROVE ChaDateOK(e)'
  <2>1. CASE e = d
    <3>1. \A b \in ChaConvs : chaQuestions'[b].date # d
      BY <1>1, <1>4
    <3>2. \A s \in ChaThreads : ChaCarries(s, d)' => s = t /\ v = "confirmed"
      BY <1>1, <1>2 DEF ChaCarries
    <3>3. chaAnswered'[d] \in {<<>>, <<"confirmed">>, <<"cancelled">>, <<"expired">>}
      BY <1>3
    <3> QED
      BY <1>1, <1>3, <2>1, <3>1, <3>2, <3>3 DEF ChaDateOK
  <2>2. CASE e # d
    <3>1. ChaDateOK(e) /\ e # ChaNone
      BY ChaBounds DEF ChaIInv
    <3>2. \A b \in ChaConvs : chaQuestions'[b].date = e => chaQuestions[b].date = e
      BY <1>4, <3>1
    <3>3. \A s \in ChaThreads : ChaCarries(s, e)' => ChaCarries(s, e)
      BY <1>2, <2>2 DEF ChaCarries
    <3> QED
      BY <1>3, <2>2, <3>1, <3>2, <3>3 DEF ChaDateOK
  <2> QED
    BY <2>1, <2>2
<1> QED
  BY <1>3, <1>4, <1>5, ChaAsked

LEMMA ChaConsumeSafe ==
    ASSUME ChaIInv, NEW t \in ChaThreads, ChaConsume(t)
    PROVE  ChaIInv'
<1> PICK q \in ChaThread : q = chaThreads[t]
  BY ChaThreadAt DEF ChaIInv
<1>1. ChaTypeOK /\ ChaThreadOK(q) /\ q.pc = "consume" /\ q.now \in 0..ChaMaxTime
      /\ UNCHANGED <<chaPending, chaBound, chaContext, chaWorld, chaIssued, chaTold, chaRead>>
      /\ q.conv \in ChaConvs
  BY ChaThreadIs, ChaBounds DEF ChaIInv, ChaConsume, ChaConsumeInto, ChaThreadOK, ChaMessageOK
<1> PICK d : d = chaQuestions[q.conv].date
  OBVIOUS
<1>2. CASE ChaReply(t) /\ UNCHANGED <<chaQuestions, chaAnswered>>
  BY <1>1, <1>2, ChaReplySafe DEF chaStores, chaHistory
<1>3. CASE /\ d # ChaNone
           /\ chaQuestions' = [chaQuestions EXCEPT ![q.conv] = ChaNoQuestion]
           /\ chaAnswered' = [chaAnswered EXCEPT ![d] = Append(@, ChaVerdict(q))]
           /\ IF ChaVerdict(q) = "confirmed"
              THEN ChaGoes(t, [q EXCEPT !.pc = "begin", !.kind = "calendar", !.date = d])
              ELSE ChaReply(t)
  <2>1. PICK v \in {"confirmed", "cancelled", "expired"} : v = ChaVerdict(q)
    BY DEF ChaVerdict
  <2>2. d \in ChaDates
    BY <1>1, <1>3 DEF ChaTypeOK, ChaQuestion
  <2>3. CASE v # "confirmed"
    <3>1. ChaGoes(t, ChaIdle) /\ ChaIdle \in ChaThread /\ ChaThreadOK(ChaIdle)
      BY <1>1, <1>3, <2>1, <2>3, ChaIdleIs, ChaIdleOK DEF ChaReply
    <3>2. \A e \in ChaDates : ~ChaBrings(ChaIdle, e)
      BY ChaIdleIs DEF ChaBrings
    <3> QED
      BY <1>1, <1>3, <2>1, <2>2, <3>1, <3>2, ChaAnswered
  <2>4. CASE v = "confirmed"
    <3> DEFINE p == [q EXCEPT !.pc = "begin", !.kind = "calendar", !.date = d]
    <3>1. /\ p \in ChaThread /\ p.pc = "begin" /\ p.kind = "calendar" /\ p.date = d
          /\ p.conv = q.conv /\ p.message = q.message /\ p.since = q.since /\ p.now = q.now
          /\ p.offered = q.offered /\ p.bundle = q.bundle
      <4>1. /\ "begin" \in ChaSteps /\ "calendar" \in ChaKinds \cup {"none"}
            /\ d \in ChaDates \cup {ChaNone}
        BY <2>2, ChaKindsAre DEF ChaSteps
      <4>2. p \in ChaThread
        BY <4>1 DEF ChaThread
      <4> QED
        BY <4>2 DEF ChaThread
    <3>2. ChaGoes(t, p)
      BY <1>3, <2>1, <2>4
    <3> HIDE DEF p
    <3>3. ChaThreadOK(p)
      <4>1. ChaMessageOK(p)
        BY <1>1, <3>1, ChaKindsAre DEF ChaThreadOK, ChaMessageOK
      <4>2. ChaApprovalAt(p)
        BY <3>1 DEF ChaApprovalAt, ChaDeciding
      <4>3. ChaOfferedOK(p)
        BY <1>1, <3>1 DEF ChaThreadOK, ChaOfferedOK, ChaPassed
      <4>4. ChaBundleOK(p)
        BY <1>1, <3>1 DEF ChaThreadOK, ChaBundleOK
      <4> QED
        BY <1>1, <3>1, <4>1, <4>2, <4>3, <4>4 DEF ChaThreadOK
    <3>4. \A e \in ChaDates : ChaBrings(p, e) => e = d /\ v = "confirmed"
      BY <2>4, <3>1 DEF ChaBrings
    <3> QED
      BY <1>1, <1>3, <2>1, <2>2, <3>1, <3>2, <3>3, <3>4, ChaAnswered
  <2> QED
    BY <2>3, <2>4
<1> QED
  BY <1>2, <1>3 DEF ChaConsume, ChaConsumeInto

LEMMA ChaAskSafe ==
    ASSUME ChaIInv, NEW t \in ChaThreads, ChaAsk(t)
    PROVE  ChaIInv'
<1> PICK q \in ChaThread : q = chaThreads[t]
  BY ChaThreadAt DEF ChaIInv
<1>1. /\ ChaTypeOK /\ ChaThreadOK(q) /\ q.conv \in ChaConvs /\ ChaReply(t)
      /\ UNCHANGED <<chaPending, chaBound, chaContext, chaWorld, chaHistory>>
      /\ chaClock \in 0..ChaMaxTime /\ q.now \in Nat
  BY ChaThreadIs DEF ChaIInv, ChaAsk, ChaThreadOK, ChaMessageOK, ChaTypeOK
<1>2. PICK now \in ChaInstants(t) :
        LET kept == [c \in ChaConvs |->
               IF c # q.conv /\ now >= chaQuestions[c].expires
               THEN ChaNoQuestion ELSE chaQuestions[c]]
        IN  \/ chaQuestions' = kept
            \/ \E d \in ChaDates :
                  /\ chaAnswered[d] = <<>>
                  /\ \A c \in ChaConvs : chaQuestions[c].date # d
                  /\ chaQuestions' = [kept EXCEPT ![q.conv] =
                        [date |-> d, expires |-> now + ChaQuestionTTL]]
  BY DEF ChaAsk
<1> DEFINE kept == [c \in ChaConvs |->
               IF c # q.conv /\ now >= chaQuestions[c].expires
               THEN ChaNoQuestion ELSE chaQuestions[c]]
<1>3. now \in 0..ChaMaxTime
  BY <1>1, <1>2, ChaBounds DEF ChaInstants
<1>4. /\ kept \in [ChaConvs -> ChaQuestion]
      /\ \A c \in ChaConvs : kept[c].date \in {chaQuestions[c].date, ChaNone}
  BY <1>1, ChaNoQuestionIs DEF ChaTypeOK
<1>5. UNCHANGED <<chaIssued, chaTold, chaAnswered, chaRead>>
  BY <1>1 DEF chaHistory
<1>6. ChaGoes(t, ChaIdle) /\ ChaIdle \in ChaThread /\ ChaThreadOK(ChaIdle)
      /\ \A e \in ChaDates : ~ChaBrings(ChaIdle, e)
  BY <1>1, ChaIdleIs, ChaIdleOK DEF ChaReply, ChaBrings
<1>7. chaAnswered' \in [ChaDates -> Seq({"confirmed", "cancelled", "expired"})]
  BY <1>1, <1>5 DEF ChaTypeOK
<1>8. CASE chaQuestions' = kept
  <2>1. \A d \in ChaDates : ChaDateOK(d)'
    BY <1>4, <1>5, <1>6, <1>8, ChaDatesSteady
  <2> QED
    BY <1>1, <1>4, <1>5, <1>6, <1>7, <1>8, <2>1, ChaAsked
<1>9. ASSUME NEW d \in ChaDates, chaAnswered[d] = <<>>,
             \A c \in ChaConvs : chaQuestions[c].date # d,
             chaQuestions' = [kept EXCEPT ![q.conv] =
                        [date |-> d, expires |-> now + ChaQuestionTTL]]
      PROVE  ChaIInv'
  <2> DEFINE asked == [date |-> d, expires |-> now + ChaQuestionTTL]
  <2>1. asked \in ChaQuestion /\ asked.date = d
    <3>1. now + ChaQuestionTTL \in 0..(ChaMaxTime + ChaQuestionTTL)
      BY <1>3, ChaBounds
    <3> QED
      BY <3>1 DEF ChaQuestion
  <2>2. chaQuestions' = [kept EXCEPT ![q.conv] = asked]
    BY <1>9
  <2> HIDE DEF kept, asked
  <2>3. /\ chaQuestions' \in [ChaConvs -> ChaQuestion] /\ chaQuestions'[q.conv].date = d
        /\ \A c \in ChaConvs \ {q.conv} : chaQuestions'[c].date \in {chaQuestions[c].date, ChaNone}
    BY <1>1, <1>4, <2>1, <2>2
  <2>4. ASSUME NEW e \in ChaDates PROVE ChaDateOK(e)'
    <3>1. ChaDateOK(e) /\ e # ChaNone
      BY ChaBounds DEF ChaIInv
    <3>2. \A s \in ChaThreads : ChaCarries(s, e)' => ChaCarries(s, e)
      BY <1>1, <1>6, ChaGoesIs DEF ChaCarries
    <3>3. \A c \in ChaConvs : chaQuestions'[c].date = e =>
            IF e = d THEN c = q.conv ELSE chaQuestions[c].date = e
      BY <1>9, <2>3, <3>1
    <3>4. CASE e = d
      BY <1>5, <1>9, <3>1, <3>2, <3>3, <3>4 DEF ChaDateOK
    <3>5. CASE e # d
      BY <1>5, <3>1, <3>2, <3>3, <3>5 DEF ChaDateOK
    <3> QED
      BY <3>4, <3>5
  <2> QED
    BY <1>1, <1>5, <1>6, <1>7, <2>3, <2>4, ChaAsked
<1> QED
  BY <1>2, <1>8, <1>9

-----------------------------------------------------------------------------
(* ChatActions: the bindings.                                               *)

LEMMA ChaCleanedIs ==
    ASSUME ChaIInv, NEW kind, NEW now \in 0..ChaMaxTime, now <= chaClock
    PROVE  /\ ChaCleaned(kind, now) \in [ChaApprovals -> ChaDeadlines]
           /\ \A a \in ChaApprovals :
                 \/ ChaCleaned(kind, now)[a] = chaBound[a]
                 \/ ChaCleaned(kind, now)[a] = ChaGone /\ ChaDead(a)
<1>1. ChaTypeOK /\ \A a \in ChaApprovals : ChaApprovalOK(a)
  BY DEF ChaIInv, ChaStoresOK
<1>2. ChaGone \in ChaDeadlines
  BY ChaBounds DEF ChaDeadlines
<1>3. ASSUME NEW a \in ChaApprovals, now >= chaBound[a], chaBound[a] # ChaGone
      PROVE  ChaDead(a)
  <2>1. chaBound[a] = chaIssued[a].expires /\ chaPending[a] \in {ChaGone, chaIssued[a].expires}
    BY <1>1, <1>3 DEF ChaApprovalOK
  <2> QED
    BY <1>1, <1>3, <2>1, ChaIssueIs DEF ChaDead
<1>4. ChaCleaned(kind, now) \in [ChaApprovals -> ChaDeadlines]
  BY <1>1, <1>2 DEF ChaCleaned, ChaTypeOK
<1>5. \A a \in ChaApprovals :
        \/ ChaCleaned(kind, now)[a] = chaBound[a]
        \/ ChaCleaned(kind, now)[a] = ChaGone /\ now >= chaBound[a]
  BY DEF ChaCleaned
<1> QED
  BY <1>3, <1>4, <1>5

\* A binding ends when its approval cannot be decided any more.
ChaBindingsEnd ==
    /\ chaBound' \in [ChaApprovals -> ChaDeadlines]
    /\ chaPending' \in [ChaApprovals -> ChaDeadlines]
    /\ \A a \in ChaApprovals : chaPending'[a] \in {chaPending[a], ChaGone}
    /\ \A a \in ChaApprovals :
          \/ chaBound'[a] = chaBound[a]
          \/ chaBound'[a] = ChaGone /\ (ChaDead(a) \/ chaPending'[a] = ChaGone)
          \/ chaBound'[a] = chaIssued[a].expires /\ ChaIsIssued(a)

LEMMA ChaBindingStores ==
    ASSUME ChaIInv, UNCHANGED <<chaQuestions, chaContext, chaWorld, chaHistory>>,
           ChaBindingsEnd
    PROVE  ChaStoreTypes' /\ ChaGrows /\ ChaStoresOK' /\ ChaContextOK'
<1>1. /\ UNCHANGED <<chaClock, chaLive, chaTurns, chaIssued, chaTold, chaAnswered, chaRead>>
      /\ ChaTypeOK /\ ChaStoresOK /\ ChaContextOK /\ chaClock \in Nat
  BY ChaBounds DEF chaWorld, chaHistory, ChaIInv, ChaTypeOK
<1>2. ChaStoreTypes'
  BY <1>1, ChaTypeIs DEF ChaStoreTypes, ChaBindingsEnd
<1>3. ASSUME NEW a \in ChaApprovals PROVE ChaDead(a) => ChaDead(a)'
  BY <1>1 DEF ChaDead, ChaBindingsEnd
<1>4. ASSUME NEW a \in ChaApprovals, ChaTracked(a) PROVE ChaTracked(a)'
  <2>1. ChaIsIssued(a)' /\ (chaPending'[a] = ChaGone => ChaDead(a)')
    BY <1>1, <1>4 DEF ChaTracked, ChaIsIssued, ChaDead
  <2>2. chaIssued[a].expires # ChaGone
    BY <1>1, ChaIssueIs, ChaBounds
  <2>3. chaBound'[a] = ChaGone => ChaDead(a) \/ chaPending'[a] = ChaGone
    BY <1>4, <2>2 DEF ChaBindingsEnd, ChaTracked
  <2> QED
    BY <1>3, <2>1, <2>3 DEF ChaTracked
<1>5. ChaGrows
  BY <1>1, <1>4 DEF ChaGrows, ChaBindingsEnd
<1>6. ASSUME NEW a \in ChaApprovals PROVE ChaApprovalOK(a)'
  <2>1. ChaApprovalOK(a)
    BY <1>1 DEF ChaStoresOK
  <2>2. CASE chaIssued[a] = ChaUnissued
    <3>1. ~ChaIsIssued(a)
      BY <2>2, ChaUnissuedIs, ChaKindsAre DEF ChaIsIssued
    <3> QED
      BY <1>1, <2>1, <2>2, <3>1 DEF ChaApprovalOK, ChaBindingsEnd
  <2>3. CASE chaIssued[a] # ChaUnissued
    BY <1>1, <2>1, <2>3 DEF ChaApprovalOK, ChaBindingsEnd, ChaIsIssued
  <2> QED
    BY <2>2, <2>3
<1>7. ChaStoresOK'
  <2>1. \A a \in chaTold : a \in ChaApprovals /\ ChaTracked(a)
    BY <1>1 DEF ChaStoresOK, ChaTypeOK
  <2>2. \A a \in chaTold' : ChaTracked(a)'
    BY <1>1, <1>4, <2>1
  <2>3. \A a \in chaRead' : ChaIsIssued(a)'
    BY <1>1 DEF ChaStoresOK, ChaIsIssued
  <2> QED
    BY <1>6, <2>2, <2>3 DEF ChaStoresOK
<1> QED
  BY <1>1, <1>2, <1>5, <1>7, ChaContextStays

LEMMA ChaBindingSafe ==
    ASSUME ChaIInv, NEW t \in ChaThreads, NEW q \in ChaThread, ChaGoes(t, q),
           UNCHANGED <<chaQuestions, chaContext, chaWorld, chaHistory>>,
           ChaBindingsEnd, ChaThreadOK(q) \/ ChaThreadOK(q)',
           \A d \in ChaDates : ChaBrings(q, d) => ChaCarries(t, d)
    PROVE  ChaIInv'
<1>1. ChaStoreTypes' /\ ChaGrows /\ ChaStoresOK' /\ ChaContextOK'
  BY ChaBindingStores
<1>2. ChaThreadOK(q)'
  BY <1>1, ChaThreadStays DEF ChaIInv
<1>3. UNCHANGED <<chaIssued, chaAnswered>>
  BY DEF chaHistory
<1>4. \A d \in ChaDates : ChaDateOK(d)'
  BY <1>3, ChaDatesSteady
<1> QED
  BY <1>1, <1>2, <1>4, ChaCombine

LEMMA ChaBindingReply ==
    ASSUME ChaIInv, NEW t \in ChaThreads, ChaReply(t),
           UNCHANGED <<chaQuestions, chaContext, chaWorld, chaHistory>>, ChaBindingsEnd
    PROVE  ChaIInv'
<1>1. ChaGoes(t, ChaIdle) /\ ChaIdle \in ChaThread /\ ChaThreadOK(ChaIdle)
  BY ChaIdleIs, ChaIdleOK DEF ChaReply, ChaIInv
<1>2. \A d \in ChaDates : ~ChaBrings(ChaIdle, d)
  BY ChaIdleIs DEF ChaBrings
<1> QED
  BY <1>1, <1>2, ChaBindingSafe

\* A store is only cleaned.
LEMMA ChaCleans ==
    ASSUME ChaIInv, NEW kind, NEW now \in 0..ChaMaxTime, now <= chaClock,
           chaBound' = ChaCleaned(kind, now), chaPending' = chaPending
    PROVE  ChaBindingsEnd
BY ChaCleanedIs DEF ChaBindingsEnd, ChaIInv, ChaTypeOK

\* Where no binding awaits a decision, nothing the owner was told of does.
LEMMA ChaNothingAwaits ==
    ASSUME ChaIInv, NEW kind \in ChaKinds, NEW now \in 0..ChaMaxTime, now <= chaClock,
           NEW conv, ChaAwaiting(ChaCleaned(kind, now), conv, kind) = {},
           NEW a \in chaTold, chaIssued[a].kind = kind, chaIssued[a].conv = conv
    PROVE  ChaDead(a)
<1>1. a \in ChaApprovals /\ ChaTracked(a)
  BY DEF ChaIInv, ChaTypeOK, ChaStoresOK
<1>2. ChaCleaned(kind, now)[a] = ChaGone
  BY <1>1 DEF ChaAwaiting, ChaHeld, ChaPeers
<1>3. \/ ChaCleaned(kind, now)[a] = chaBound[a]
      \/ ChaCleaned(kind, now)[a] = ChaGone /\ ChaDead(a)
  BY <1>1, ChaCleanedIs
<1> QED
  BY <1>1, <1>2, <1>3 DEF ChaTracked

LEMMA ChaInstantIs ==
    ASSUME ChaIInv, NEW t \in ChaThreads, NEW now \in ChaInstants(t)
    PROVE  now \in 0..ChaMaxTime /\ chaThreads[t].now <= now /\ now <= chaClock
           /\ now \in Nat
<1>1. chaThreads[t].now \in Nat /\ chaClock \in 0..ChaMaxTime
  BY ChaThreadAt, ChaThreadIs DEF ChaIInv, ChaTypeOK
<1> QED
  BY <1>1, ChaBounds DEF ChaInstants

LEMMA ChaGuardSafe ==
    ASSUME ChaIInv, NEW t \in ChaThreads, ChaGuard(t)
    PROVE  ChaIInv'
<1> PICK q \in ChaThread : q = chaThreads[t]
  BY ChaThreadAt DEF ChaIInv
<1>1. /\ ChaTypeOK /\ ChaThreadOK(q) /\ q.pc = "guard" /\ q.kind \in ChaKinds
      /\ UNCHANGED <<chaQuestions, chaPending, chaContext, chaWorld, chaHistory>>
  BY DEF ChaIInv, ChaGuard, ChaGuardFor, ChaThreadOK, ChaMessageOK
<1>2. PICK now \in ChaInstants(t) :
        /\ chaBound' = ChaCleaned(q.kind, now)
        /\ \/ ChaReply(t)
           \/ /\ ChaAwaiting(ChaCleaned(q.kind, now), q.conv, q.kind) = {}
              /\ IF q.kind = "write" THEN ChaStep(t, "model", now)
                 ELSE ChaGoes(t, [q EXCEPT !.now = now,
                          !.kind = IF q.kind = "calendar" THEN "gmail" ELSE "write"])
  <2>1. q.kind # "write" => q.kind \in {"gmail", "calendar"}
    BY <1>1, ChaKindsAre
  <2> QED
    BY <2>1 DEF ChaGuard, ChaGuardFor
<1>3. now \in 0..ChaMaxTime /\ q.now <= now /\ now <= chaClock /\ now \in Nat
  BY <1>2, ChaInstantIs
<1>4. ChaBindingsEnd
  BY <1>1, <1>2, <1>3, ChaCleans
<1>5. CASE ChaReply(t)
  BY <1>1, <1>4, <1>5, ChaBindingReply
<1>6. ASSUME NEW p \in ChaThread, ChaGoes(t, p), ChaLike(p, q), p.bundle = q.bundle,
             p.now = now, p.pc \in {"guard", "model"}, p.kind \in ChaKinds,
             p.pc = "guard" =>
                \/ p.kind = "gmail" /\ q.kind = "calendar"
                \/ p.kind = "write" /\ q.kind = "gmail",
             p.pc = "model" => q.kind = "write",
             ChaAwaiting(ChaCleaned(q.kind, now), q.conv, q.kind) = {}
      PROVE  ChaIInv'
  <2>1. /\ p.conv \in ChaConvs /\ p.since <= p.now /\ p.now <= chaClock /\ ChaBundleOK(p)
        /\ p.message = "approve" => \A a \in p.offered :
              a \in chaTold /\ a \in ChaApprovals /\ chaIssued[a].conv = p.conv
    BY <1>1, <1>3, <1>6, ChaMoves
  <2>2. ChaMessageOK(p)
    BY <1>6, <2>1 DEF ChaMessageOK
  <2>3. ChaApprovalAt(p)
    BY <1>6 DEF ChaApprovalAt, ChaDeciding
  <2>4. ChaOfferedOK(p)
    <3>1. SUFFICES ASSUME p.message = "approve", NEW a \in p.offered,
                          chaIssued[a].kind \in ChaPassed(p)
                   PROVE  ChaDead(a)
      BY <2>1 DEF ChaOfferedOK
    <3>2. a \in chaTold /\ chaIssued[a].conv = q.conv /\ q.message = "approve" /\ a \in q.offered
      BY <1>6, <2>1, <3>1 DEF ChaLike
    <3>3. chaIssued[a].kind = q.kind \/ chaIssued[a].kind \in ChaPassed(q)
      BY <1>1, <1>6, <3>1, ChaKindsAre DEF ChaPassed
    <3>4. CASE chaIssued[a].kind = q.kind
      BY <1>1, <1>3, <1>6, <3>2, <3>4, ChaNothingAwaits
    <3>5. CASE chaIssued[a].kind \in ChaPassed(q)
      BY <1>1, <3>2, <3>5 DEF ChaThreadOK, ChaOfferedOK
    <3> QED
      BY <3>3, <3>4, <3>5
  <2>5. ChaThreadOK(p)
    BY <2>1, <2>2, <2>3, <2>4 DEF ChaThreadOK
  <2>6. \A d \in ChaDates : ~ChaBrings(p, d)
    BY <1>6 DEF ChaBrings
  <2> QED
    BY <1>1, <1>4, <1>6, <2>5, <2>6, ChaBindingSafe
<1>7. CASE q.kind = "write" /\ ChaStep(t, "model", now)
           /\ ChaAwaiting(ChaCleaned(q.kind, now), q.conv, q.kind) = {}
  <2>1. PICK p \in ChaThread :
          /\ ChaGoes(t, p) /\ p.pc = "model" /\ p.now = now /\ ChaLike(p, q)
          /\ p.kind = q.kind /\ p.bundle = q.bundle
    BY <1>1, <1>3, <1>7, ChaStepIs DEF ChaSteps
  <2> QED
    BY <1>1, <1>6, <1>7, <2>1
<1>8. CASE /\ q.kind # "write"
           /\ ChaAwaiting(ChaCleaned(q.kind, now), q.conv, q.kind) = {}
           /\ ChaGoes(t, [q EXCEPT !.now = now,
                    !.kind = IF q.kind = "calendar" THEN "gmail" ELSE "write"])
  <2>1. PICK kind \in ChaKinds : kind = IF q.kind = "calendar" THEN "gmail" ELSE "write"
    BY ChaKindsAre
  <2> DEFINE p == [q EXCEPT !.now = now, !.kind = kind]
  <2>2. p \in ChaThread
    BY <1>3 DEF ChaThread
  <2>3. p.now = now /\ p.kind = kind /\ ChaLike(p, q) /\ p.bundle = q.bundle /\ p.pc = q.pc
    BY DEF ChaLike, ChaThread
  <2>4. ChaGoes(t, p)
    BY <1>8, <2>1
  <2> HIDE DEF p
  <2>5. q.kind \in {"gmail", "calendar"}
    BY <1>1, <1>8, ChaKindsAre
  <2> QED
    BY <1>1, <1>6, <1>8, <2>1, <2>2, <2>3, <2>4, <2>5
<1> QED
  BY <1>2, <1>5, <1>7, <1>8

LEMMA ChaCheckSafe ==
    ASSUME ChaIInv, NEW t \in ChaThreads, ChaCheck(t)
    PROVE  ChaIInv'
<1> PICK q \in ChaThread : q = chaThreads[t]
  BY ChaThreadAt DEF ChaIInv
<1>1. /\ ChaTypeOK /\ ChaThreadOK(q) /\ q.pc \in {"look", "check"} /\ q.kind \in ChaKinds
      /\ UNCHANGED <<chaQuestions, chaPending, chaContext, chaWorld, chaHistory>>
  BY DEF ChaIInv, ChaCheck, ChaThreadOK, ChaMessageOK
<1>2. PICK now \in ChaInstants(t) :
        /\ chaBound' = ChaCleaned("write", now)
        /\ \/ ChaReply(t)
           \/ \E pc \in {"begin", "propose"} : ChaStep(t, pc, now)
  BY DEF ChaCheck
<1>3. now \in 0..ChaMaxTime /\ q.now <= now /\ now <= chaClock /\ now \in Nat
  BY <1>2, ChaInstantIs
<1>4. ChaBindingsEnd
  BY <1>1, <1>2, <1>3, ChaCleans
<1>5. CASE ChaReply(t)
  BY <1>1, <1>4, <1>5, ChaBindingReply
<1>6. ASSUME NEW pc \in {"begin", "propose"}, ChaStep(t, pc, now)
      PROVE  ChaIInv'
  <2>1. PICK p \in ChaThread :
          /\ ChaGoes(t, p) /\ p.pc = pc /\ p.now = now /\ ChaLike(p, q)
          /\ p.kind = q.kind /\ p.bundle = q.bundle
    BY <1>1, <1>3, <1>6, ChaStepIs DEF ChaSteps
  <2>2. ChaThreadOK(p)
    <3>1. /\ p.conv \in ChaConvs /\ p.since <= p.now /\ p.now <= chaClock /\ ChaBundleOK(p)
          /\ p.message = "approve" => \A a \in p.offered :
                a \in chaTold /\ a \in ChaApprovals /\ chaIssued[a].conv = p.conv
      BY <1>1, <1>3, <2>1, ChaMoves
    <3>2. ChaMessageOK(p)
      BY <1>1, <1>6, <2>1, <3>1 DEF ChaMessageOK
    <3>3. ChaApprovalAt(p)
      BY <1>6, <2>1 DEF ChaApprovalAt, ChaDeciding
    <3>4. ChaOfferedOK(p)
      BY <1>6, <2>1, <3>1 DEF ChaOfferedOK, ChaPassed
    <3> QED
      BY <3>1, <3>2, <3>3, <3>4 DEF ChaThreadOK
  <2>3. \A d \in ChaDates : ChaBrings(p, d) => ChaCarries(t, d)
    BY <1>1, <2>1 DEF ChaBrings, ChaCarries, ChaLike
  <2> QED
    BY <1>1, <1>4, <2>1, <2>2, <2>3, ChaBindingSafe
<1> QED
  BY <1>2, <1>5, <1>6

-----------------------------------------------------------------------------
(* ChatActions: the decisions.                                              *)

\* A thread goes on with the approval it has.
LEMMA ChaGoesOn ==
    ASSUME ChaIInv, NEW t \in ChaThreads, NEW p \in ChaThread, ChaLike(p, chaThreads[t]),
           p.kind = chaThreads[t].kind, p.bundle = chaThreads[t].bundle,
           chaThreads[t].pc \in ChaDeciding \cup {"bind"},
           p.pc \in ChaDeciding \cup {"finish"},
           chaThreads[t].now <= p.now, p.now <= chaClock
    PROVE  /\ ChaMessageOK(p) /\ ChaOfferedOK(p) /\ ChaBundleOK(p) /\ p.now <= chaClock
           /\ p.approval \in ChaApprovals /\ ChaIsIssued(p.approval)
           /\ chaIssued[p.approval].kind = p.kind /\ chaIssued[p.approval].conv = p.conv
           /\ \A d \in ChaDates : ~ChaBrings(p, d)
<1> PICK q \in ChaThread : q = chaThreads[t]
  BY ChaThreadAt DEF ChaIInv
<1>1. /\ ChaThreadOK(q) /\ ChaLike(p, q) /\ p.kind = q.kind
      /\ q.pc \in ChaDeciding \cup {"bind"} /\ q.pc # "idle" /\ p.pc # "idle"
  BY DEF ChaIInv, ChaDeciding
<1>2. /\ p.conv \in ChaConvs /\ p.since <= p.now /\ p.now <= chaClock /\ ChaBundleOK(p)
      /\ p.message = "approve" => \A a \in p.offered :
            a \in chaTold /\ a \in ChaApprovals /\ chaIssued[a].conv = p.conv
  BY <1>1, ChaMoves
<1>3. ChaMessageOK(p)
  BY <1>2 DEF ChaMessageOK, ChaDeciding
<1>4. ChaOfferedOK(p)
  BY <1>2 DEF ChaOfferedOK, ChaPassed, ChaDeciding
<1>5. /\ p.approval \in ChaApprovals /\ ChaIsIssued(p.approval)
      /\ chaIssued[p.approval].kind = p.kind /\ chaIssued[p.approval].conv = p.conv
  BY <1>1 DEF ChaThreadOK, ChaApprovalAt, ChaLike
<1>6. \A d \in ChaDates : ~ChaBrings(p, d)
  BY DEF ChaBrings, ChaDeciding
<1> QED
  BY <1>2, <1>3, <1>4, <1>5, <1>6

LEMMA ChaScopeSafe ==
    ASSUME ChaIInv, NEW t \in ChaThreads, ChaScope(t)
    PROVE  ChaIInv'
<1> PICK q \in ChaThread : q = chaThreads[t]
  BY ChaThreadAt DEF ChaIInv
<1>1. /\ ChaTypeOK /\ q.pc = "scope"
      /\ UNCHANGED <<chaQuestions, chaPending, chaContext, chaWorld, chaHistory>>
  BY DEF ChaIInv, ChaScope
<1>2. PICK now \in ChaInstants(t) :
        /\ chaBound' = ChaCleaned("write", now)
        /\ ChaReply(t) \/ ChaStep(t, "decide", now)
  BY DEF ChaScope
<1>3. now \in 0..ChaMaxTime /\ q.now <= now /\ now <= chaClock /\ now \in Nat
  BY <1>2, ChaInstantIs
<1>4. ChaBindingsEnd
  BY <1>1, <1>2, <1>3, ChaCleans
<1>5. CASE ChaReply(t)
  BY <1>1, <1>4, <1>5, ChaBindingReply
<1>6. CASE ChaStep(t, "decide", now)
  <2>1. PICK p \in ChaThread :
          /\ ChaGoes(t, p) /\ p.pc = "decide" /\ p.now = now /\ ChaLike(p, q)
          /\ p.kind = q.kind /\ p.bundle = q.bundle
    BY <1>1, <1>3, <1>6, ChaStepIs DEF ChaSteps
  <2>2. /\ ChaMessageOK(p) /\ ChaOfferedOK(p) /\ ChaBundleOK(p) /\ p.now <= chaClock
        /\ p.approval \in ChaApprovals /\ ChaIsIssued(p.approval)
        /\ chaIssued[p.approval].kind = p.kind /\ chaIssued[p.approval].conv = p.conv
        /\ \A d \in ChaDates : ~ChaBrings(p, d)
    BY <1>1, <1>3, <2>1, ChaGoesOn DEF ChaDeciding
  <2>3. ChaThreadOK(p)
    BY <2>1, <2>2 DEF ChaThreadOK, ChaApprovalAt
  <2> QED
    BY <1>1, <1>4, <2>1, <2>2, <2>3, ChaBindingSafe
<1> QED
  BY <1>2, <1>5, <1>6

LEMMA ChaTakeSafe ==
    ASSUME ChaIInv, NEW t \in ChaThreads, ChaTake(t)
    PROVE  ChaIInv'
<1> PICK q \in ChaThread : q = chaThreads[t]
  BY ChaThreadAt DEF ChaIInv
<1> PICK a : a = q.approval
  OBVIOUS
<1>1. /\ ChaTypeOK /\ ChaThreadOK(q) /\ q.pc = "decide" /\ a \in ChaApprovals
      /\ UNCHANGED <<chaQuestions, chaContext, chaWorld, chaHistory>>
  BY DEF ChaIInv, ChaTake, ChaThreadOK, ChaApprovalAt, ChaDeciding
<1>2. PICK now \in ChaInstants(t) :
        /\ chaBound' = (IF q.kind = "write" THEN ChaCleaned("write", now) ELSE chaBound)
        /\ \/ ChaReply(t) /\ UNCHANGED chaPending
           \/ /\ chaPending' = [chaPending EXCEPT ![a] = ChaGone]
              /\ \/ ChaReply(t) \/ ChaStep(t, "read", now) \/ ChaStep(t, "complete", now)
  BY DEF ChaTake
<1>3. now \in 0..ChaMaxTime /\ q.now <= now /\ now <= chaClock /\ now \in Nat
  BY <1>2, ChaInstantIs
<1>4. ChaGone \in ChaDeadlines
  BY ChaBounds DEF ChaDeadlines
<1>5. /\ chaPending' \in [ChaApprovals -> ChaDeadlines]
      /\ \A b \in ChaApprovals : chaPending'[b] \in {chaPending[b], ChaGone}
  BY <1>1, <1>2, <1>4 DEF ChaTypeOK
<1>6. ChaBindingsEnd
  <2>1. CASE chaBound' = ChaCleaned("write", now)
    BY <1>3, <1>5, <2>1, ChaCleanedIs DEF ChaBindingsEnd
  <2>2. CASE chaBound' = chaBound
    BY <1>1, <1>5, <2>2 DEF ChaBindingsEnd, ChaTypeOK
  <2> QED
    BY <1>2, <2>1, <2>2
<1>7. CASE ChaReply(t)
  BY <1>1, <1>6, <1>7, ChaBindingReply
<1>8. ASSUME NEW pc \in {"read", "complete"}, ChaStep(t, pc, now),
             chaPending' = [chaPending EXCEPT ![a] = ChaGone]
      PROVE  ChaIInv'
  <2>1. PICK p \in ChaThread :
          /\ ChaGoes(t, p) /\ p.pc = pc /\ p.now = now /\ ChaLike(p, q)
          /\ p.kind = q.kind /\ p.bundle = q.bundle
    BY <1>1, <1>3, <1>8, ChaStepIs DEF ChaSteps
  <2>2. /\ ChaMessageOK(p) /\ ChaOfferedOK(p) /\ ChaBundleOK(p) /\ p.now <= chaClock
        /\ p.approval \in ChaApprovals /\ ChaIsIssued(p.approval)
        /\ chaIssued[p.approval].kind = p.kind /\ chaIssued[p.approval].conv = p.conv
        /\ \A d \in ChaDates : ~ChaBrings(p, d)
    BY <1>1, <1>3, <2>1, ChaGoesOn DEF ChaDeciding
  <2>3. /\ UNCHANGED <<chaIssued, chaTold, chaRead, chaClock>> /\ p.approval = a
        /\ chaPending'[a] = ChaGone
    BY <1>1, <1>8, <2>1 DEF chaHistory, chaWorld, ChaLike, ChaTypeOK
  <2>4. ChaMessageOK(p)' /\ ChaBundleOK(p)' /\ p.now <= chaClock'
    BY <2>2, <2>3 DEF ChaMessageOK, ChaBundleOK
  <2>5. ChaOfferedOK(p)'
    BY <2>1, <2>2, <2>3 DEF ChaOfferedOK, ChaPassed
  <2>6. ChaApprovalAt(p)'
    BY <2>1, <2>2, <2>3 DEF ChaApprovalAt, ChaIsIssued
  <2>7. ChaThreadOK(p)'
    BY <2>4, <2>5, <2>6 DEF ChaThreadOK
  <2> QED
    BY <1>1, <1>6, <2>1, <2>2, <2>7, ChaBindingSafe
<1> QED
  BY <1>2, <1>7, <1>8

LEMMA ChaCompleteSafe ==
    ASSUME ChaIInv, NEW t \in ChaThreads, ChaComplete(t)
    PROVE  ChaIInv'
<1> PICK q \in ChaThread : q = chaThreads[t]
  BY ChaThreadAt DEF ChaIInv
<1> PICK a : a = q.approval
  OBVIOUS
<1>1. /\ ChaTypeOK /\ q.pc = "complete" /\ a \in ChaApprovals /\ ChaDead(a)
      /\ UNCHANGED <<chaQuestions, chaPending, chaContext, chaWorld, chaHistory>>
  BY DEF ChaIInv, ChaComplete, ChaThreadOK, ChaApprovalAt, ChaDeciding, ChaDead
<1>2. PICK now \in ChaInstants(t) :
        /\ chaBound' = [ChaCleaned(q.kind, now) EXCEPT ![a] = ChaGone]
        /\ ChaReply(t) \/ ChaStep(t, "answer", now)
  BY DEF ChaComplete
<1>3. now \in 0..ChaMaxTime /\ q.now <= now /\ now <= chaClock /\ now \in Nat
  BY <1>2, ChaInstantIs
<1>4. ChaBindingsEnd
  <2>1. ChaGone \in ChaDeadlines
    BY ChaBounds DEF ChaDeadlines
  <2> DEFINE kept == ChaCleaned(q.kind, now)
  <2>2. /\ kept \in [ChaApprovals -> ChaDeadlines]
        /\ \A b \in ChaApprovals : kept[b] = chaBound[b] \/ (kept[b] = ChaGone /\ ChaDead(b))
    BY <1>3, ChaCleanedIs
  <2>3. chaBound' = [kept EXCEPT ![a] = ChaGone]
    BY <1>2
  <2> HIDE DEF kept
  <2> QED
    BY <1>1, <2>1, <2>2, <2>3 DEF ChaBindingsEnd, ChaTypeOK
<1>5. CASE ChaReply(t)
  BY <1>1, <1>4, <1>5, ChaBindingReply
<1>6. CASE ChaStep(t, "answer", now)
  <2>1. PICK p \in ChaThread :
          /\ ChaGoes(t, p) /\ p.pc = "answer" /\ p.now = now /\ ChaLike(p, q)
          /\ p.kind = q.kind /\ p.bundle = q.bundle
    BY <1>1, <1>3, <1>6, ChaStepIs DEF ChaSteps
  <2>2. /\ ChaMessageOK(p) /\ ChaOfferedOK(p) /\ ChaBundleOK(p) /\ p.now <= chaClock
        /\ p.approval \in ChaApprovals /\ ChaIsIssued(p.approval)
        /\ chaIssued[p.approval].kind = p.kind /\ chaIssued[p.approval].conv = p.conv
        /\ \A d \in ChaDates : ~ChaBrings(p, d)
    BY <1>1, <1>3, <2>1, ChaGoesOn DEF ChaDeciding
  <2>3. ChaThreadOK(p)
    BY <2>1, <2>2 DEF ChaThreadOK, ChaApprovalAt
  <2> QED
    BY <1>1, <1>4, <2>1, <2>2, <2>3, ChaBindingSafe
<1> QED
  BY <1>2, <1>5, <1>6

LEMMA ChaBindSafe ==
    ASSUME ChaIInv, NEW t \in ChaThreads, ChaBind(t)
    PROVE  ChaIInv'
<1> PICK q \in ChaThread : q = chaThreads[t]
  BY ChaThreadAt DEF ChaIInv
<1> PICK a : a = q.approval
  OBVIOUS
<1>1. /\ ChaTypeOK /\ q.pc = "bind" /\ a \in ChaApprovals /\ ChaIsIssued(a)
      /\ UNCHANGED <<chaQuestions, chaContext, chaWorld, chaHistory>>
      /\ chaPending \in [ChaApprovals -> ChaDeadlines]
      /\ chaIssued[a].expires \in ChaDeadlines /\ chaIssued[a].expires # ChaGone
  BY ChaIssueIs, ChaBounds DEF ChaIInv, ChaBind, ChaThreadOK, ChaApprovalAt, ChaTypeOK
<1>2. PICK now \in ChaInstants(t) :
        \/ /\ chaBound' = [ChaCleaned(q.kind, now) EXCEPT ![a] = chaIssued[a].expires]
           /\ ChaStep(t, "finish", now)
           /\ UNCHANGED chaPending
        \/ /\ chaBound' = ChaCleaned(q.kind, now)
           /\ chaPending' = (IF q.kind # "write" THEN chaPending
                             ELSE [chaPending EXCEPT ![a] = ChaGone])
           /\ ChaReply(t)
  BY DEF ChaBind
<1>3. now \in 0..ChaMaxTime /\ q.now <= now /\ now <= chaClock /\ now \in Nat
  BY <1>2, ChaInstantIs
<1> DEFINE kept == ChaCleaned(q.kind, now)
<1>4. /\ kept \in [ChaApprovals -> ChaDeadlines]
      /\ \A b \in ChaApprovals : kept[b] = chaBound[b] \/ (kept[b] = ChaGone /\ ChaDead(b))
  BY <1>3, ChaCleanedIs
<1>5. ChaGone \in ChaDeadlines
  BY ChaBounds DEF ChaDeadlines
<1>6. CASE /\ chaBound' = kept
           /\ chaPending' = (IF q.kind # "write" THEN chaPending
                             ELSE [chaPending EXCEPT ![a] = ChaGone])
           /\ ChaReply(t)
  <2> HIDE DEF kept
  <2>1. /\ chaPending' \in [ChaApprovals -> ChaDeadlines]
        /\ \A b \in ChaApprovals : chaPending'[b] \in {chaPending[b], ChaGone}
    BY <1>1, <1>5, <1>6
  <2>2. ChaBindingsEnd
    BY <1>4, <1>6, <2>1 DEF ChaBindingsEnd
  <2> QED
    BY <1>1, <1>6, <2>2, ChaBindingReply
<1>7. CASE /\ chaBound' = [kept EXCEPT ![a] = chaIssued[a].expires]
           /\ ChaStep(t, "finish", now)
           /\ UNCHANGED chaPending
  <2> HIDE DEF kept
  <2>1. ChaBindingsEnd /\ chaBound'[a] # ChaGone
    BY <1>1, <1>4, <1>7 DEF ChaBindingsEnd
  <2>2. PICK p \in ChaThread :
          /\ ChaGoes(t, p) /\ p.pc = "finish" /\ p.now = now /\ ChaLike(p, q)
          /\ p.kind = q.kind /\ p.bundle = q.bundle
    BY <1>1, <1>3, <1>7, ChaStepIs DEF ChaSteps
  <2>3. /\ ChaMessageOK(p) /\ ChaOfferedOK(p) /\ ChaBundleOK(p) /\ p.now <= chaClock
        /\ p.approval \in ChaApprovals /\ ChaIsIssued(p.approval)
        /\ chaIssued[p.approval].kind = p.kind /\ chaIssued[p.approval].conv = p.conv
        /\ \A d \in ChaDates : ~ChaBrings(p, d)
    BY <1>1, <1>3, <2>2, ChaGoesOn DEF ChaDeciding
  <2>4. UNCHANGED <<chaIssued, chaTold, chaRead, chaClock>> /\ p.approval = a
    BY <1>1, <2>2 DEF chaHistory, chaWorld, ChaLike
  <2>5. ChaMessageOK(p)' /\ ChaBundleOK(p)' /\ p.now <= chaClock'
    BY <2>3, <2>4 DEF ChaMessageOK, ChaBundleOK
  <2>6. ChaOfferedOK(p)'
    BY <2>2, <2>3, <2>4 DEF ChaOfferedOK, ChaPassed
  <2>7. ChaApprovalAt(p)'
    BY <2>1, <2>2, <2>3, <2>4 DEF ChaApprovalAt, ChaIsIssued, ChaTracked
  <2>8. ChaThreadOK(p)'
    BY <2>5, <2>6, <2>7 DEF ChaThreadOK
  <2> QED
    BY <1>1, <2>1, <2>2, <2>3, <2>8, ChaBindingSafe
<1> QED
  BY <1>2, <1>6, <1>7

\* The approval is prepared under a new id.
LEMMA ChaIssuedFor ==
    ASSUME ChaIInv, NEW t \in ChaThreads, NEW q \in ChaThread, q = chaThreads[t],
           q.pc = "propose", NEW now \in 0..ChaMaxTime, q.now <= now, now <= chaClock,
           NEW a \in ChaApprovals, chaIssued[a] = ChaUnissued, NEW p \in ChaThread,
           ChaGoes(t, p), p.pc = "bind", p.approval = a, p.now = now, p.kind = q.kind,
           p.conv = q.conv, p.message = q.message, p.since = q.since,
           p.offered = q.offered, p.bundle = q.bundle,
           NEW i \in ChaIssue, i.kind = q.kind, i.conv = q.conv, i.date = q.date,
           i.expires = now + ChaApprovalTTL,
           chaIssued' = [chaIssued EXCEPT ![a] = i],
           chaPending' = [chaPending EXCEPT ![a] = i.expires],
           UNCHANGED <<chaQuestions, chaBound, chaContext, chaWorld, chaTold, chaAnswered, chaRead>>
    PROVE  ChaIInv'
<1>1. /\ ChaTypeOK /\ ChaStoresOK /\ ChaContextOK /\ ChaThreadOK(q)
      /\ UNCHANGED <<chaClock, chaLive, chaTurns>> /\ ~ChaIsIssued(a)
      /\ q.kind \in ChaKinds /\ q.conv \in ChaConvs
  BY ChaUnissuedIs, ChaKindsAre DEF ChaIInv, chaWorld, ChaIsIssued, ChaThreadOK, ChaMessageOK
<1>2. i.expires \in ChaDeadlines
  BY ChaBounds DEF ChaDeadlines
<1>3. /\ chaIssued' \in [ChaApprovals -> ChaIssue] /\ chaIssued'[a] = i
      /\ chaPending' \in [ChaApprovals -> ChaDeadlines] /\ chaPending'[a] = i.expires
      /\ \A b \in ChaApprovals \ {a} : chaIssued'[b] = chaIssued[b] /\ chaPending'[b] = chaPending[b]
  BY <1>1, <1>2 DEF ChaTypeOK
<1>4. ChaStoreTypes'
  BY <1>1, <1>3, ChaTypeIs DEF ChaStoreTypes
<1>5. ASSUME NEW b \in ChaApprovals, ChaIsIssued(b)
      PROVE  b # a /\ chaIssued'[b] = chaIssued[b] /\ chaPending'[b] = chaPending[b]
  BY <1>1, <1>3, <1>5
<1>6. ChaGrows
  <2>1. chaClock <= chaClock'
    BY <1>1, ChaBounds DEF ChaTypeOK
  <2>2. \A b \in ChaApprovals : ChaTracked(b) => ChaTracked(b)'
    BY <1>1, <1>5 DEF ChaTracked, ChaIsIssued, ChaDead
  <2> QED
    BY <1>5, <2>1, <2>2 DEF ChaGrows
<1>7. ChaStoresOK'
  <2>1. ASSUME NEW b \in ChaApprovals PROVE ChaApprovalOK(b)'
    <3>1. ChaApprovalOK(b)
      BY <1>1 DEF ChaStoresOK
    <3>2. CASE b = a
      BY <1>1, <1>3, <3>1, <3>2 DEF ChaApprovalOK, ChaIsIssued
    <3>3. CASE b # a
      BY <1>3, <3>1, <3>3 DEF ChaApprovalOK, ChaIsIssued
    <3> QED
      BY <3>2, <3>3
  <2>2. \A b \in chaTold : b \in ChaApprovals /\ ChaTracked(b)'
    BY <1>1, <1>6 DEF ChaStoresOK, ChaTypeOK, ChaGrows
  <2>3. \A b \in chaRead : ChaIsIssued(b)'
    BY <1>1, <1>5 DEF ChaStoresOK, ChaTypeOK, ChaIsIssued
  <2> QED
    BY <2>1, <2>2, <2>3 DEF ChaStoresOK
<1>8. ChaContextOK'
  BY <1>1, <1>6, ChaContextStays
<1>9. ChaThreadOK(p)'
  <2>1. ChaMessageOK(p)'
    BY <1>1, ChaThreadIs, ChaBounds DEF ChaThreadOK, ChaMessageOK
  <2>2. ChaApprovalAt(p)'
    BY <1>1, <1>3 DEF ChaApprovalAt, ChaIsIssued
  <2>3. \A b \in q.offered : q.message = "approve" =>
          b \in chaTold /\ chaIssued[b].conv = q.conv /\ b \in ChaApprovals /\ ChaIsIssued(b)
    BY <1>1, ChaThreadIs DEF ChaThreadOK, ChaOfferedOK, ChaStoresOK, ChaTracked
  <2>4. ChaOfferedOK(p)'
    BY <1>5, <2>3 DEF ChaOfferedOK, ChaPassed
  <2>5. \A r \in q.bundle : r.by \in chaRead /\ r.by \in ChaApprovals /\ ChaIsIssued(r.by)
    BY <1>1 DEF ChaThreadOK, ChaBundleOK, ChaStoresOK, ChaTypeOK
  <2>6. \A r \in q.bundle : chaIssued'[r.by] = chaIssued[r.by]
    BY <1>5, <2>5
  <2>7. ChaBundleOK(p)'
    BY <1>1, <2>6 DEF ChaThreadOK, ChaBundleOK
  <2> QED
    BY <1>1, <2>1, <2>2, <2>4, <2>7 DEF ChaThreadOK
<1>10. ASSUME NEW d \in ChaDates PROVE ChaDateOK(d)'
  <2>1. ChaDateOK(d) /\ d # ChaNone /\ chaIssued[a].date # d
    BY ChaUnissuedIs, ChaBounds DEF ChaIInv
  <2>2. \A s \in ChaThreads : ChaCarries(s, d)' => s # t /\ ChaCarries(s, d)
    BY <1>1, ChaGoesIs DEF ChaCarries, ChaBrings
  <2>3. CASE q.date = d
    <3>1. ChaCarries(t, d)
      BY <2>3 DEF ChaCarries, ChaBrings
    <3>2. /\ chaAnswered[d] = <<"confirmed">>
          /\ \A s \in ChaThreads : ChaCarries(s, d) => s = t
          /\ \A b \in ChaApprovals : chaIssued[b].date # d
      BY <2>1, <3>1 DEF ChaDateOK
    <3>3. \A c \in ChaConvs : chaQuestions[c].date # d
      BY <2>1, <3>2 DEF ChaDateOK
    <3>4. \A b \in ChaApprovals : chaIssued'[b].date = d => b = a
      BY <1>3, <3>2
    <3> QED
      BY <2>2, <3>2, <3>3, <3>4 DEF ChaDateOK
  <2>4. CASE q.date # d
    <3>1. \A b \in ChaApprovals : chaIssued'[b].date = d => chaIssued[b].date = d
      BY <1>3, <2>4
    <3>2. \A b \in ChaApprovals : chaIssued[b].date = d => chaIssued'[b].date = d
      BY <1>3, <2>1
    <3> QED
      BY <2>1, <2>2, <3>1, <3>2 DEF ChaDateOK
  <2> QED
    BY <2>3, <2>4
<1> QED
  BY <1>4, <1>6, <1>7, <1>8, <1>9, <1>10, ChaCombine

LEMMA ChaProposeSafe ==
    ASSUME ChaIInv, NEW t \in ChaThreads, ChaPropose(t)
    PROVE  ChaIInv'
<1> PICK q \in ChaThread : q = chaThreads[t]
  BY ChaThreadAt DEF ChaIInv
<1>1. /\ ChaTypeOK /\ ChaThreadOK(q) /\ q.pc = "propose"
      /\ q.kind \in ChaKinds /\ q.conv \in ChaConvs
      /\ UNCHANGED <<chaQuestions, chaBound, chaContext, chaWorld, chaTold, chaAnswered, chaRead>>
  BY DEF ChaIInv, ChaPropose, ChaThreadOK, ChaMessageOK
<1>2. CASE ChaReply(t) /\ UNCHANGED <<chaPending, chaIssued>>
  BY <1>1, <1>2, ChaReplySafe DEF chaStores, chaHistory
<1>3. ASSUME NEW now \in ChaInstants(t), NEW a \in ChaApprovals,
             chaIssued[a] = ChaUnissued,
             chaIssued' = [chaIssued EXCEPT ![a] = [kind |-> q.kind, conv |-> q.conv,
                      date |-> q.date, expires |-> now + ChaApprovalTTL]],
             chaPending' = [chaPending EXCEPT ![a] = now + ChaApprovalTTL],
             ChaGoes(t, [q EXCEPT !.pc = "bind", !.approval = a, !.now = now])
      PROVE  ChaIInv'
  <2> DEFINE p == [q EXCEPT !.pc = "bind", !.approval = a, !.now = now]
             i == [kind |-> q.kind, conv |-> q.conv,
                   date |-> q.date, expires |-> now + ChaApprovalTTL]
  <2>1. now \in 0..ChaMaxTime /\ q.now <= now /\ now <= chaClock
    BY ChaInstantIs
  <2>2. /\ p.pc = "bind" /\ p.approval = a /\ p.now = now /\ p.kind = q.kind
        /\ p.conv = q.conv /\ p.message = q.message /\ p.since = q.since
        /\ p.offered = q.offered /\ p.bundle = q.bundle
    BY DEF ChaThread
  <2>3. p \in ChaThread
    <3>1. "bind" \in ChaSteps /\ a \in ChaApprovals \cup {ChaNone}
      BY DEF ChaSteps
    <3> QED
      BY <2>1, <3>1 DEF ChaThread
  <2>4. /\ i \in ChaIssue /\ i.kind = q.kind /\ i.conv = q.conv /\ i.date = q.date
        /\ i.expires = now + ChaApprovalTTL
    <3>1. now + ChaApprovalTTL \in 0..(ChaMaxTime + ChaApprovalTTL)
      BY <2>1, ChaBounds
    <3>2. q.date \in ChaDates \cup {ChaNone}
      BY ChaThreadIs
    <3> QED
      BY <1>1, <3>1, <3>2 DEF ChaIssue
  <2>5. /\ ChaGoes(t, p) /\ chaIssued' = [chaIssued EXCEPT ![a] = i]
        /\ chaPending' = [chaPending EXCEPT ![a] = i.expires]
    BY <1>3
  <2>6. chaIssued[a] = ChaUnissued
    BY <1>3
  <2> HIDE DEF p, i
  <2> QED
    BY <1>1, <2>1, <2>2, <2>3, <2>4, <2>5, <2>6, ChaIssuedFor
<1> QED
  BY <1>2, <1>3 DEF ChaPropose

-----------------------------------------------------------------------------
(* ChatActions: what is told, read, and kept for an analysis.               *)

LEMMA ChaRecorded ==
    ASSUME ChaIInv, NEW t \in ChaThreads, NEW q \in ChaThread, ChaGoes(t, q), ChaThreadOK(q),
           UNCHANGED <<chaStores, chaWorld, chaIssued, chaAnswered>>,
           chaTold \subseteq chaTold', chaRead \subseteq chaRead',
           \A a \in chaTold' : a \in ChaApprovals /\ ChaTracked(a),
           \A a \in chaRead' : a \in ChaApprovals /\ ChaIsIssued(a),
           \A d \in ChaDates : ~ChaBrings(q, d)
    PROVE  ChaIInv'
<1>1. /\ UNCHANGED <<chaQuestions, chaPending, chaBound, chaContext, chaClock, chaLive, chaTurns>>
      /\ ChaTypeOK /\ ChaStoresOK /\ ChaContextOK
  BY DEF chaStores, chaWorld, ChaIInv
<1>2. ChaStoreTypes'
  BY <1>1, ChaTypeIs DEF ChaStoreTypes
<1>3. ChaGrows
  BY <1>1 DEF ChaGrows, ChaTracked, ChaIsIssued, ChaDead, ChaTypeOK
<1>4. ChaStoresOK'
  BY <1>1 DEF ChaStoresOK, ChaApprovalOK, ChaTracked, ChaIsIssued, ChaDead
<1>5. ChaContextOK' /\ ChaThreadOK(q)'
  BY <1>1, <1>2, <1>3, ChaContextStays, ChaThreadStays
<1>6. \A d \in ChaDates : ChaDateOK(d)'
  BY <1>1, ChaDatesSteady
<1> QED
  BY <1>2, <1>3, <1>4, <1>5, <1>6, ChaCombine

LEMMA ChaFinishSafe ==
    ASSUME ChaIInv, NEW t \in ChaThreads, ChaFinish(t)
    PROVE  ChaIInv'
<1>1. /\ ChaGoes(t, ChaIdle) /\ ChaIdle \in ChaThread /\ ChaThreadOK(ChaIdle)
      /\ \A d \in ChaDates : ~ChaBrings(ChaIdle, d)
  BY ChaIdleIs, ChaIdleOK DEF ChaFinish, ChaReply, ChaIInv, ChaBrings
<1>2. /\ UNCHANGED <<chaStores, chaWorld, chaIssued, chaAnswered, chaRead>>
      /\ chaTold' \in {chaTold, chaTold \cup {chaThreads[t].approval}}
  BY DEF ChaFinish
<1>3. /\ chaThreads[t].approval \in ChaApprovals /\ ChaTracked(chaThreads[t].approval)
  BY DEF ChaIInv, ChaFinish, ChaThreadOK, ChaApprovalAt
<1>4. /\ \A a \in chaTold : a \in ChaApprovals /\ ChaTracked(a)
      /\ \A a \in chaRead : a \in ChaApprovals /\ ChaIsIssued(a)
  BY DEF ChaIInv, ChaStoresOK, ChaTypeOK
<1> QED
  BY <1>1, <1>2, <1>3, <1>4, ChaRecorded

LEMMA ChaRunSafe ==
    ASSUME ChaIInv, NEW t \in ChaThreads, ChaRun(t)
    PROVE  ChaIInv'
<1> PICK q \in ChaThread : q = chaThreads[t]
  BY ChaThreadAt DEF ChaIInv
<1>1. /\ ChaTypeOK /\ ChaThreadOK(q) /\ q.pc = "read" /\ q.now \in 0..ChaMaxTime
      /\ UNCHANGED <<chaStores, chaWorld, chaIssued, chaTold, chaAnswered>>
      /\ chaRead' \in {chaRead, chaRead \cup {q.approval}}
  BY ChaThreadIs, ChaBounds DEF ChaIInv, ChaRun
<1>2. PICK p \in ChaThread :
        /\ ChaGoes(t, p) /\ p.pc = "complete" /\ p.now = q.now /\ ChaLike(p, q)
        /\ p.kind = q.kind /\ p.bundle = q.bundle
  BY <1>1, ChaStepIs DEF ChaSteps, ChaRun
<1>3. /\ ChaMessageOK(p) /\ ChaOfferedOK(p) /\ ChaBundleOK(p) /\ p.now <= chaClock
      /\ p.approval \in ChaApprovals /\ ChaIsIssued(p.approval)
      /\ chaIssued[p.approval].kind = p.kind /\ chaIssued[p.approval].conv = p.conv
      /\ \A d \in ChaDates : ~ChaBrings(p, d)
  <2>1. q.now <= chaClock /\ q.now <= p.now /\ p.now <= chaClock
    BY <1>1, <1>2, ChaThreadIs DEF ChaThreadOK
  <2> QED
    BY <1>1, <1>2, <2>1, ChaGoesOn DEF ChaDeciding
<1>4. p.approval = q.approval /\ chaPending[p.approval] = ChaGone
  BY <1>1, <1>2 DEF ChaThreadOK, ChaApprovalAt, ChaLike
<1>5. ChaThreadOK(p)
  BY <1>2, <1>3, <1>4 DEF ChaThreadOK, ChaApprovalAt
<1>6. /\ \A a \in chaTold : a \in ChaApprovals /\ ChaTracked(a)
      /\ \A a \in chaRead : a \in ChaApprovals /\ ChaIsIssued(a)
  BY DEF ChaIInv, ChaStoresOK, ChaTypeOK
<1> QED
  BY <1>1, <1>2, <1>3, <1>4, <1>5, <1>6, ChaRecorded

LEMMA ChaKept ==
    ASSUME ChaIInv, NEW t \in ChaThreads, NEW q \in ChaThread, ChaGoes(t, q), ChaThreadOK(q),
           UNCHANGED <<chaQuestions, chaPending, chaBound, chaWorld, chaHistory>>,
           chaContext' \in [ChaConvs -> [ChaSources -> ChaResult]],
           \A c \in ChaConvs, s \in ChaSources :
              \/ chaContext'[c][s] \in {chaContext[c][s], ChaNoResult}
              \/ /\ chaContext'[c][s].by \in chaRead
                 /\ chaIssued[chaContext'[c][s].by].conv = c
                 /\ chaIssued[chaContext'[c][s].by].kind = s,
           \A d \in ChaDates : ~ChaBrings(q, d)
    PROVE  ChaIInv'
<1>1. /\ UNCHANGED <<chaClock, chaLive, chaTurns, chaIssued, chaTold, chaAnswered, chaRead>>
      /\ ChaTypeOK /\ ChaStoresOK /\ ChaContextOK
  BY DEF chaHistory, chaWorld, ChaIInv
<1>2. ChaStoreTypes'
  BY <1>1, ChaTypeIs DEF ChaStoreTypes
<1>3. ChaGrows
  BY <1>1 DEF ChaGrows, ChaTracked, ChaIsIssued, ChaDead, ChaTypeOK
<1>4. ChaStoresOK'
  BY <1>1 DEF ChaStoresOK, ChaApprovalOK, ChaTracked, ChaIsIssued, ChaDead
<1>5. ChaThreadOK(q)'
  BY <1>1, <1>2, <1>3, ChaThreadStays
<1>6. ChaContextOK'
  <2>1. SUFFICES ASSUME NEW c \in ChaConvs, NEW s \in ChaSources, NEW r,
                        r = chaContext'[c][s], r # ChaNoResult
                 PROVE  r.by \in chaRead' /\ chaIssued'[r.by].conv = c
                        /\ chaIssued'[r.by].kind = s
    BY DEF ChaContextOK
  <2>2. CASE r = chaContext[c][s]
    BY <1>1, <2>1, <2>2 DEF ChaContextOK
  <2>3. CASE r # chaContext[c][s]
    BY <1>1, <2>1, <2>3
  <2> QED
    BY <2>2, <2>3
<1>7. \A d \in ChaDates : ChaDateOK(d)'
  BY <1>1, ChaDatesSteady
<1> QED
  BY <1>2, <1>3, <1>4, <1>5, <1>6, <1>7, ChaCombine

LEMMA ChaFreshIs ==
    ASSUME ChaIInv, NEW now \in 0..ChaMaxTime
    PROVE  /\ ChaFresh(now) \in [ChaConvs -> [ChaSources -> ChaResult]]
           /\ \A c \in ChaConvs, s \in ChaSources :
                 /\ ChaFresh(now)[c][s] \in {chaContext[c][s], ChaNoResult}
                 /\ ChaFresh(now)[c][s] # ChaNoResult => now < chaContext[c][s].expires
<1>1. chaContext \in [ChaConvs -> [ChaSources -> ChaResult]]
  BY DEF ChaIInv, ChaTypeOK
<1>2. ChaNoResult \in ChaResult
  BY ChaBounds DEF ChaNoResult, ChaResult
<1>3. \A c \in ChaConvs, s \in ChaSources :
        chaContext[c][s] \in ChaResult /\ chaContext[c][s].expires \in Int
  BY <1>1, ChaBounds DEF ChaResult
<1>4. \A c \in ChaConvs, s \in ChaSources : ChaFresh(now)[c][s] =
        IF now >= chaContext[c][s].expires THEN ChaNoResult ELSE chaContext[c][s]
  BY DEF ChaFresh
<1>5. \A c \in ChaConvs : ChaFresh(now)[c] \in [ChaSources -> ChaResult]
  BY <1>2, <1>3 DEF ChaFresh
<1>6. ChaFresh(now) \in [ChaConvs -> [ChaSources -> ChaResult]]
  BY <1>5 DEF ChaFresh
<1>7. now \in Int
  BY ChaBounds
<1> QED
  BY <1>3, <1>4, <1>6, <1>7

LEMMA ChaCaptureSafe ==
    ASSUME ChaIInv, NEW t \in ChaThreads, ChaCapture(t)
    PROVE  ChaIInv'
<1> PICK q \in ChaThread : q = chaThreads[t]
  BY ChaThreadAt DEF ChaIInv
<1>1. /\ ChaTypeOK /\ q.pc = "capture" /\ q.kind \in ChaSources /\ q.approval \in chaRead
      /\ q.approval \in ChaApprovals /\ q.conv \in ChaConvs
      /\ chaIssued[q.approval].kind = q.kind /\ chaIssued[q.approval].conv = q.conv
      /\ UNCHANGED <<chaQuestions, chaPending, chaBound, chaWorld, chaHistory>>
  BY DEF ChaIInv, ChaCapture, ChaThreadOK, ChaApprovalAt, ChaMessageOK, ChaDeciding
<1>2. /\ ChaGoes(t, ChaIdle) /\ ChaIdle \in ChaThread /\ ChaThreadOK(ChaIdle)
      /\ \A d \in ChaDates : ~ChaBrings(ChaIdle, d)
  BY <1>1, ChaIdleIs, ChaIdleOK DEF ChaCapture, ChaReply, ChaBrings
<1>3. PICK now \in ChaInstants(t) :
        \/ chaContext' = ChaFresh(now)
        \/ chaContext' = [ChaFresh(now) EXCEPT ![q.conv][q.kind] =
                    [by |-> q.approval, expires |-> now + ChaContextTTL]]
  BY DEF ChaCapture
<1>4. now \in 0..ChaMaxTime
  BY <1>3, ChaInstantIs
<1> DEFINE fresh == ChaFresh(now)
           result == [by |-> q.approval, expires |-> now + ChaContextTTL]
<1>5. /\ fresh \in [ChaConvs -> [ChaSources -> ChaResult]]
      /\ \A c \in ChaConvs, s \in ChaSources : fresh[c][s] \in {chaContext[c][s], ChaNoResult}
  BY <1>4, ChaFreshIs
<1>6. result \in ChaResult /\ result.by = q.approval
  <2>1. now + ChaContextTTL \in 0..(ChaMaxTime + ChaContextTTL)
    BY <1>4, ChaBounds
  <2> QED
    BY <1>1, <2>1 DEF ChaResult
<1>7. chaContext' = fresh \/ chaContext' = [fresh EXCEPT ![q.conv][q.kind] = result]
  BY <1>3
<1> HIDE DEF fresh, result
<1>8. /\ chaContext' \in [ChaConvs -> [ChaSources -> ChaResult]]
      /\ \A c \in ChaConvs, s \in ChaSources :
            \/ chaContext'[c][s] = fresh[c][s]
            \/ chaContext'[c][s] = result /\ c = q.conv /\ s = q.kind
  <2>1. CASE chaContext' = fresh
    BY <1>5, <2>1
  <2>2. CASE chaContext' = [fresh EXCEPT ![q.conv][q.kind] = result]
    <3> DEFINE row == [fresh[q.conv] EXCEPT ![q.kind] = result]
    <3>1. fresh[q.conv] \in [ChaSources -> ChaResult]
      BY <1>1, <1>5
    <3>2. /\ row \in [ChaSources -> ChaResult] /\ row[q.kind] = result
          /\ \A s \in ChaSources \ {q.kind} : row[s] = fresh[q.conv][s]
      BY <1>1, <1>6, <3>1
    <3>3. chaContext' = [fresh EXCEPT ![q.conv] = row]
      BY <2>2
    <3> HIDE DEF row
    <3>4. /\ chaContext' \in [ChaConvs -> [ChaSources -> ChaResult]]
          /\ chaContext'[q.conv] = row
          /\ \A c \in ChaConvs \ {q.conv} : chaContext'[c] = fresh[c]
      BY <1>1, <1>5, <3>2, <3>3
    <3> QED
      BY <3>2, <3>4
  <2> QED
    BY <1>7, <2>1, <2>2
<1> QED
  BY <1>1, <1>2, <1>5, <1>6, <1>8, ChaKept

LEMMA ChaBundleSafe ==
    ASSUME ChaIInv, NEW t \in ChaThreads, ChaBundle(t)
    PROVE  ChaIInv'
<1> PICK q \in ChaThread : q = chaThreads[t]
  BY ChaThreadAt DEF ChaIInv
<1>1. /\ ChaTypeOK /\ ChaContextOK /\ ChaThreadOK(q) /\ q.pc = "bundle" /\ q.conv \in ChaConvs
      /\ q.message = "analyze" /\ q.since <= q.now /\ q.since \in Nat /\ q.now \in Nat
      /\ UNCHANGED <<chaQuestions, chaPending, chaBound, chaWorld, chaHistory>>
  BY ChaThreadIs DEF ChaIInv, ChaBundle, ChaBundleFrom, ChaThreadOK, ChaMessageOK
<1>2. PICK now \in ChaInstants(t) :
        /\ chaContext' = ChaFresh(now)
        /\ \/ ChaReply(t)
           \/ /\ \A s \in ChaSources : ChaFresh(now)[q.conv][s] # ChaNoResult
              /\ ChaGoes(t, [q EXCEPT !.pc = "model", !.now = now,
                             !.bundle = {ChaFresh(now)[q.conv][s] : s \in ChaSources}])
  <2>1. PICK kept : kept = [n \in 0..ChaMaxTime |-> ChaFresh(n)]
    OBVIOUS
  <2>2. ChaBundleFrom(t, kept)
    BY <2>1 DEF ChaBundle
  <2>3. PICK now \in ChaInstants(t) :
          /\ chaContext' = kept[now]
          /\ \/ ChaReply(t)
             \/ /\ \A s \in ChaSources : kept[now][q.conv][s] # ChaNoResult
                /\ ChaGoes(t, [q EXCEPT !.pc = "model", !.now = now,
                               !.bundle = {kept[now][q.conv][s] : s \in ChaSources}])
    BY <2>2 DEF ChaBundleFrom
  <2>4. kept[now] = ChaFresh(now)
    BY <2>1, <2>3, ChaInstantIs
  <2> QED
    BY <2>3, <2>4
<1>3. now \in 0..ChaMaxTime /\ q.now <= now /\ now <= chaClock /\ now \in Nat
  BY <1>2, ChaInstantIs
<1> DEFINE fresh == ChaFresh(now)
           shown == {fresh[q.conv][s] : s \in ChaSources}
<1>4. /\ fresh \in [ChaConvs -> [ChaSources -> ChaResult]]
      /\ \A c \in ChaConvs, s \in ChaSources :
            /\ fresh[c][s] \in {chaContext[c][s], ChaNoResult}
            /\ fresh[c][s] # ChaNoResult => now < chaContext[c][s].expires
  BY <1>3, ChaFreshIs
<1>5. /\ chaContext' = fresh
      /\ \/ ChaReply(t)
         \/ /\ \A s \in ChaSources : fresh[q.conv][s] # ChaNoResult
            /\ ChaGoes(t, [q EXCEPT !.pc = "model", !.now = now, !.bundle = shown])
  BY <1>2
<1> HIDE DEF fresh
<1>6. CASE ChaReply(t)
  <2>1. /\ ChaGoes(t, ChaIdle) /\ ChaIdle \in ChaThread /\ ChaThreadOK(ChaIdle)
        /\ \A d \in ChaDates : ~ChaBrings(ChaIdle, d)
    BY <1>1, <1>6, ChaIdleIs, ChaIdleOK DEF ChaReply, ChaBrings
  <2> QED
    BY <1>1, <1>4, <1>5, <2>1, ChaKept
<1>7. CASE /\ \A s \in ChaSources : fresh[q.conv][s] # ChaNoResult
           /\ ChaGoes(t, [q EXCEPT !.pc = "model", !.now = now, !.bundle = shown])
  <2>1. \A s \in ChaSources :
          /\ fresh[q.conv][s] \in ChaResult /\ fresh[q.conv][s].by \in chaRead
          /\ chaIssued[fresh[q.conv][s].by].conv = q.conv
          /\ chaIssued[fresh[q.conv][s].by].kind = s
          /\ now < fresh[q.conv][s].expires /\ fresh[q.conv][s].expires \in Nat
    <3>1. \A s \in ChaSources :
            fresh[q.conv][s] = chaContext[q.conv][s] /\ fresh[q.conv][s] \in ChaResult
      BY <1>1, <1>4, <1>7
    <3>2. \A r \in ChaResult : r.expires \in Nat
      BY ChaBounds DEF ChaResult
    <3> QED
      BY <1>1, <1>4, <1>7, <3>1, <3>2 DEF ChaContextOK
  <2>2. shown \subseteq ChaResult
    BY <2>1
  <2>3. {chaIssued[r.by].kind : r \in shown} = ChaSources
    <3>1. \A r \in shown : chaIssued[r.by].kind \in ChaSources
      BY <2>1
    <3>2. \A s \in ChaSources : \E r \in shown : chaIssued[r.by].kind = s
      BY <2>1
    <3> HIDE DEF shown
    <3> QED
      BY <3>1, <3>2
  <2>4. \A r \in shown : r.by \in chaRead /\ chaIssued[r.by].conv = q.conv /\ q.since < r.expires
    BY <1>1, <1>3, <2>1
  <2> HIDE DEF shown
  <2> DEFINE p == [q EXCEPT !.pc = "model", !.now = now, !.bundle = shown]
  <2>5. /\ p \in ChaThread /\ p.pc = "model" /\ p.now = now /\ p.bundle = shown
        /\ p.conv = q.conv /\ p.message = q.message /\ p.since = q.since
    BY <1>3, <2>2 DEF ChaThread, ChaSteps
  <2>6. ChaGoes(t, p)
    BY <1>7
  <2> HIDE DEF p
  <2>7. ChaThreadOK(p)
    <3>1. ChaMessageOK(p)
      BY <1>1, <1>3, <2>5 DEF ChaMessageOK
    <3>2. ChaApprovalAt(p)
      BY <2>5 DEF ChaApprovalAt, ChaDeciding
    <3>3. ChaOfferedOK(p)
      BY <1>1, <2>5 DEF ChaOfferedOK
    <3>4. ChaBundleOK(p)
      BY <2>3, <2>4, <2>5 DEF ChaBundleOK
    <3> QED
      BY <1>3, <2>5, <3>1, <3>2, <3>3, <3>4 DEF ChaThreadOK
  <2>8. \A d \in ChaDates : ~ChaBrings(p, d)
    BY <2>5 DEF ChaBrings
  <2> QED
    BY <1>1, <1>4, <1>5, <2>5, <2>6, <2>7, <2>8, ChaKept
<1> QED
  BY <1>5, <1>6, <1>7

-----------------------------------------------------------------------------
(* ChatActions: the world, and the invariant.                               *)

LEMMA ChaWorldSafe ==
    ASSUME ChaIInv, ChaTick \/ \E c \in ChaConvs : ChaDelete(c)
    PROVE  ChaIInv'
<1>1. /\ UNCHANGED <<chaQuestions, chaPending, chaBound, chaContext, chaThreads, chaTurns,
                     chaIssued, chaTold, chaAnswered, chaRead>>
      /\ chaClock' \in {chaClock, chaClock + 1} /\ chaClock' \in 0..ChaMaxTime
      /\ chaLive' \subseteq ChaConvs
  BY ChaBounds DEF ChaTick, ChaDelete, chaStores, chaHistory, ChaIInv, ChaTypeOK
<1>2. ChaTypeOK /\ ChaStoresOK /\ ChaContextOK /\ chaClock \in Nat
  BY ChaBounds DEF ChaIInv, ChaTypeOK
<1>3. ChaStoreTypes' /\ chaThreads' \in [ChaThreads -> ChaThread]
  BY <1>1, <1>2, ChaTypeIs DEF ChaStoreTypes
<1>4. ASSUME NEW a \in ChaApprovals, ChaTracked(a) PROVE ChaTracked(a)'
  BY <1>1, <1>2, <1>4, ChaIssueIs DEF ChaTracked, ChaIsIssued, ChaDead
<1>5. ChaGrows
  BY <1>1, <1>2, <1>4 DEF ChaGrows
<1>6. ChaStoresOK'
  <2>1. \A a \in ChaApprovals : ChaApprovalOK(a)'
    BY <1>1, <1>2 DEF ChaStoresOK, ChaApprovalOK, ChaIsIssued
  <2>2. \A a \in chaTold : a \in ChaApprovals /\ ChaTracked(a)
    BY <1>2 DEF ChaStoresOK, ChaTypeOK
  <2>3. \A a \in chaRead : ChaIsIssued(a)'
    BY <1>1, <1>2 DEF ChaStoresOK, ChaIsIssued
  <2> QED
    BY <1>1, <1>4, <2>1, <2>2, <2>3 DEF ChaStoresOK
<1>7. ChaContextOK'
  BY <1>1, <1>2, <1>5, ChaContextStays
<1>8. \A d \in ChaDates : ChaDateOK(d)'
  BY <1>1 DEF ChaIInv, ChaDateOK, ChaCarries
<1>9. ASSUME NEW s \in ChaThreads PROVE ChaThreadOK(chaThreads[s])'
  <2>1. PICK p \in ChaThread : p = chaThreads[s]
    BY <1>2, ChaThreadAt
  <2>2. ChaThreadOK(p)
    BY <2>1 DEF ChaIInv
  <2>3. ChaThreadOK(p)'
    BY <1>2, <1>3, <1>5, <2>2, ChaThreadStays
  <2> QED
    BY <1>1, <2>1, <2>3
<1> QED
  BY <1>3, <1>6, <1>7, <1>8, <1>9, ChaTypeNext DEF ChaIInv

LEMMA ChaInitSafe == ChaInit => ChaIInv
<1> SUFFICES ASSUME ChaInit PROVE ChaIInv
  OBVIOUS
<1>1. ChaTypeOK
  <2>1. /\ ChaNoQuestion \in ChaQuestion /\ ChaNoResult \in ChaResult
        /\ ChaUnissued \in ChaIssue /\ ChaIdle \in ChaThread /\ ChaGone \in ChaDeadlines
        /\ 0 \in 0..ChaMaxTime /\ 0 \in 0..ChaMaxTurns
        /\ <<>> \in Seq({"confirmed", "cancelled", "expired"})
    BY ChaBounds, ChaNoQuestionIs, ChaUnissuedIs, ChaIdleIs
    DEF ChaNoResult, ChaResult, ChaDeadlines
  <2> QED
    BY <2>1 DEF ChaInit, ChaTypeOK
<1>2. ChaStoresOK
  BY DEF ChaInit, ChaStoresOK, ChaApprovalOK
<1>3. ChaContextOK
  BY DEF ChaInit, ChaContextOK
<1>4. ASSUME NEW d \in ChaDates PROVE ChaDateOK(d)
  BY ChaBounds, ChaNoQuestionIs, ChaUnissuedIs, ChaIdleIs
  DEF ChaInit, ChaDateOK, ChaCarries, ChaBrings
<1>5. \A t \in ChaThreads : ChaThreadOK(chaThreads[t])
  BY <1>1, ChaIdleOK DEF ChaInit
<1> QED
  BY <1>1, <1>2, <1>3, <1>4, <1>5 DEF ChaIInv

LEMMA ChaNextSafe == ChaIInv /\ [ChaNext]_chaVars => ChaIInv'
<1> SUFFICES ASSUME ChaIInv, [ChaNext]_chaVars PROVE ChaIInv'
  OBVIOUS
<1>1. CASE UNCHANGED chaVars
  <2>1. UNCHANGED <<chaQuestions, chaPending, chaBound, chaContext, chaThreads, chaTurns,
                    chaClock, chaLive, chaIssued, chaTold, chaAnswered, chaRead>>
    BY <1>1 DEF chaVars, chaStores, chaWorld, chaHistory
  <2>2. ChaTypeOK'
    BY <2>1 DEF ChaIInv, ChaTypeOK
  <2>3. ChaStoresOK'
    BY <2>1 DEF ChaIInv, ChaStoresOK, ChaApprovalOK, ChaTracked, ChaIsIssued, ChaDead
  <2>4. ChaContextOK' /\ \A d \in ChaDates : ChaDateOK(d)'
    BY <2>1 DEF ChaIInv, ChaContextOK, ChaDateOK, ChaCarries
  <2>5. ASSUME NEW s \in ChaThreads PROVE ChaThreadOK(chaThreads[s])'
    <3>1. PICK p : p = chaThreads[s]
      OBVIOUS
    <3>2. ChaThreadOK(p)
      BY <3>1 DEF ChaIInv
    <3>3. ChaThreadOK(p)'
      BY <2>1, <3>2 DEF ChaThreadOK, ChaMessageOK, ChaApprovalAt, ChaOfferedOK,
                        ChaBundleOK, ChaTracked, ChaIsIssued, ChaDead, ChaPassed
    <3> QED
      BY <2>1, <3>1, <3>3
  <2> QED
    BY <2>2, <2>3, <2>4, <2>5 DEF ChaIInv
<1>2. ASSUME NEW t \in ChaThreads, ChaSendChatMessage(t) PROVE ChaIInv'
  BY <1>2, ChaSendSafe, ChaClassifySafe, ChaClearSafe, ChaConsumeSafe, ChaBeginSafe,
     ChaGuardSafe, ChaModelSafe, ChaAskSafe, ChaBundleSafe, ChaCheckSafe, ChaProposeSafe,
     ChaBindSafe, ChaFinishSafe DEF ChaSendChatMessage
<1>3. ASSUME NEW t \in ChaThreads, ChaDecision(t) PROVE ChaIInv'
  BY <1>3, ChaDecideSafe, ChaScopeSafe, ChaTakeSafe, ChaRunSafe, ChaCompleteSafe,
     ChaAnswerSafe, ChaCaptureSafe DEF ChaDecision
<1> QED
  BY <1>1, <1>2, <1>3, ChaWorldSafe DEF ChaNext

LEMMA ChaIInvAlways == ChaSpec => []ChaIInv
BY ChaInitSafe, ChaNextSafe, PTL DEF ChaSpec

\* The stores, the threads of the chat and the history keep their shape, for
\* any number of conversations, threads, questions and approvals.
THEOREM ChaTypeCorrect == ChaSpec => []ChaTypeOK
<1>1. ChaIInv => ChaTypeOK
  BY DEF ChaIInv
<1> QED
  BY <1>1, ChaIInvAlways, PTL

LEMMA ChaIInvSaidSo == ChaIInv => ChaOwnerSaidSo
<1> SUFFICES ASSUME ChaIInv PROVE ChaOwnerSaidSo
  OBVIOUS
<1>1. ASSUME NEW d \in ChaDates, NEW made,
             made = {a \in ChaApprovals : chaIssued[a].date = d}
      PROVE  /\ Len(chaAnswered[d]) <= 1 /\ Cardinality(made) <= 1
             /\ made # {} => chaAnswered[d] = <<"confirmed">>
  <2>1. ChaDateOK(d)
    BY DEF ChaIInv
  <2>2. Len(chaAnswered[d]) <= 1
    <3>1. chaAnswered[d] \in {<<>>, <<"confirmed">>, <<"cancelled">>, <<"expired">>}
      BY <2>1 DEF ChaDateOK
    <3>2. CASE chaAnswered[d] = <<>>
      BY <3>2
    <3>3. CASE chaAnswered[d] # <<>>
      <4>1. \E v : chaAnswered[d] = <<v>>
        BY <3>1, <3>3, Zenon
      <4>2. PICK v : chaAnswered[d] = <<v>>
        BY <4>1
      <4> QED
        BY <4>2
    <3> QED
      BY <3>2, <3>3
  <2>3. CASE made = {}
    BY <2>2, <2>3, FS_EmptySet
  <2>4. CASE made # {}
    <3>1. PICK a \in made : TRUE
      BY <2>4
    <3>2. made = {a} /\ chaAnswered[d] = <<"confirmed">>
      BY <1>1, <2>1, <3>1 DEF ChaDateOK
    <3>3. Cardinality({a}) = 1
      BY FS_Singleton
    <3> QED
      BY <2>2, <3>2, <3>3
  <2> QED
    BY <2>3, <2>4
<1>2. ChaOneAnswer
  BY <1>1 DEF ChaOneAnswer
<1>3. ChaPromptsAreApproved
  BY DEF ChaIInv, ChaThreadOK, ChaBundleOK, ChaPromptsAreApproved
<1> QED
  BY <1>2, <1>3 DEF ChaOwnerSaidSo

\* Whatever messages, answers and decisions overlap, in any number of
\* conversations: a question is answered once and one read at most comes of
\* it, and the model is shown only what the owner let be read, for this
\* conversation, and not yet expired.
THEOREM ChaSaidSo == ChaSpec => []ChaOwnerSaidSo
BY ChaIInvSaidSo, ChaIInvAlways, PTL

LEMMA ChaIInvStaysOut == ChaIInv => ChaTypedApprovalStaysOut
<1> SUFFICES ASSUME ChaIInv, NEW t \in ChaThreads, chaThreads[t].pc = "model",
                    chaThreads[t].message = "approve", NEW a \in chaThreads[t].offered
             PROVE  ChaDead(a)
  BY DEF ChaTypedApprovalStaysOut, ChaDead
<1> PICK q \in ChaThread : q = chaThreads[t]
  BY ChaThreadAt DEF ChaIInv
<1>1. ChaOfferedOK(q) /\ q.pc = "model" /\ q.message = "approve" /\ a \in q.offered
  BY DEF ChaIInv, ChaThreadOK
<1>2. a \in chaTold /\ ChaPassed(q) = ChaKinds
  BY <1>1 DEF ChaOfferedOK, ChaPassed
<1>3. chaIssued[a].kind \in ChaKinds
  BY <1>2 DEF ChaIInv, ChaStoresOK, ChaTracked, ChaIsIssued
<1> QED
  BY <1>1, <1>2, <1>3 DEF ChaOfferedOK

\* A typed approval reaches the model only when nothing that was offered in
\* the conversation before can be decided any more.
THEOREM ChaStaysOut == ChaSpec => []ChaTypedApprovalStaysOut
BY ChaIInvStaysOut, ChaIInvAlways, PTL

=============================================================================

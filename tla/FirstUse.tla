------------------------------- MODULE FirstUse -------------------------------
(***************************************************************************)
(* First use of the process-wide stores of the Gmail send lane.            *)
(*                                                                         *)
(* Each store is made by an @lru_cache factory that FastAPI calls in a     *)
(* pool thread, request by request.  The cache is filled when a factory    *)
(* returns, not when it is called: two threads that both miss both build,  *)
(* the first to finish is kept, and the other goes on with its own.        *)
(* GmailSend assumes one approval store and one claim store; this module   *)
(* asks when that is so.  Its lane is GmailSend's without clock, expiry    *)
(* and capacity: an approval is proposed, approved, found, claimed, sent.  *)
(*                                                                         *)
(* A service is represented by the approval store it was composed with.    *)
(***************************************************************************)
EXTENDS Integers, FiniteSets

CONSTANTS
    FuRequests,       \* request threads
    FuApprovals,      \* approval ids, never drawn twice
    FuInstances,      \* store objects
    FuNone,
    FuMaxAttempts     \* bound: attempts counted per approval

ASSUME FuConstantsAssumption ==
    /\ FuNone \notin FuInstances /\ FuNone \notin FuApprovals
    /\ FuMaxAttempts \in Nat

VARIABLES
    fuCache,          \* what each cached factory returns, or None
    fuBuilt,          \* store objects that were ever made
    fuItems,          \* approval records of each store object
    fuClaims,         \* approvals claimed in each store object
    fuRequests,
    fuAttempts        \* provider attempts in the name of each approval

fuVars == <<fuCache, fuBuilt, fuItems, fuClaims, fuRequests, fuAttempts>>

-----------------------------------------------------------------------------

\* get_gmail_send_approval_service, get_gmail_send_approval_store,
\* get_gmail_send_execution_claim_store
FuFactories == {"service", "store", "claims"}

FuObject == FuInstances \cup {FuNone}
FuOps == {"propose", "approve", "execute"}

\* A thread looks for an object ("find"), makes it after a miss ("build"), or
\* works with what it has ("act", "get", "claim", "send").
FuRequest == [pc : {"idle", "find", "build", "act", "get", "claim", "send"},
            op : FuOps, approval : FuApprovals \cup {FuNone},
            factory : FuFactories, store : FuObject, claims : FuObject]

FuIdle == [pc |-> "idle", op |-> "propose", approval |-> FuNone,
         factory |-> "service", store |-> FuNone, claims |-> FuNone]

FuTypeOK ==
    /\ fuCache \in [FuFactories -> FuObject]
    /\ fuBuilt \in SUBSET FuInstances
    /\ fuItems \in [FuInstances -> [FuApprovals -> {"absent", "pending", "approved"}]]
    /\ fuClaims \in [FuInstances -> SUBSET FuApprovals]
    /\ fuRequests \in [FuRequests -> FuRequest]
    /\ \A r \in FuRequests :
          LET q == fuRequests[r] IN
          /\ q.pc # "idle" => q.approval \in FuApprovals
          /\ q.pc \in {"act", "get", "claim", "send"} => q.store \in FuInstances
          /\ q.pc \in {"get", "claim", "send"} => q.claims \in FuInstances
    /\ fuAttempts \in [FuApprovals -> 0..FuMaxAttempts]

FuGoes(r, q) == fuRequests' = [fuRequests EXCEPT ![r] = q]
FuReply(r) == FuGoes(r, FuIdle)

FuDrawn == {a \in FuApprovals :
            \/ \E i \in FuInstances : fuItems[i][a] # "absent"
            \/ \E r \in FuRequests : fuRequests[r].approval = a}

\* The owner proposes with a fresh id, or names one she was given.
FuCall(r, op, a) ==
    /\ fuRequests[r].pc = "idle"
    /\ (op = "propose") = (a \notin FuDrawn)
    /\ FuGoes(r, [FuIdle EXCEPT !.pc = "find", !.op = op, !.approval = a,
                   !.factory = IF op = "execute" THEN "store" ELSE "service"])
    /\ UNCHANGED <<fuCache, fuBuilt, fuItems, fuClaims, fuAttempts>>

\* What a thread does with the object a factory gave it.  The service
\* factory calls the store factory; execute needs the stores one by one.
FuWith(q, i) ==
    IF q.factory = "claims" THEN [q EXCEPT !.pc = "get", !.claims = i]
    ELSE IF q.factory = "service" THEN [q EXCEPT !.pc = "act", !.store = i]
    ELSE IF q.op = "execute"
         THEN [q EXCEPT !.pc = "find", !.factory = "claims", !.store = i]
         ELSE [q EXCEPT !.pc = "build", !.factory = "service", !.store = i]

FuFind(r) ==
    LET q == fuRequests[r] IN
    /\ q.pc = "find"
    /\ \/ /\ fuCache[q.factory] # FuNone
          /\ FuGoes(r, FuWith(q, fuCache[q.factory]))
       \/ /\ fuCache[q.factory] = FuNone
          /\ FuGoes(r, IF q.factory = "service" THEN [q EXCEPT !.factory = "store"]
                     ELSE [q EXCEPT !.pc = "build"])
    /\ UNCHANGED <<fuCache, fuBuilt, fuItems, fuClaims, fuAttempts>>

\* A new store; a service is composed with the store its thread was given.
FuMakes(q, i) ==
    IF q.factory = "service" THEN i = q.store ELSE i \in FuInstances \ fuBuilt

\* The factory returns: the cache keeps what is there, the caller its own.
FuBuild(r) ==
    LET q == fuRequests[r] IN
    /\ q.pc = "build"
    /\ \E i \in FuInstances :
          /\ FuMakes(q, i)
          /\ fuBuilt' = fuBuilt \cup {i}
          /\ fuCache' = [fuCache EXCEPT ![q.factory] = IF @ = FuNone THEN i ELSE @]
          /\ FuGoes(r, FuWith(q, i))
    /\ UNCHANGED <<fuItems, fuClaims, fuAttempts>>

\* create, approve.
FuAct(r) ==
    LET q == fuRequests[r]  a == q.approval IN
    /\ q.pc = "act"
    /\ fuItems' = [fuItems EXCEPT ![q.store][a] =
                    IF q.op = "propose" THEN "pending"
                    ELSE IF @ = "pending" THEN "approved" ELSE @]
    /\ FuReply(r)
    /\ UNCHANGED <<fuCache, fuBuilt, fuClaims, fuAttempts>>

FuGetApproved(r) ==
    LET q == fuRequests[r] IN
    /\ q.pc = "get"
    /\ IF fuItems[q.store][q.approval] = "approved"
       THEN FuGoes(r, [q EXCEPT !.pc = "claim"]) ELSE FuReply(r)
    /\ UNCHANGED <<fuCache, fuBuilt, fuItems, fuClaims, fuAttempts>>

FuClaim(r) ==
    LET q == fuRequests[r] IN
    /\ q.pc = "claim"
    /\ \/ /\ q.approval \notin fuClaims[q.claims]
          /\ fuClaims' = [fuClaims EXCEPT ![q.claims] = @ \cup {q.approval}]
          /\ FuGoes(r, [q EXCEPT !.pc = "send"])
       \/ /\ q.approval \in fuClaims[q.claims]
          /\ FuReply(r)
          /\ UNCHANGED fuClaims
    /\ UNCHANGED <<fuCache, fuBuilt, fuItems, fuAttempts>>

FuSend(r) ==
    LET q == fuRequests[r] IN
    /\ q.pc = "send"
    /\ fuAttempts[q.approval] < FuMaxAttempts
    /\ fuAttempts' = [fuAttempts EXCEPT ![q.approval] = @ + 1]
    /\ FuReply(r)
    /\ UNCHANGED <<fuCache, fuBuilt, fuItems, fuClaims>>

-----------------------------------------------------------------------------

\* A fresh process: nothing was asked for yet.
FuInit ==
    /\ fuCache = [f \in FuFactories |-> FuNone]
    /\ fuBuilt = {}
    /\ fuItems = [i \in FuInstances |-> [a \in FuApprovals |-> "absent"]]
    /\ fuClaims = [i \in FuInstances |-> {}]
    /\ fuRequests = [r \in FuRequests |-> FuIdle]
    /\ fuAttempts = [a \in FuApprovals |-> 0]

FuNext ==
    \E r \in FuRequests :
        \/ \E op \in FuOps, a \in FuApprovals : FuCall(r, op, a)
        \/ FuFind(r) \/ FuBuild(r) \/ FuAct(r)
        \/ FuGetApproved(r) \/ FuClaim(r) \/ FuSend(r)

FuSpec == FuInit /\ [][FuNext]_fuVars

-----------------------------------------------------------------------------
(* Properties.                                                             *)

\* ONE APPROVAL -> AT MOST ONE PROVIDER ATTEMPT.  The first two requests of
\* a fresh process can break it.
FuAtMostOneAttempt == \A a \in FuApprovals : fuAttempts[a] <= 1

=============================================================================

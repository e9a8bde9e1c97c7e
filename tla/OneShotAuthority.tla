-------------------------- MODULE OneShotAuthority --------------------------
(***************************************************************************)
(* What every owner-approval lane promises, whatever it keeps in memory:   *)
(* "REQUEST != OWNER APPROVAL", "APPROVED != CLAIMED", "ONE APPROVAL -> AT *)
(* MOST ONE PROVIDER ATTEMPT".  An approval is asked for with its terms,   *)
(* decided once by the owner, spent once, and acted on at most once with   *)
(* the terms the owner saw.  Authority only ever shrinks: an approval may  *)
(* lapse at any time (expiry, mismatch, eviction, restart) and never       *)
(* returns.  GmailSend, EngineeringApply, CalendarWrite, LocalAIControl    *)
(* and GovernedExecution implement this module.                            *)
(***************************************************************************)
EXTENDS Sequences

CONSTANTS
    Approvals,      \* approval ids, never issued twice
    Contents,       \* the terms an approval may be asked for
    NoContent       \* the terms of an approval nobody asked for

VARIABLES
    standing,       \* standing[a]: how far approval a got
    terms,          \* terms[a]: what it was asked for
    effects         \* effects[a]: the attempts made in its name

vars == <<standing, terms, effects>>

Standings == {"unasked", "pending", "approved", "denied", "spent", "gone"}

TypeOK ==
    /\ standing \in [Approvals -> Standings]
    /\ terms \in [Approvals -> Contents \cup {NoContent}]
    /\ effects \in [Approvals -> Seq(Contents \cup {NoContent})]

Init ==
    /\ standing = [a \in Approvals |-> "unasked"]
    /\ terms = [a \in Approvals |-> NoContent]
    /\ effects = [a \in Approvals |-> <<>>]

Lapsed(S) ==
    [a \in Approvals |->
        IF a \in S /\ standing[a] # "unasked" THEN "gone" ELSE standing[a]]

\* Asking may evict whatever has expired.
Ask(a, c, S) ==
    /\ standing[a] = "unasked"
    /\ terms' = [terms EXCEPT ![a] = c]
    /\ UNCHANGED effects
    /\ standing' = [Lapsed(S) EXCEPT ![a] = "pending"]

Decide(a, decision) ==
    /\ standing[a] = "pending"
    /\ standing' = [standing EXCEPT ![a] = decision]
    /\ UNCHANGED <<terms, effects>>

Spend(a) ==
    /\ standing[a] = "approved"
    /\ standing' = [standing EXCEPT ![a] = "spent"]
    /\ UNCHANGED <<terms, effects>>

Act(a) ==
    /\ standing[a] = "spent"
    /\ effects[a] = <<>>
    /\ effects' = [effects EXCEPT ![a] = Append(@, terms[a])]
    /\ UNCHANGED <<standing, terms>>

Lapse(S) ==
    /\ UNCHANGED <<terms, effects>>
    /\ standing' = Lapsed(S)

Next ==
    \/ \E S \in SUBSET Approvals : Lapse(S)
    \/ \E a \in Approvals, c \in Contents, S \in SUBSET Approvals : Ask(a, c, S)
    \/ \E a \in Approvals, d \in {"approved", "denied"} : Decide(a, d)
    \/ \E a \in Approvals : Spend(a) \/ Act(a)

Spec == Init /\ [][Next]_vars

=============================================================================

--------------------------- MODULE CreditsRefinement ---------------------------
(* The credits service implements Settlement. *)
EXTENDS CreditsService

CONSTANT Unbilled

SessionPhase ==
    [s \in Session |->
        IF s \notin minted THEN "none"
        ELSE IF sessions[s] = NoRow THEN "deleted"
        ELSE IF sessions[s].ended = NotEnded THEN "open"
        ELSE "ended"]

CreditsMetered == [s \in Session |-> CreditsFor(recorded[s])]

SessionBill ==
    [s \in Session |->
        IF DebitsOf(s) = {} THEN Unbilled
        ELSE -ledger[CHOOSE i \in DebitsOf(s) : TRUE].amount]

Promise == INSTANCE Settlement WITH
    phase <- SessionPhase, metered <- CreditsMetered, bill <- SessionBill

\* Through every interleaving, fault and deletion, a session ends once and is
\* billed at most once, after it ended, for no more than was recorded
\* (Req 11.1, 12.7, 20.4).
ImplementsSettlement == Promise!SettlementSpec
=============================================================================

------------------------------ MODULE Settlement ------------------------------
(***************************************************************************)
(* What the credits service promises for each session, with no calls,      *)
(* awaits or tables: usage is metered, the session ends once, and it is    *)
(* billed at most once, after it ended, for no more than was metered.      *)
(* Deleting a session neither bills nor refunds it.                        *)
(***************************************************************************)
EXTENDS Integers

CONSTANTS Session, Unbilled

VARIABLES
    phase,      \* of each session
    metered,    \* credits its usage converts to so far
    bill        \* credits debited for it, or Unbilled

settlementVars == <<phase, metered, bill>>

SettlementInit ==
    /\ phase = [s \in Session |-> "none"]
    /\ metered = [s \in Session |-> 0]
    /\ bill = [s \in Session |-> Unbilled]

Open(s) ==
    /\ phase[s] = "none"
    /\ phase' = [phase EXCEPT ![s] = "open"]
    /\ UNCHANGED <<metered, bill>>

Meter(s) ==
    /\ phase[s] \in {"open", "ended"}
    /\ metered'[s] \in Nat
    /\ metered'[s] > metered[s]
    /\ metered' = [metered EXCEPT ![s] = metered'[s]]
    /\ UNCHANGED <<phase, bill>>

End(s) ==
    /\ phase[s] = "open"
    /\ phase' = [phase EXCEPT ![s] = "ended"]
    /\ UNCHANGED <<metered, bill>>

Bill(s) ==
    /\ phase[s] = "ended"
    /\ bill[s] = Unbilled
    /\ \E n \in 0..metered[s] : bill' = [bill EXCEPT ![s] = n]
    /\ UNCHANGED <<phase, metered>>

Delete(s) ==
    /\ phase[s] \in {"open", "ended"}
    /\ phase' = [phase EXCEPT ![s] = "deleted"]
    /\ UNCHANGED <<metered, bill>>

SettlementNext ==
    \E s \in Session : Open(s) \/ Meter(s) \/ End(s) \/ Bill(s) \/ Delete(s)

SettlementSpec == SettlementInit /\ [][SettlementNext]_settlementVars
=============================================================================

------------------------------- MODULE MCGateway -------------------------------
(* Instances of SessionGateway for TLC. *)
EXTENDS SessionGateway, TLC

MCTokenOf == [c \in Conn |-> CHOOSE a \in Account : TRUE]
MCModeOf == [a \in Account |-> "enforced"]
MCOpening == [a \in Account |-> 2]
MCDelta == {SttUsage(n) : n \in 1..MeterAt} \cup {LlmUsage}

MCSymmetry == Permutations(Session) \cup Permutations(Call) \cup Permutations(Conn)
=============================================================================

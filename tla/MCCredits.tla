------------------------------- MODULE MCCredits -------------------------------
(* Instances of CreditsService and its refinement for TLC. *)
EXTENDS CreditsRefinement, TLC

MCOpening == [a \in Account |-> 3]
MCDelta == {[stt |-> 1, llm |-> 0], [stt |-> 0, llm |-> 1]}
MCSttDelta == {[stt |-> 1, llm |-> 0]}

\* Session ids, call slots and accounts are interchangeable.
MCSymmetry == Permutations(Session) \cup Permutations(Call) \cup Permutations(Account)
=============================================================================

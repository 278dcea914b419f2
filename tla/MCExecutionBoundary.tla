------------------------- MODULE MCExecutionBoundary -------------------------
EXTENDS ExecutionBoundary, TLC

CONSTANTS b1, b2

\* Every permit is issued for the same action; b2 is a substituted one.
MCPermitBinding == [p \in Permits |-> b1]

Symmetry == Permutations(Calls) \cup Permutations(Permits)
                \cup Permutations(Keys) \cup Permutations(Probers)
=============================================================================

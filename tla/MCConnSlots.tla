---------------------------- MODULE MCConnSlots ----------------------------
EXTENDS ConnSlots, TLC

Symmetry == Permutations(Slots) \cup Permutations(Handoffs)
            \cup Permutations(Workers)
=============================================================================

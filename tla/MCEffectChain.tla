--------------------------- MODULE MCEffectChain ----------------------------
EXTENDS EffectChain

\* One caller with long chains, and two that interleave.
MCScopes == {[callers |-> {"c1"}, calls |-> 5, effects |-> 2],
             [callers |-> Callers, calls |-> 3, effects |-> 1]}
=============================================================================

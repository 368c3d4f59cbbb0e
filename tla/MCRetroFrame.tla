---------------------------- MODULE MCRetroFrame ----------------------------
EXTENDS RetroFrame

MCTicks == [s \in {5, 6} |-> {s - 1, s, s + 1}]
=============================================================================

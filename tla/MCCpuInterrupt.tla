--------------------------- MODULE MCCpuInterrupt ---------------------------
EXTENDS CpuInterrupt

MCMasks == {[masked |-> {}, es |-> TRUE]}
=============================================================================

-------------------------- MODULE MCIpDedupMemory ---------------------------
\* IpDedupMemory for the model checker: plain numbers in the cfg.
EXTENDS IpDedupMemory
=============================================================================

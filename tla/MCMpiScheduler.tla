--------------------------- MODULE MCMpiScheduler ---------------------------
\* The MPI scheduler on small numbers of machines and threads; all constants
\* are numbers given in the configurations.
EXTENDS MpiScheduler
=============================================================================

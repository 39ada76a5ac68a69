----------------------- MODULE MCMaintenanceScheduler -----------------------
EXTENDS MaintenanceScheduler, TLC
CONSTANTS k1, k2, k3, o1, o2, o3

\* Two rollup engines that bind sessions of one database: every key is both's.
EveryKey == [o \in Owners |-> Keys]
\* Embedding engines schedule the key of their database.  Two share one; the
\* third is rebound to another profile's database under the same owner.
OwnKey == [o \in Owners |-> IF o = o3 THEN {k2, k3} ELSE {k1}]
=============================================================================

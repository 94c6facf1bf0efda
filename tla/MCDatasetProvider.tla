------------------------- MODULE MCDatasetProvider -------------------------
(* DatasetProvider for TLC.                                                *)
EXTENDS DatasetProvider

CONSTANTS t1, t2, t3

\* Three threads on a storage that works, and two where it loses a repo, with and without
\* calls that fail.
MCModes == {[fails |-> FALSE, removals |-> 0, pool |-> {t1, t2, t3}],
            [fails |-> FALSE, removals |-> 1, pool |-> {t1, t2}],
            [fails |-> TRUE, removals |-> 1, pool |-> {t1, t2}]}
=============================================================================

---------------------------- MODULE MCPolarisJobs ----------------------------
(* PolarisJobs for TLC: three users on pages of two.                       *)
EXTENDS PolarisJobs

MCFirstRoles == [u \in Users |-> IF u = 2 THEN {"teehr-user", "offline_access"}
                                 ELSE {"teehr-user"}]

\* The second service has a role that no user is given by the sync.
MCServiceRole == [s \in Services |-> IF s = 8 THEN "teehr-user" ELSE "offline_access"]

\* The CronJob alone, and beside a bootstrap, whose last call creates the second role; then
\* with a role that nobody creates, and with a table that is not there.
MCModes ==
  LET all == <<{"teehr-user"}, {"offline_access"}>>
      first == <<{"teehr-user"}, {}>>
      both == {"cron", "bootstrap"}
  IN {[jobs |-> {"cron"}, changes |-> 2, faults |-> 1, creates |-> all, absent |-> {}],
      [jobs |-> both, changes |-> 1, faults |-> 1, creates |-> all, absent |-> {}],
      [jobs |-> both, changes |-> 0, faults |-> 0, creates |-> first, absent |-> {}],
      [jobs |-> both, changes |-> 0, faults |-> 0, creates |-> all, absent |-> {2}]}
=============================================================================

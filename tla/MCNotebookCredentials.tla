----------------------- MODULE MCNotebookCredentials -----------------------
(* NotebookCredentials for TLC.                                            *)
EXTENDS NotebookCredentials

CONSTANTS p1, p2

\* Rules open to all that list one name, rules with a default role, and rules that list both
\* names for a role each, more than one policy can name.
MCRuleSets ==
  LET rule(open, default, items) == [open |-> open, default |-> default, items |-> items] IN
  {rule(TRUE, {}, [n \in {<<"a", 0>>} |-> {"team"}]),
   rule(FALSE, {"staff"}, [n \in {<<"a", 0>>} |-> {"team"}]),
   rule(FALSE, {}, [n \in Names |-> {IF n = <<"a", 0>> THEN "team" ELSE "staff"}])}
=============================================================================

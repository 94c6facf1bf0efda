--------------------------- MODULE MCRequestGate ---------------------------
(* RequestGate for TLC.                                                    *)
EXTENDS RequestGate

\* No default; a default; and each with the plain or the suffixed name restricted.
MCRuleSets ==
  LET rule(open, default, items) == [open |-> open, default |-> default, items |-> items] IN
  {rule(TRUE, {}, [n \in {<<"a", 0>>} |-> {"team"}]),
   rule(TRUE, {}, [n \in {<<"a", 1>>} |-> {}]),
   rule(FALSE, {"staff"}, [n \in {<<"a", 0>>, <<"a", 1>>} |-> IF n[2] = 0 THEN {"team"} ELSE {"staff"}])}
=============================================================================

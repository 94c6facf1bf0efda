-------------------------- MODULE MCBrokerSessions --------------------------
(* BrokerSessions for TLC.                                                 *)
EXTENDS BrokerSessions
=============================================================================

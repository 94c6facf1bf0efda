---------------------------- MODULE MCJwksCache ----------------------------
(* JwksCache for TLC.                                                      *)
EXTENDS JwksCache
=============================================================================

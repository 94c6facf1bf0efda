--------------------------- MODULE MCApiKeyStore ---------------------------
(* ApiKeyStore for TLC: a rollout with two workers.                        *)
EXTENDS ApiKeyStore
=============================================================================

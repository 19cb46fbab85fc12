---------------------------- MODULE MCResilience ----------------------------
(* A chain of three providers and the default rules of the engine.           *)
EXTENDS ResilienceManager

MCChain == <<"openai", "anthropic", "local">>
=============================================================================

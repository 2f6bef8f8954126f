----------------------------- MODULE MCBasisCache -----------------------------
(* BasisCache on three references and three bases: one small, one that      *)
(* fills two thirds of the cache, one that can never be stored.             *)
EXTENDS BasisCache, TLC

CONSTANTS small, big, huge

MCByteLength == (small :> 1) @@ (big :> 2) @@ (huge :> 4)

===============================================================================

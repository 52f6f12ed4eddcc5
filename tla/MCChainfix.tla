----------------------------- MODULE MCChainfix -----------------------------
(***************************************************************************)
(* chainfix for TLC: an input file of two records, [L1, I, R] and [L1, I], *)
(* giving fix tasks for L1 twice and for I twice; the Fixer can verify     *)
(* [L1, I] and its super-chain [L1, I, R], so the two tasks for L1 emit    *)
(* distinct or equal chains and the Logger sees a leaf twice; tasks for I  *)
(* end in FixErrors.  One fix worker and two postServers.                  *)
(***************************************************************************)
EXTENDS Chainfix, TLC

CONSTANTS L1, I, R, NilChain, W1, W2, F1

MCCerts == {L1, I, R}

\* DER encodings; no two certificates share their first HashSize bytes.
MCRaw == L1 :> <<48, 161, 193>> @@ I :> <<48, 177, 193>> @@ R :> <<48, 193, 193>>

MCChains == {<<L1, I>>, <<L1, I, R>>}
MCRecords == <<<<L1, I, R>>, <<L1, I>>>>
MCWorkers == {W1, W2}
MCFixWorkers == {F1}
=============================================================================

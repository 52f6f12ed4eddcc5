------------------------------ MODULE MCLogger ------------------------------
(***************************************************************************)
(* Model of fixchain.Logger for TLC: one leaf with two chains (so the two  *)
(* chains compete for the same postCertCache entry), a second leaf, and    *)
(* two postServer workers.                                                 *)
(***************************************************************************)
EXTENDS Logger, TLC

CONSTANTS L1, L2, I, R, NilChain, W1, W2

MCCerts == {L1, L2, I, R}

\* DER encodings; no two certificates share their first HashSize bytes.
MCRaw == L1 :> <<48, 161, 193>> @@ L2 :> <<48, 162, 193>>
         @@ I :> <<48, 177, 193>> @@ R :> <<48, 193, 193>>

\* Same lengths and serial prefix: L2 agrees with L1 on its first two bytes.
MCRawCollide == L1 :> <<48, 161, 193>> @@ L2 :> <<48, 161, 177>>
         @@ I :> <<48, 177, 193>> @@ R :> <<48, 193, 193>>

MCChains == {<<L1, I>>, <<L1, I, R>>, <<L2, I>>}
MCWorkers == {W1, W2}
=============================================================================

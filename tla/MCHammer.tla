------------------------------ MODULE MCHammer ------------------------------
(* Model-checking instances of Hammer. *)
EXTENDS Hammer, TLC

\* The entrypoints of a CT log with add-[pre-]chain and the inclusion and
\* consistency checks biased equally.
MCBias == [e \in Entrypoints |->
             IF e \in {GetRootsName, GetEntryAndProofName} THEN 0 ELSE 1]

\* Every entrypoint biased equally: every op has its prerequisites biased.
MCBiasAll == [e \in Entrypoints |-> 1]

\* No invalid operations.
MCNoInvalid == [e \in Entrypoints |-> FALSE]

\* Invalid get-sth-consistency only.
MCInvalidConsistency == [e \in Entrypoints |-> e = GetSTHConsistencyName]

\* Invalid operations for every entrypoint.
MCInvalidAll == [e \in Entrypoints |-> TRUE]
=============================================================================

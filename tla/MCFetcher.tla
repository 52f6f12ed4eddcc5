----------------------------- MODULE MCFetcher -----------------------------
(***************************************************************************)
(* Model of scanner.Fetcher for TLC: two workers, batches of two entries,  *)
(* a log of at most five or six entries, so that a range is split into     *)
(* short responses, ranges are fetched out of order, and in Continuous     *)
(* mode the tree grows by less than a batch as well as by a whole one.     *)
(***************************************************************************)
EXTENDS Fetcher, TLC

CONSTANTS W1, W2

MCWorkers == {W1, W2}
=============================================================================

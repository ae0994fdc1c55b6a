-------------------------- MODULE MCScrapeScheduler --------------------------
(***************************************************************************)
(* Constants for checking ScrapeScheduler.  The hours are scaled down and  *)
(* keep their order: a backoff of one hour ends within the day, one of     *)
(* three hours does not, the overlap is longer than a run, and the clock   *)
(* passes two midnights.  The two credential fingerprints are alike.        *)
(***************************************************************************)
EXTENDS ScrapeScheduler, TLC

CONSTANT hapoalim

OneCompany == <<hapoalim>>
NoConfigStart == [c \in Companies |-> Never]

FingerprintSymmetry == Permutations(Fingerprints)

=============================================================================

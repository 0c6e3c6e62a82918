------------------------------ MODULE GeomCache ------------------------------
(***************************************************************************)
(* What the geometry cache promises (docs/ARCHITECTURE.md, "Flash plan"):  *)
(* the flash holds one complete static set or none, whenever the power     *)
(* fails.  A new set replaces the old one through nothing: the old set is  *)
(* gone before the first record of the new one is taken, and the new one   *)
(* is there only with all the records that were taken.                     *)
(***************************************************************************)
CONSTANTS
    SetsOfRecords,   \* every possible content: an id, a resolution, records
    Nothing          \* no set

VARIABLES
    stored,   \* the set a restart would find
    draft     \* the set being received

cacheVars == <<stored, draft>>

CacheInit == stored = Nothing /\ draft = Nothing

\* A transfer starts.
Start == draft = Nothing /\ draft' \in SetsOfRecords /\ UNCHANGED stored

Discard == draft # Nothing /\ stored' = Nothing /\ UNCHANGED draft

\* A record is taken, replaced, or the set is named.
Take == draft # Nothing /\ stored = Nothing /\ draft' \in SetsOfRecords /\ UNCHANGED stored

Publish == draft # Nothing /\ stored = Nothing /\ stored' = draft /\ UNCHANGED draft

\* The transfer is over, or given up, or the power failed.
End == draft' = Nothing /\ UNCHANGED stored

CacheNext == Start \/ Discard \/ Take \/ Publish \/ End

CacheSpec == CacheInit /\ [][CacheNext]_cacheVars
=============================================================================

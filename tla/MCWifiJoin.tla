----------------------------- MODULE MCWifiJoin -----------------------------
\* Model values for WifiJoin.
EXTENDS WifiJoin
CONSTANTS home, office
MCRssi == [s \in Ssids |-> IF s = home THEN 1 ELSE 2]
MCStored == IF office \in Ssids THEN <<home, office>> ELSE <<home>>
=============================================================================

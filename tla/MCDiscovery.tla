---------------------------- MODULE MCDiscovery -----------------------------
(* Small instances of Discovery.tla. *)
EXTENDS Discovery, TLC

CONSTANTS d1, d2

\* Muids that use several of their bytes, and small ones; d1 may restart once.
MCCentralMuid == 128^3 + 7
MCMuids == d1 :> <<130 + 128^2 * 3, 5>> @@ d2 :> <<1>>
=============================================================================

-------------------------- MODULE MC_ResourceCache --------------------------
(* The view of a location primes its planning status.  A stock upload and a *)
(* planning run invalidate both; the run also seeds the cache with itself.  *)
EXTENDS ResourceCache

CONSTANTS viewPage, statusPage, stock, run, ann, bob

MCKey == {"location-view", "planning-status", "planning-run"}
Shared == {"location-view", "planning-status"}
MCPrimes == [k \in MCKey |-> IF k = "location-view" THEN {"planning-status"} ELSE {}]
MCWrite == {stock, run}
MCInvalidates == [w \in MCWrite |-> Shared]
MCSeeds == [w \in MCWrite |-> IF w = run THEN {"planning-run"} ELSE {}]
MCHook == {viewPage, statusPage}
MCHookKey == [h \in MCHook |-> IF h = viewPage THEN "location-view" ELSE "planning-status"]
OneUser == {ann}
TwoUsers == {ann, bob}
=============================================================================

------------------------- MODULE MCMemoryServices ---------------------------
(* MemoryServices with maps of up to four descriptors, so that a map can     *)
(* grow by more than the margin while it is fetched, and four client calls:  *)
(* a fetch, the parameters, and the exit tried twice, or fetches in a row.   *)
EXTENDS MemoryServices

MCMaxEntries == 4
MCMaxKey     == 4
MCMaxCalls   == 4
MCMaxHeld    == 1

=============================================================================

--------------------------- MODULE MCGoCacheReader --------------------------
(***************************************************************************)
(* Two callers of Delete, one lookup goroutine and three timestamps, so    *)
(* that the updater can still be loading a file when Delete runs.          *)
(***************************************************************************)
EXTENDS GoCacheReader

=============================================================================

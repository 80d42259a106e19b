-------------------------- MODULE LatestTimestamp ---------------------------
(***************************************************************************)
(* What Downloader and CacheReader share: name.cache.timestamp.latest,     *)
(* which the one writes and the other polls.                               *)
(***************************************************************************)
EXTENDS Naturals

CONSTANTS
  MaxTimestamp     \* bound: timestamps are 1 .. MaxTimestamp

VARIABLES
  latest           \* what the file holds, 0 when missing or unreadable

Timestamps == 1 .. MaxTimestamp

=============================================================================

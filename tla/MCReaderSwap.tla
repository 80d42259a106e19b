---------------------------- MODULE MCReaderSwap ----------------------------
(***************************************************************************)
(* Generations of one cache and two lookup threads: a lookup can own the   *)
(* first file while the third replaces it and the fifth the third; the     *)
(* second is of another family, and the fourth of a type that no lookup is *)
(* implemented for.  Each of them may be skipped, or fail to load.         *)
(***************************************************************************)
EXTENDS ReaderSwap

\* The cache is a deduplicated one whose typed flag changes.
MCFileType ==
  <<"LINEAR_PROBE_DEDUP", "LINEAR_PROBE", "LINEAR_PROBE_DEDUP_TYPED", "MAP",
    "LINEAR_PROBE_DEDUP">>

=============================================================================

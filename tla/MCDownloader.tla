---------------------------- MODULE MCDownloader ----------------------------
(***************************************************************************)
(* Two mirrors that may lag behind each other, and two faults, so that one *)
(* can strike the recovery from the other.                                 *)
(***************************************************************************)
EXTENDS Downloader

=============================================================================

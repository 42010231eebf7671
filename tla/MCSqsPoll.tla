----------------------------- MODULE MCSqsPoll -----------------------------
(***************************************************************************)
(* The instance of SqsPoll for TLC.                                        *)
(***************************************************************************)
EXTENDS SqsPoll, TLC
=============================================================================

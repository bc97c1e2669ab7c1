---------------------------- MODULE MCFramePath ----------------------------
(* One sender and the parser, all formats and all DLCs. *)
EXTENDS FramePath
=============================================================================

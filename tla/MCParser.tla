------------------------------ MODULE MCParser ------------------------------
(* The parser on an arbitrary bus with the bit counts of the code. *)
EXTENDS ParserBus
=============================================================================

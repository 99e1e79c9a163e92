------------------------------- MODULE MCBuffer ------------------------------
(* A buffer of a few bytes, grown to a few more.                           *)
EXTENDS Buffer
=============================================================================

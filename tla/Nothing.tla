------------------------------ MODULE Nothing ------------------------------
(* What a column holds that is NULL in a table of Core, and a field that is *)
(* undefined in its memory.                                                *)
CONSTANT None
=============================================================================

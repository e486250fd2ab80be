------------------------------- MODULE MCKlib -------------------------------
(* Klib with every int and every string of up to three characters.       *)
EXTENDS Klib

KLNums == (-(UINT \div 2))..(UINT \div 2 - 1)
KLStrings == BoundedSeq({"a", "b", "/", "\\"}, 3)
=============================================================================

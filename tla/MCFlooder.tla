------------------------------ MODULE MCFlooder ------------------------------
(* Two flooders, and floods that overlap by one.                           *)
EXTENDS Flooder
CONSTANTS f1, f2, bootstrapper
MCMaxNonce == [f \in Flooders |-> IF f = f1 THEN 2 ELSE 1]
==============================================================================

--------------------------- MODULE MCBitcoinMiner ---------------------------
(* TLC instances of BitcoinMiner; the constants are numbers, see the cfgs. *)
EXTENDS BitcoinMiner
=============================================================================

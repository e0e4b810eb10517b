--------------------------- MODULE MCBondNetwork ----------------------------
(* Two participants, and one account that deploys and is the bond admin.   *)
(* The first participant holds a part of the sBTC it needs.                *)
EXTENDS BondNetwork
CONSTANT admin
MCInitialSbtc == [p \in Participants |-> 2 - p]
=============================================================================

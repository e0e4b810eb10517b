-------------------------- MODULE MCTxBroadcaster --------------------------
(* Three accounts as model values, as in ACCOUNT_KEYS.                     *)
EXTENDS TxBroadcaster, TLC
CONSTANTS s1, s2, s3
SenderSymmetry == Permutations(Senders)
=============================================================================

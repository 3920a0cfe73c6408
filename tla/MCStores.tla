-------------------------------- MODULE MCStores --------------------------------
(* Three transactions: enough for a listing whose order differs from any order *)
(* of the map and that skips an entry in the middle.                           *)
EXTENDS Stores

CONSTANTS t1, t2, t3

MCTxs == {t1, t2, t3}
================================================================================

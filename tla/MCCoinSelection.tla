---------------------------- MODULE MCCoinSelection ----------------------------
(* A wallet of four outputs with every choice of amounts and kinds: some targets *)
(* are paid at once, some make the author ask again, some cannot be paid, some   *)
(* only with inputs that are cheaper than the largest.                           *)
EXTENDS CoinSelection, TLC

CONSTANTS u1, u2, u3, u4

MCUtxos   == {u1, u2, u3, u4}
\* Outputs are interchangeable.
UtxoSymmetry == Permutations(MCUtxos)

MCAmounts == {4, 8, 20}
MCTargets == {2, 6, 13, 30}

MCKinds == {"p2pkh", "p2tr", "p2wpkh"}

\* A P2PKH input costs more than most outputs hold, a P2TR input less than the P2WPKH
\* input of the first estimate; what witnesses weigh is rounded up.
MCFee == [n \in [MCKinds -> 0..4] |->
            2 + 10 * n["p2pkh"] + 3 * (n["p2tr"] + n["p2wpkh"])
              + (n["p2tr"] * 4 + n["p2wpkh"] * 7 + 3) \div 4]
================================================================================

------------------------------- MODULE MCTimestamp -------------------------------
(* The address is paid by the second output, by two, or not at all; fees are    *)
(* negative, zero, part of the value, all of it, and more.                      *)
EXTENDS Timestamp

OnePath  == {"file"}
TwoPaths == {"file", "other"}

MCFees     == {-1, 0, 1, 2, 3}
MCContents == {"first", "second"}
MCFundings == { <<Output("other", 5), Output("ours", 2)>>,
                <<Output("ours", 2), Output("taproot", 1), Output("ours", 1)>>,
                <<Output("other", 1)>> }
================================================================================

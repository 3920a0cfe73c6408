----------------------------- MODULE MCSigningCall -----------------------------
(* Four keys of both parities, whose order by x-only bytes is not that by      *)
(* compressed bytes, and a quorum of two.  The operator's files give a signer  *)
(* to every key; to three; to two, one of them named twice, beside a wrong     *)
(* parity and a default key; three do not start; one names no signer.          *)
EXTENDS SigningCall, RemoteSigners

MCKeys == {3, -5, 7, -9}

At(user, host) == Url(user, <<host>>)

Urls(list) == "urls" :> list

MCOperatorFiles ==
  { Urls(<<At(3, "a"), At(-5, "b"), At(7, "c"), At(-9, "d")>>),
    Urls(<<At(7, "a"), At(-5, "b"), At(3, "c")>>),
    Urls(<<At(3, "a"), At(-9, "b"), At(3, "c"), At(5, "b"), At(11, "a")>>),
    Urls(<<At(3, "a"), At(NotAKey, "b")>>),
    Urls(<<At(3, "a")>>) @@ ("timeout_seconds" :> 0),
    Urls(<<At(3, "a")>>) @@ ("network" :> "testnet"),
    "network" :> "mainnet" }
================================================================================

----------------------------- MODULE RemoteSigners -----------------------------
(* internal/config/remote_signer.go: from the URLs of the configuration to the *)
(* map in which RemoteSigner looks up the URL of a covenant key.  A key is a   *)
(* nonzero integer whose sign is its parity (WitnessGen).  A URL is what       *)
(* stands before its "@" and the text after it, split at every "/".            *)
EXTENDS Integers, Sequences, SequencesExt

\* A user part that is not a public key.
NotAKey == 0

Url(user, address) == [user |-> user, address |-> address]

\* url.Parse: the host ends at the first "/" after the scheme.
Host(url) == Head(url.address)

\* Parse() refuses an empty list, a user part that is no key, a timeout of zero.
Parses(conf) ==
  /\ conf.urls # <<>>
  /\ \A i \in 1..Len(conf.urls) : conf.urls[i].user # NotAKey
  /\ conf.timeout_seconds > 0

\* Mutant: the last URL is used for every key.
LastUrl(urls, key) == urls[Len(urls)]

\* GetPubKeyToUrlMap: a key listed again gets its last URL.
UrlOf(urls, key) == urls[SelectLastInSeq(urls, LAMBDA u : u.user = key)]

\* The keys of the map are compressed encodings: parity counts.
PubKeyToUrlMap(urls) ==
  [k \in {urls[i].user : i \in 1..Len(urls)} |-> Host(UrlOf(urls, k))]

\* defaultUrls, "http://%s@%s:%d": defaultHost already begins with "http://".
DefaultUrls(key) == <<Url(key, <<"http:", "", "127.0.0.1:9791">>)>>

DefaultTimeout == 2
================================================================================

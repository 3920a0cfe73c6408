----------------------------- MODULE Configuration -----------------------------
(* The configuration file from dump-cfg and the operator to the start of a     *)
(* pipeline command (config.go, dumpDefaultCfgCmd.go, and the construction of  *)
(* the pipeline).  A file holds some of the settings; a dump that is cut short *)
(* leaves the first ones, and perhaps a line that is not TOML.                 *)
EXTENDS RemoteSigners

CONSTANTS
  OperatorFiles,   \* what an operator may write: functions from settings to values
  DumpKey, RunKey  \* default keys of the process that dumps and of the one that runs

VARIABLES
  file,      \* the file at --config
  dump,      \* where a dump-cfg process is
  startup,   \* how the pipeline command started
  signers    \* RemoteSigner.pkToUrlMap

vars == <<file, dump, startup, signers>>

\* In the order of defaultConfigTemplate.
Settings == <<"network", "urls", "timeout_seconds">>
Networks == {"testnet3", "mainnet", "regtest", "simnet", "signet"}

File(toml, settings) == [there |-> TRUE, toml |-> toml, settings |-> settings]
NoFile == [File(FALSE, <<>>) EXCEPT !.there = FALSE]

\* Each process makes its own default key when it starts.
DefaultConfig(key) ==
  [network |-> "regtest", urls |-> DefaultUrls(key), timeout_seconds |-> DefaultTimeout]

Init == file = NoFile /\ dump = "idle" /\ startup = "none" /\ signers = <<>>

\* WriteConfigToFile: only where there is no file yet ...
Stat ==
  /\ dump = "idle" /\ file = NoFile
  /\ dump' = "create"
  /\ UNCHANGED <<file, startup, signers>>

\* ... and os.WriteFile opens it, and empties it if one appeared since, ...
Create ==
  /\ dump = "create"
  /\ file' = File(TRUE, <<>>)
  /\ dump' = "write"
  /\ UNCHANGED <<startup, signers>>

\* ... then writes.
Write ==
  /\ dump = "write"
  /\ file' = File(TRUE, DefaultConfig(DumpKey))
  /\ dump' = "idle"
  /\ UNCHANGED <<startup, signers>>

\* The disk is full or the process dies: the first n settings are there.
Interrupted(n, toml) ==
  /\ dump = "write"
  /\ file' = File(toml, [s \in {Settings[i] : i \in 1..n} |-> DefaultConfig(DumpKey)[s]])
  /\ dump' = "idle"
  /\ UNCHANGED <<startup, signers>>

\* The operator replaces the file; a dump that has opened the old one is lost.
Edit(settings) ==
  /\ file' = File(TRUE, settings)
  /\ dump' = IF dump = "write" THEN "idle" ELSE dump
  /\ UNCHANGED <<startup, signers>>

\* viper.Unmarshal over the defaults: what the file does not set stays.
Overlay(settings, default) ==
  [s \in DOMAIN settings \cup DOMAIN default |->
     IF s \in DOMAIN settings THEN settings[s] ELSE default[s]]

\* GetConfig returns the error of a missing or broken file.
StartFails == startup' = "error" /\ UNCHANGED signers

\* NewUnbondingPipelineFromConfig: the signer's part is parsed, an unknown
\* network found later is a panic.
StartWith(conf) ==
  IF ~Parses(conf) THEN StartFails
  ELSE IF conf.network \notin Networks
  THEN startup' = "panic" /\ UNCHANGED signers
  ELSE startup' = "ok" /\ signers' = PubKeyToUrlMap(conf.urls)

\* The clients of the database and the node may fail too.
Start ==
  /\ startup = "none"
  /\ \/ StartFails
     \/ file.toml /\ StartWith(Overlay(file.settings, DefaultConfig(RunKey)))
  /\ UNCHANGED <<file, dump>>

\* The file is read once: what happens to it after the start is left out.
Next ==
  /\ startup = "none"
  /\ \/ Stat \/ Create \/ Write \/ Start
     \/ \E n \in 0..2, toml \in BOOLEAN : Interrupted(n, toml)
     \/ \E settings \in OperatorFiles : Edit(settings)

Spec == Init /\ [][Next]_vars
--------------------------------------------------------------------------------
\* "in the format http://covenant_pk@signer_host:port" (remote_signer.go:25, and
\* the comment of the dumped file, config.go:70): what follows the "@" is the
\* host that is asked.
SignersInDocumentedFormat ==
  startup = "ok" =>
    LET urls == Overlay(file.settings, DefaultConfig(RunKey)).urls
    IN  \A i \in 1..Len(urls) : urls[i].address = <<Host(urls[i])>>
================================================================================

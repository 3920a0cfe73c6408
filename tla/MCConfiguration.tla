---------------------------- MODULE MCConfiguration ----------------------------
(* No file of an operator: a dumped file, or what is left of it, is started.   *)
EXTENDS Configuration

NoOperatorFiles == {}
================================================================================

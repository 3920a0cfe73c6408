--------------------------- MODULE MCPersistentStore ---------------------------
(* Two processes adding documents, whose _id's compare either way.             *)
EXTENDS PersistentStore

TwoWriters == {1, 2}
================================================================================

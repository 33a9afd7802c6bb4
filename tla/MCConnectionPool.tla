-------------------------- MODULE MCConnectionPool --------------------------
(***************************************************************************)
(* Small instances of ConnectionPool: more threads than connections.       *)
(***************************************************************************)
EXTENDS ConnectionPool

=============================================================================

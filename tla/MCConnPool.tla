----------------------------- MODULE MCConnPool -----------------------------
(***************************************************************************)
(* A small instance of ConnPool.                                           *)
(***************************************************************************)
EXTENDS ConnPool, TLC
=============================================================================

----------------------------- MODULE MCTcpHandshake -----------------------------
(* One client and one server; the sequence numbers cross the largest signed     *)
(* number; a process may be killed and started again.                           *)
EXTENDS TcpHandshake
================================================================================

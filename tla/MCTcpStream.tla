------------------------------ MODULE MCTcpStream ------------------------------
(* Two rounds of the echo; the sequence numbers cross the largest signed one.   *)
EXTENDS TcpStream
================================================================================

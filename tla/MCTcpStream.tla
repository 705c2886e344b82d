----------------------------- MODULE MCTcpStream -----------------------------
(* Instances of TcpStreamData for TLC.                                      *)
EXTENDS TcpStreamData

=============================================================================

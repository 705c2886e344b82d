-------------------------------- MODULE MCUdp --------------------------------
(***************************************************************************)
(* UdpData on a small instance: channels of one datagram, smoltcp buffers  *)
(* of two slots and three bytes, datagrams of one and of two bytes, of     *)
(* which the longer is too large for the read buffer.                      *)
(***************************************************************************)
EXTENDS UdpData

=============================================================================

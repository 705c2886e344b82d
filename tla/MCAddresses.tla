----------------------------- MODULE MCAddresses -----------------------------
(***************************************************************************)
(* StackAddresses on a small instance: two tunnels; octets of two bits,    *)
(* one in an IPv4 address and two in an IPv6 one; TAP addresses with no    *)
(* carry, with a carry between octets and with one out of the address;     *)
(* a client with an address of its own or one picked from the TAP's; three *)
(* ports, so that the second allocation is port 0 and the third is outside *)
(* the ephemeral range.                                                    *)
(***************************************************************************)
EXTENDS StackAddresses, TLC

MCTaps == {<<1>>, <<0, 3>>, <<3, 3>>}
MCIps == {<<2>>, <<0, 0>>}

TunnelSymmetry == Permutations(Tunnels)

=============================================================================

------------------------------- MODULE MCSetup -------------------------------
(***************************************************************************)
(* TunnelSetup with two connect calls.                                     *)
(***************************************************************************)
EXTENDS TunnelSetup

\* One the proxy refuses and one it accepts.
MCConfigs ==
  {[addr |-> "invalid", mtu |-> 1500], [addr |-> "v4", mtu |-> 9000]}

MCDefaultMtu == {[addr |-> "v6", mtu |-> 1500]}

=============================================================================

-------------------------- MODULE MCBundleApproval --------------------------
(* A small instance of BundleApproval: the pinned bundle has one capability *)
(* and defines its sandbox in one of two modes.                             *)
EXTENDS BundleApproval

CONSTANTS base, strict, dnspin

MCMode == {strict, dnspin}
MCPinned == [caps |-> {base}, modes |-> [s \in Sandbox |-> strict]]
=============================================================================

------------------------ MODULE MCTenantProvisioning ------------------------
(* Instances of TenantProvisioning for TLC. *)
EXTENDS TenantProvisioning
=============================================================================

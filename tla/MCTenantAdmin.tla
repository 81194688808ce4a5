--------------------------- MODULE MCTenantAdmin ---------------------------
(* The tenant administration page with two registered workspaces, one user with
   inherited access, one save and one change from elsewhere. *)
EXTENDS TenantAdmin

CONSTANTS w1, w2, a1, n1
=============================================================================

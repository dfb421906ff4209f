--------------------------- MODULE MCRentalAlerts ---------------------------
(***************************************************************************)
(* The default tenant, whom the panel and the sweep do not call the same:  *)
(* get_tenant_id says "default", pl_alert_enabled_tenants "".              *)
(***************************************************************************)
EXTENDS RentalAlerts
=============================================================================

-------------------------- MODULE MCTenantRouting --------------------------
(* Instances of TenantRouting for TLC: hosts of a tenant, of a reserved    *)
(* label and of two labels, with clients that agree with the host or not.  *)
EXTENDS TenantRouting

Says(q, t, h, x) == [organization |-> q, tenant |-> t, orgHeader |-> h, tenantHeader |-> x]

Example == <<"example">>
Visitors ==
  [host : {<<"acme", "example">>, <<"www", "example">>},
   sel  : {NoSelection, Says("acme", "", "acme", ""), Says("", "deep", "", "deep"),
           Says("deep", "acme", "", "acme")}]
  \cup {[host |-> <<"deep", "acme", "example">>, sel |-> Says("", "", "deep", "")]}
=============================================================================

-------------------------- MODULE MCSetupPolicies --------------------------
(* Two concurrent runs, and of what the script creates two agent policies, *)
(* one with two integrations, with names that differ by their prefix only. *)
EXTENDS SetupPolicies, StockPolicies

MCPolicies == {"proxmox-host", "media-vm"}
MCOrder == SelectSeq(StockOrder, LAMBDA p : p \in MCPolicies)
MCNames == {"proxmox-host-system", "proxmox-host-journal-errors", "media-vm-system"}
MCScript == SelectSeq(StockScript, LAMBDA n : n \in MCNames)
MCPolicyOf == [n \in MCNames |-> StockPolicyOf[n]]
=============================================================================

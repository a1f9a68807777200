--------------------------- MODULE StockPolicies ---------------------------
(***************************************************************************)
(* The agent policies and the integrations that fleet/setup-policies.py    *)
(* creates, in the order it creates them: what the constants of            *)
(* SetupPolicies stand for.                                                *)
(***************************************************************************)
EXTENDS Naturals, Sequences

\* The order main() ensures the agent policies in.
StockOrder == <<"proxmox-host", "media-vm", "stack-vm">>

MediaApps == <<"sonarr", "radarr", "lidarr", "readarr", "prowlarr", "bazarr",
               "jellyfin", "kavita", "emby">>

ProxmoxPolicy == <<"system", "linux-metrics", "journal-errors", "proxmox-hardware">>

MediaPolicy ==
    <<"system", "docker", "journal-errors">>
        \o [i \in 1..Len(MediaApps) |-> MediaApps[i] \o "-logs"]

NetworkReceivers ==
    <<"qnap-syslog", "unifi-activity-cef", "unifi-traffic-iptables", "unifi-netflow">>

StackPolicy == <<"system", "docker", "journal-errors">> \o NetworkReceivers

\* Integration names are unique across the whole of Fleet, not just within one
\* agent policy, so add() prefixes each with its policy.
FullName(policy, name) == policy \o "-" \o name

Prefixed(policy, names) == [i \in 1..Len(names) |-> FullName(policy, names[i])]

Filled == [proxmox |-> Prefixed("proxmox-host", ProxmoxPolicy),
           media   |-> Prefixed("media-vm", MediaPolicy),
           stack   |-> Prefixed("stack-vm", StackPolicy)]

StockScript == Filled.proxmox \o Filled.media \o Filled.stack

NameSet(s) == {s[i] : i \in 1..Len(s)}

StockPolicyOf ==
    [n \in NameSet(StockScript) |->
        IF n \in NameSet(Filled.proxmox) THEN "proxmox-host"
        ELSE IF n \in NameSet(Filled.media) THEN "media-vm" ELSE "stack-vm"]

\* What the script counts on: no two add() calls ask for one name, though all three
\* policies have a "system" and a "journal-errors".
ASSUME StockAssumption ==
    /\ \A i, j \in 1..Len(StockScript) : StockScript[i] = StockScript[j] => i = j
    /\ \A n \in NameSet(StockScript) : StockPolicyOf[n] \in NameSet(StockOrder)
=============================================================================

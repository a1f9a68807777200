------------------------------ MODULE Collected ------------------------------
(***************************************************************************)
(* What the integrations of fleet/setup-policies.py collect, and what of   *)
(* it stack/gen-dashboards.py sees when it asks Fleet.                     *)
(***************************************************************************)
EXTENDS StockPolicies

Policies ==
    {NameSet(ProxmoxPolicy), NameSet(MediaPolicy), NameSet(StackPolicy)}

\* custom_log() and proxmox_policy(): the dataset a Custom Logs input writes to.
LogSet ==
    [n \in {"proxmox-hardware"} \union {MediaApps[i] \o "-logs" : i \in 1..Len(MediaApps)} |->
        IF n = "proxmox-hardware" THEN "proxmox_hw"
        ELSE CHOOSE a \in NameSet(MediaApps) : a \o "-logs" = n]

Receivers == [qnap_nas |-> "qnap-syslog", cef |-> "unifi-activity-cef",
              iptables |-> "unifi-traffic-iptables", netflow |-> "unifi-netflow"]

\* The names above are composed of those of applications and packages, which makes
\* them different from each other and the receivers' streams the ones below.
ASSUME NamesAssumption ==
    /\ \A a \in NameSet(MediaApps) :
          /\ a \o "-logs" \notin ({"system", "docker", "linux-metrics", "journal-errors",
                                 "proxmox-hardware"} \union NameSet(NetworkReceivers))
          /\ \A b \in NameSet(MediaApps) : a \o "-logs" = b \o "-logs" => a = b
    /\ \A p \in DOMAIN Receivers :
          p \o ".log" = [qnap_nas |-> "qnap_nas.log", cef |-> "cef.log",
                         iptables |-> "iptables.log", netflow |-> "netflow.log"][p]

\* The package an integration is of: each receiver's is its own.
Package(n) ==
    CASE n \in DOMAIN LogSet      -> "log"
      [] n = "linux-metrics"      -> "linux"
      [] n = "journal-errors"     -> "journald"
      [] n \in {"system", "docker"} -> n
      [] OTHER -> CHOOSE p \in DOMAIN Receivers : Receivers[p] = n

\* The data streams of metrics; linux.raid is off.  setup-policies.py names those of
\* `linux', and of `system' what it leaves on or configures (128-141, 270); docker's, and
\* system.load, are what the packages come with.
MetricSets(n) ==
    CASE n = "system" -> {"system.cpu", "system.memory", "system.filesystem", "system.load",
                          "system.network", "system.diskio", "system.process", "system.uptime"}
      [] n = "linux-metrics" -> {"linux.service", "linux.network_summary", "linux.conntrack",
                                 "linux.memory", "linux.iostat"}
      [] n = "docker" -> {"docker.container", "docker.cpu", "docker.memory"}
      [] OTHER -> {}

\* The data streams of logs; docker's is what the package comes with.
LogSets(n) ==
    CASE n \in DOMAIN LogSet  -> {LogSet[n]}
      [] n = "docker"         -> {"docker.container_logs"}
      [] n = "journal-errors" -> {"journal_errors"}
      [] n = "system" \/ n = "linux-metrics" -> {}
      [] OTHER -> {Package(n) \o ".log"}

Sets(n) == MetricSets(n) \union LogSets(n)

\* A package counts if an integration of it is there; a Custom Logs dataset and a
\* receiver only if their stream is on.
PolicyCapabilities_CountsStreamsOff(held, off) ==
    [packages  |-> {Package(n) : n \in held},
     datasets  |-> {LogSet[n] : n \in held \intersect DOMAIN LogSet},
     receivers |-> {Package(n) : n \in held} \intersect DOMAIN Receivers]

\* policy_capabilities(), for a policy that holds the integrations `held', with the
\* streams of the datasets `off' switched off in Fleet.
PolicyCapabilities(held, off) ==
    [packages  |-> {Package(n) : n \in held},
     datasets  |-> {LogSet[n] : n \in held \intersect DOMAIN LogSet} \ off,
     receivers |-> {p \in DOMAIN Receivers : Receivers[p] \in held /\ p \o ".log" \notin off}]
=============================================================================

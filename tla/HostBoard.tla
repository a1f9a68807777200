------------------------------ MODULE HostBoard ------------------------------
(***************************************************************************)
(* host_dashboard() of stack/gen-dashboards.py: the dashboard of one host, *)
(* from what the policy of its agent collects.  caps is the entry of the   *)
(* policy in policy_capabilities(): packages, datasets and receivers.      *)
(* Every query but those of no dataset is narrowed to the host as well.    *)
(***************************************************************************)
EXTENDS Panels

Everything == {}

\* The row of figures at the top.
Figures ==
    <<MetricPanel(4, 4, {"system.cpu"}, {}),
      MetricPanel(4, 4, {"system.memory"}, {}),
      MetricPanel(4, 4, {"system.filesystem"}, {}),
      MetricPanel(4, 4, {"system.load"}, {}),
      MetricPanel(4, 4, {"system.uptime"}, {}),
      LogPanel(4, 4, Everything, {})>>

Resources ==
    <<Heading("Resources"),
      MetricPanel(12, 8, {"system.cpu"}, {}),
      MetricPanel(12, 8, {"system.memory"}, {}),
      MetricPanel(8, 8, {"system.filesystem"}, {Terms("system.filesystem.mount_point")}),
      MetricPanel(8, 8, {"system.network"}, {Terms("system.network.name")}),
      MetricPanel(8, 8, {"system.diskio"}, {Terms("system.diskio.name")}),
      MetricPanel(24, 8, {"system.filesystem"},
                  {TermsOr("system.filesystem.device_name", "word"),
                   TermsOr("system.filesystem.mount_point", "word"),
                   TermsOr("system.filesystem.type", "word")})>>

HwPanel(kind, shows, by) == PanelOf(12, 8, Logs, {HwQuery(kind, shows, {Terms(f) : f \in by})})

\* What hwstats.py reports of the host.
Hardware ==
    <<Heading("Hardware"),
      HwPanel("temperature", {"hw.sensor.celsius"}, {"hw.sensor.label"}),
      HwPanel("disk", {"hw.disk.celsius"}, {"hw.disk.device"}),
      HwPanel("disk", {"hw.disk.celsius", "hw.disk.power_on_hours", "hw.disk.reallocated_sectors",
                       "hw.disk.pending_sectors", "hw.disk.percentage_used"}, {"hw.disk.device"}),
      HwPanel("zpool", {"hw.zpool.capacity_pct", "hw.zpool.free_bytes", "hw.zpool.size_bytes",
                        "hw.zpool.fragmentation_pct"}, {"hw.zpool.name", "hw.zpool.health"})>>

Units_AsLogs ==
    <<Heading("systemd units"),
      LogPanel(4, 6, {"linux.service"}, {}),
      LogPanel(20, 6, {"linux.service"},
               {Terms("system.service.name"), Terms("system.service.sub_state")})>>

\* linux.service is a metrics data stream, unlike everything else that is about units.
Units ==
    <<Heading("systemd units"),
      MetricPanel(4, 6, {"linux.service"}, {}),
      MetricPanel(20, 6, {"linux.service"},
                  {Terms("system.service.name"), Terms("system.service.sub_state")})>>

Containers ==
    <<Heading("Containers"),
      MetricPanel(4, 7, {"docker.container"}, {}),
      MetricPanel(10, 7, {"docker.cpu"}, {Terms("container.name")}),
      MetricPanel(10, 7, {"docker.memory"}, {Terms("container.name")}),
      LogPanel(12, 7, {"docker.container_logs"}, {Terms("container.name")}),
      LogPanel(12, 7, {"docker.container_logs"}, {Terms("container.name")})>>

\* Whatever the Custom Logs inputs of the policy collect.
Applications(sets) ==
    <<Heading("Application logs"),
      LogPanel(12, 8, sets, {Terms("event.dataset")}),
      LogPanel(12, 8, sets, {Terms("event.dataset")}),
      LogPanel(24, 10, sets, {})>>

AllLogs(journald) ==
    <<Heading("All logs"),
      LogPanel(16, 8, Everything, {Terms("event.dataset")}),
      LogPanel(8, 8, Everything, {Terms("event.dataset")})>> \o
    IF journald
    THEN <<LogPanel(12, 10, {"journal_errors"}, {}), LogPanel(12, 10, Everything, {})>>
    ELSE <<LogPanel(24, 10, Everything, {})>>

Where(condition, section) == IF condition THEN section ELSE <<>>

HostDashboard_OneOrTheOther(caps) ==
    LET sets == caps.datasets \ {"proxmox_hw"} IN
    Figures \o Resources
        \o Where("proxmox_hw" \in caps.datasets, Hardware)
        \o Where("linux" \in caps.packages, Units)
        \o Where("docker" \in caps.packages /\ sets = {}, Containers)
        \o Where(sets # {}, Applications(sets))
        \o AllLogs("journald" \in caps.packages)

HostDashboard(caps) ==
    LET sets == caps.datasets \ {"proxmox_hw"} IN
    Figures \o Resources
        \o Where("proxmox_hw" \in caps.datasets, Hardware)
        \o Where("linux" \in caps.packages, Units)
        \o Where("docker" \in caps.packages, Containers)
        \o Where(sets # {}, Applications(sets))
        \o AllLogs("journald" \in caps.packages)
=============================================================================

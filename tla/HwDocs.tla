------------------------------- MODULE HwDocs -------------------------------
(***************************************************************************)
(* The documents proxmox/hwstats.py writes: one for each temperature, disk *)
(* and ZFS pool it reads, with hw.kind and the fields below, by their full *)
(* names: a temperature's are below hw.sensor, the others' below the kind. *)
(* One for a collector that failed has none of them.                       *)
(***************************************************************************)

Kinds == {"temperature", "disk", "zpool"}

\* What a reading of each kind has at least ...
AlwaysIn ==
    [temperature |-> {"hw.sensor.chip", "hw.sensor.label", "hw.sensor.celsius"},
     disk        |-> {"hw.disk.device"},
     zpool       |-> {"hw.zpool.name", "hw.zpool.health", "hw.zpool.healthy"}]

\* ... and what it has if the drive or the pool reports it: smartctl's summary, and
\* NVMe's health log (nvme) or the SMART attributes (sata), by the kind of the drive.
NvmeFields ==
    {"hw.disk.percentage_used", "hw.disk.media_errors", "hw.disk.critical_warning",
     "hw.disk.available_spare"}

SataFields_RawNames ==
    {"hw.disk.reallocated", "hw.disk.power_on_hours", "hw.disk.uncorrect", "hw.disk.pending"}

SataFields ==
    {"hw.disk.reallocated_sectors", "hw.disk.power_on_hours", "hw.disk.reported_uncorrect",
     "hw.disk.pending_sectors", "hw.disk.offline_uncorrectable"}

DiskFields ==
    {"hw.disk.model", "hw.disk.serial", "hw.disk.smart_passed", "hw.disk.celsius",
     "hw.disk.power_on_hours"}

PoolFields ==
    {"hw.zpool.size_bytes", "hw.zpool.allocated_bytes", "hw.zpool.free_bytes",
     "hw.zpool.capacity_pct", "hw.zpool.fragmentation_pct"}

FieldsOf ==
    [temperature |-> AlwaysIn.temperature,
     disk        |-> AlwaysIn.disk \union DiskFields \union NvmeFields \union SataFields,
     zpool       |-> AlwaysIn.zpool \union PoolFields]
=============================================================================

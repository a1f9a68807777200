---------------------------- MODULE NetworkBoards ----------------------------
(***************************************************************************)
(* The dashboards of stack/gen-dashboards.py about the devices that send   *)
(* syslog and NetFlow to the stack VM: one about the receivers, one for    *)
(* each receiver, and one for both of UniFi's.                             *)
(***************************************************************************)
EXTENDS Panels

\* NET_SOURCES: the receivers' packages, in order, and the dataset of each.
NetSources == <<"qnap_nas.log", "cef.log", "iptables.log", "netflow.log">>
NetSets == {NetSources[i] : i \in 1..4}

NetworkOverview ==
    [i \in 1..4 |-> LogPanel(6, 4, {NetSources[i]}, {})] \o
    [i \in 1..4 |-> LogPanel(6, 4, {NetSources[i]}, {})] \o
    <<Heading("Ingest"),
      LogPanel(16, 8, NetSets, {Terms("event.dataset")}),
      LogPanel(8, 8, NetSets, {Terms("log.source.address")}),
      Heading("Everything arriving"),
      LogPanel(24, 12, NetSets, {})>>

\* A panel of one receiver's events, grouped by some fields.
Of(set, w, h, fields) == LogPanel(w, h, {set}, {Terms(f) : f \in fields})

\* The same with a word for events that lack one of the fields in words.
OfOr(set, w, h, fields, words) ==
    LogPanel(w, h, {set}, {Terms(f) : f \in fields} \union {TermsOr(f, "word") : f \in words})

Detail(set) == <<Heading("Detail"), Of(set, 24, 12, {})>>

\* Four figures open each of these dashboards.
Four(set) == [i \in 1..4 |-> Of(set, 6, 4, {})]

QnapDashboard ==
    LET Q(w, h, fields) == Of("qnap_nas.log", w, h, fields) IN
    Four("qnap_nas.log") \o
    <<Heading("Activity"),
      Q(12, 8, {"qnap.nas.category"}), Q(12, 8, {"event.action"}),
      Q(8, 8, {"user.name"}), Q(8, 8, {"source.address"}), Q(8, 8, {"qnap.nas.application"}),
      Heading("File access"),
      Q(12, 9, {"qnap.nas.file.path", "event.action"}),
      Q(12, 9, {"qnap.nas.connection_type"})>> \o
    Detail("qnap_nas.log")

CefDashboard ==
    LET Q(w, h, fields, words) == OfOr("cef.log", w, h, fields, words) IN
    Four("cef.log") \o
    <<Heading("Activity"),
      Q(16, 8, {"cef.name"}, {}), Q(8, 8, {"cef.severity"}, {}),
      Q(8, 8, {}, {"cef.name", "cef.device.event_class_id"}),
      Q(8, 8, {}, {"cef.device.vendor", "cef.device.product", "observer.name"}),
      Q(8, 8, {"source.ip"}, {})>> \o
    Detail("cef.log")

IptablesDashboard_NamesPort ==
    LET Q(w, h, fields, words) == OfOr("iptables.log", w, h, fields, words) IN
    Four("iptables.log") \o
    <<Heading("Traffic"), Q(8, 8, {}, {"destination.port", "network.transport"})>> \o
    Detail("iptables.log")

IptablesDashboard ==
    LET Q(w, h, fields, words) == OfOr("iptables.log", w, h, fields, words) IN
    Four("iptables.log") \o
    <<Heading("Traffic"),
      Q(12, 8, {"event.action"}, {}), Q(12, 8, {"iptables.ubiquiti.rule_set"}, {}),
      Q(8, 8, {}, {"observer.name", "event.action"}),
      Q(8, 8, {"source.ip"}, {}),
      LogPanel(8, 8, {"iptables.log"}, {TermsOr("destination.port", "number"),
                                        TermsOr("network.transport", "word")}),
      Q(8, 8, {}, {"iptables.ubiquiti.rule_set", "iptables.ubiquiti.rule_number",
                   "event.action"}),
      Q(12, 7, {"network.transport"}, {}),
      Q(12, 7, {}, {"source.geo.country_iso_code"})>> \o
    Detail("iptables.log")

UnifiDashboard ==
    LET both == {"cef.log", "iptables.log"}
        Both(w, h, words) == LogPanel(w, h, both, {TermsOr(f, "word") : f \in words})
        Cef(fields, words) == OfOr("cef.log", 12, 8, fields, words)
        Fw(fields, words)  == OfOr("iptables.log", 12, 8, fields, words) IN
    <<Both(6, 4, {}), Both(6, 4, {}), Of("cef.log", 6, 4, {}), Of("cef.log", 6, 4, {}),
      Heading("Threats"),
      Cef({"rule.name"}, {}),
      Cef({}, {"network.direction", "observer.name"}),
      Cef({}, {"rule.name", "rule.ruleset"}),
      Cef({"source.ip"}, {"source.geo.country_iso_code"}),
      Heading("Firewall"),
      Fw({}, {"observer.name"}),
      Fw({"rule.name"}, {}),
      Fw({}, {"rule.ruleset", "rule.name", "event.action"}),
      LogPanel(12, 8, {"iptables.log"}, {Terms("source.ip"), TermsOr("destination.port", "number"),
                                         TermsOr("network.transport", "word")}),
      Heading("Management plane"),
      Cef({"source.ip"}, {"source.user.name", "observer.name"}),
      Cef({}, {}),
      Heading("Devices"),
      Both(12, 8, {"observer.name", "event.dataset"}), Both(12, 8, {}),
      Heading("Detail"),
      Both(24, 12, {})>>

NetflowDashboard ==
    LET Q(w, h, fields) == Of("netflow.log", w, h, fields) IN
    Four("netflow.log") \o
    <<Heading("Volume"),
      Q(12, 8, {"source.ip"}), Q(12, 8, {"destination.ip"}),
      Q(8, 8, {"source.ip"}), Q(8, 8, {"source.ip", "destination.ip"}),
      Q(8, 8, {"destination.port", "network.transport"})>>

\* The network dashboards main() builds, by the receivers the policies have on.
NetworkDashboards(receivers) ==
    {"overview"} \union receivers \union
    (IF receivers \intersect {"cef", "iptables"} # {} THEN {"unifi"} ELSE {})

\* NETWORK_BUILDERS, and the two dashboards main() adds to them: their files, in the
\* order main() comes to them, and what they hold.
NetworkFiles ==
    <<[board |-> "overview", file |-> "network-overview"],
      [board |-> "cef",      file |-> "network-unifi-activity"],
      [board |-> "iptables", file |-> "network-unifi-firewall"],
      [board |-> "netflow",  file |-> "network-netflow"],
      [board |-> "qnap_nas", file |-> "network-qnap"],
      [board |-> "unifi",    file |-> "network-unifi"]>>

Builder(name) ==
    CASE name = "overview" -> NetworkOverview
      [] name = "qnap_nas" -> QnapDashboard
      [] name = "cef"      -> CefDashboard
      [] name = "iptables" -> IptablesDashboard
      [] name = "netflow"  -> NetflowDashboard
      [] name = "unifi"    -> UnifiDashboard
=============================================================================

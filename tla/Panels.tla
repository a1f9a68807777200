------------------------------- MODULE Panels -------------------------------
(***************************************************************************)
(* The panels stack/gen-dashboards.py builds dashboards of, without their  *)
(* wording: the data source of a panel, and for each of its queries the    *)
(* data source, the datasets (event.dataset) it names, the fields it       *)
(* groups by and, of the hardware readings, the fields it shows.           *)
(***************************************************************************)
EXTENDS Integers, Sequences

Logs    == "es-logs"
Metrics == "es-metrics"

Heading(title) == [heading |-> TRUE, body |-> [title |-> title]]

\* One bucket of a grouping. A document without the field makes a bucket of its own
\* only with a `missing' value, which Elasticsearch parses as the field's own type.
Terms(field) == [field |-> field, missing |-> "nothing"]
TermsOr(field, missing) == [field |-> field, missing |-> missing]

\* target(): a query over all datasets if sets is {}.
Query(source, sets, by) ==
    [source |-> source, sets |-> sets, by |-> by, kind |-> "any", shows |-> {}]

\* A query of the hardware readings of one hw.kind.
HwQuery(kind, shows, by) ==
    [source |-> Logs, sets |-> {"proxmox_hw"}, by |-> by, kind |-> kind, shows |-> shows]

\* stat(), timeseries() and table(): a width, a height, a data source and queries.
PanelOf(w, h, source, queries) ==
    [heading |-> FALSE, w |-> w, h |-> h, body |-> [source |-> source, queries |-> queries]]

\* logs_panel() and last_seen(), and any panel that leaves the data source out.
LogPanel(w, h, sets, by) == PanelOf(w, h, Logs, {Query(Logs, sets, by)})

MetricPanel(w, h, sets, by) == PanelOf(w, h, Metrics, {Query(Metrics, sets, by)})
=============================================================================

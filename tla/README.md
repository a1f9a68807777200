# Verification of the homelab Elastic logging stack

The repository sets up a logging stack (Elasticsearch, Kibana with Fleet, Logstash,
Grafana) with scripts an operator runs, in whatever order, more than once, and sometimes
not to the end. Nearly everything that can go wrong goes wrong *between* two calls of a
script: it dies, it is run twice, somebody edits in the Fleet UI, Docker restarts a
container. That is what the modules here are about; what a script does in one call, and
what it prints, is left to reading it.

## 1. Inventory

| Component | State it keeps | Operations | Talks to |
|---|---|---|---|
| Policy creation, `fleet/setup-policies.py` | which policies this run created | ensure policies, fill fresh ones | Fleet, called by bootstrap |
| Policy edits, `fleet/toggle-stream.py`, `fleet/migrate-*.py` | its copy of all policies | GET, plan, PUT per policy | Fleet |
| CEF rescue, `pipelines/migrate-unifi-cef.sh` | none; Elasticsearch runs its requests | count, reindex, purge | Elasticsearch |
| Application keys, `stack/create-app-credentials.sh` | none | mint, revoke | Elasticsearch, the application's configuration |
| Certificates, `stack/setup-certs.sh`, `stack/migrate-cert-chain.sh` | `certs/`, `.env` | generate, append, restart, verify | containers, agents |
| Bootstrap, `stack/bootstrap.sh`, `stack/docker-compose.yml` | `.env` | preflight, start, users, token, policies | all of the above |
| Dashboards, `stack/gen-dashboards.py` | generated JSON files | collect hosts and policies, build, write, prune | Fleet, Elasticsearch, Grafana, users |
| Pipelines, `pipelines/install.sh`, `pipelines/*.json` | Elasticsearch's pipelines | PUT in an order | Elasticsearch |
| iptables backfill, `pipelines/backfill-unifi-iptables.sh` | none | update by query | Elasticsearch |
| TCP intake, `stack/logstash/pipeline/app-tcp.conf` | none | parse, choose the dataset, index | applications, Elasticsearch |
| Hardware statistics, `proxmox/hwstats.py` | an append-only file, rotated | collect | the agent |
| Agent installation, `proxmox/`, `vms/`; read-only helpers; Grafana provisioning | none of their own | | |

All but the last row and the two of the pipelines and the backfill are modelled, the
bootstrap, the intake and the hardware statistics in part; section 6 says what is not and why.

How they interact: `bootstrap.sh` starts containers that read `certs/` and `.env`, which
`setup-certs.sh` wrote; Kibana passes the fingerprint in `.env` on to every agent; the
policy scripts and the user share Fleet's policies, and Fleet gives no script a lock; the
rescue shares its indices with the agents that go on shipping; keys, tokens and passwords
are shared between Elasticsearch and files that only one script writes. The dashboard
generator reads the policies that `setup-policies.py` wrote, asks for the fields that
`hwstats.py` writes, and shares its directory with Grafana, which rescans it, with users,
and with a second run of itself, as bootstrap starts it too.

What makes it hard: reads that are stale when they are acted on (Fleet's list of
policies, a policy without its revision); requests that go on in Elasticsearch when the
script is gone; secrets that are shown once; containers that keep what they read at their
start; scripts that may be killed between any two lines under `set -e`; and re-runs, on
which every script relies ("Safe to re-run", `bootstrap.sh:2`).

What makes each component correct:

- *Policy creation*: exit status 0 means that what it created is complete; what exists is
  never touched; two runs never both fill one policy.
- *Policy edits*: "Done" means that nothing is left to do; a write changes only what the
  script is for; running migrations again and again ends.
- *CEF rescue*: no line is lost, none is stored twice in one index, all are rescued
  in the end.
- *Application keys*: a key writes one dataset; revoking hits one dataset, all of it.
- *Certificates*: no file gets the CA twice; a verified migration is served by every
  container; agents trust a stack that was bootstrapped.
- *Service token*: Fleet Server's token is always valid; `.env` keeps it; a lost token does
  not block the next.
- *Dashboards*, the files: each enrolled host has one of its own; no user's dashboard is
  overwritten or deleted; Grafana never reads half a file; a run with nothing to change
  changes nothing. The contents: each panel asks the data source that has what it names,
  what a policy collects has a panel; panels ask for nothing else, but for the system's
  metrics and the rows that compare receivers; panels do not overlap.
- *Intake*: an unauthenticated event does not land in the data stream of an application
  that has a key, unless it came under that very dataset name.
- *Pipelines*: nothing refers to a pipeline that is not there.

## 2. Modules

| Module | Models | One step is |
|---|---|---|
| `SetupPolicies` | setup-policies.py, Fleet, the user | one API call, one user action |
| `StockPolicies` | the data of setup-policies.py: policies and integrations, in order | (no state) |
| `PolicyEdits` | toggle-stream.py and the four migrate-*.py, Fleet, the user | a GET with its plan, one PUT |
| `CefRescue` | migrate-unifi-cef.sh and what Elasticsearch does for it | one request, one document |
| `AppCredentials` | create-app-credentials.sh, Elasticsearch's keys, applications | one run |
| `Intake` | app-tcp.conf's choice of a dataset, beside `AppCredentials` | (adds no state) |
| `Certificates` | setup-certs.sh, migrate-cert-chain.sh, bootstrap.sh, containers, agents | one file written, one container command |
| `ServiceToken` | bootstrap.sh's token section, Elasticsearch, .env, Fleet Server | one command |
| `Dashboards` | the runs of gen-dashboards.py over Grafana's directory, users | one file opened, written, renamed or deleted |
| `Discovery` | which boards a run comes to, and their files' names | (no state) |
| `Generator` | `Dashboards` over what `Discovery` makes of Fleet's answers | |
| `Board` | class Board: the packing of a dashboard | one panel or heading |
| `Page` | what a page asks of any layout; `Board` implements it | one panel or heading |
| `Panels`, `HostBoard`, `NetworkBoards` | what every dashboard asks for, panel by panel | (no state) |
| `Collected` | what the stock policies collect, and policy_capabilities() | (no state) |
| `HwDocs` | the documents of hwstats.py | (no state) |
| `Boards` | one dashboard being built, from `Board` and the three rows above | one panel or heading |
| `MC*` | small instances | |
| `*Proofs` | theorems | |

**SetupPolicies.** `policies` and `integrations` are Fleet's; `pc`, `at` and `fresh` are a
run's: where `main()` is, the index it has reached, and the policies for which
`ensure_agent_policy()` returned True. `ListPolicies` and `CreatePolicy` are the GET and
the POST of that function, two steps because another run may come between. `Remaining`
is what `main()` does with its three flags: the `add()` calls of fresh policies, in script
order. `Fail` is an exception or a kill, `FailAfterPost` a call that was carried out and
not answered. `touched` and `found` are history, for the properties only.

**PolicyEdits.** A policy is a record of the settings the scripts tell apart (`Doc`).
`Needs` and `Changed` are the scripts' comparisons and assignments; `Fetch` is everything
from the GET to the first PUT (a check, or an empty plan, ends there); `Put` writes the copy
with the change, the whole policy, as the code does once it has dropped `revision`. `queue`
is what is still to be written, as positions in `DocOrder`, the order of Fleet's answer,
of which a run always takes the first.
`toggle-stream.py` reads again after its PUT; a failure there is in `FailAfterPut`. Where it
goes through the streams of a dataset and stops at the first that is as wanted (97-104), a
policy has one stream, `enabled`; no property depends on the difference. A
policy `convert()` refuses is `"odd"`; a stack without a policy has it as `Gone`.

**CefRescue.** `misfiled` is what the script's query matches. `copies` counts what
`logs-cef.log` has of each line, `inWrite` whether its present write index has one, as
`op_type=create` finds out. `todo` is Elasticsearch's: a reindex or a deletion works on
what its query matched when it began, and goes on after `Kill`. Documents are processed
in any order. A rollover is ILM's, which `bootstrap.sh:144` configures.

**AppCredentials.** A dataset is its characters, because `NAME` and the pattern are made
from it. `Valid` is the script's regular expression; the characters that are neither a dot
nor a hyphen are alike. `Issue(d, FALSE)` is a key whose answer was lost. `Intake` adds the
applications that have no key and write through Logstash's TCP port: `Kept` is the gsub and
the lowercase on one character, `Sanitised` the default and the cut at 90, and
`IntakeDataset` the dataset an event lands in under the name it came with.

**Certificates.** A CA is a number. A certificate file is the sequence of the CAs in it,
the leaf counting as its issuer, so `<<2>>` is leaf only and `<<2, 2>>` a chain.
`todo` is what a script has still to do, as positions in `Order`; `loaded` is what a
container read when it started, `outputFp` the fingerprint Kibana was
created with. The operator runs one script at a time, and `Kill` ends it anywhere.
`rm -rf` goes file by file in any order; `WriteFingerprint` stands for the key conversion
and permissions before it, which touch nothing that is modelled. `RestartRunning` may end the repair at once, with
"fixed", as when nothing runs: so it does, too, when `docker compose ps` fails
(`migrate-cert-chain.sh:91`). `Restart` is Docker's, and
also Elasticsearch's own reloading of its certificates.

**ServiceToken.** `valid` is Elasticsearch's token named `homelab`, `env` the line in
`.env`, `fleet` what the container was created with, `token` the run's environment.
Tokens are numbered; the line exists in `.env`, as in `.env.example`.

**Dashboards.** `shown` and `tmp` are the two names of each dashboard in the directory. A run
comes to its `boards` (`Discover`: a list of files with their contents, any of `Plans`),
then for each of them looks at what is there (`Look`), opens the `.tmp` (`Open`, which
empties it), writes it and renames it; then it lists the directory, and looks at, and
deletes, one file after another (`List`, `PruneLook`, `PruneRemove`). `fd` is the name by
which the file that a run has open goes by now: two runs that open one `.tmp` share a file,
which the first rename makes the visible one while the second is still writing it. `Write`
then leaves it whole or not, and so it does where something of another run, be it gone by
now, is left in the file. `Look` is one step, from exists() to the second reading
(1353-1358); a file that vanishes or changes in between ends the run with an exception, as
`Kill` does. `RenameFails` and `PruneFails` are exceptions the code does not
catch. A dashboard is `Hand` (a user's), `Torn` (no JSON), or its body. `overtaken`,
`alone`, `fresh` and `overlapped` are history, for the properties only.

**Discovery and Generator.** `FleetAgents`, `ResolveHostName` and `UniqueSlugs` are the
functions of those names, on names that are members of a set; what the string functions make
of each (`Lower`, `Short`, `Slug`, `Tagged`) is given. The loop of unique_slugs() over the
sorted names is a recursive function on the list as it comes, over the names before each in
that order (`Stems`). `BoardsFor` is main()'s list of boards
for one answer of Fleet and Elasticsearch, with each file's content left at what it is
computed from. `Generator` puts the two together: only there can it be said that every host
is shown.

**Board and Page.** `Board` has the variables of the class (`_x`, `_y`, `_rowh`, `_id`, and
the panels) and its two methods, `Row` and `Add`. `Page` is what Grafana needs, and says
nothing of lines or cursors: a panel goes anywhere in the 24 columns where there is room,
below the last heading, as Grafana reads a panel's section off its position; a heading goes
below everything. `Board!LaidOutAsPage` is the refinement, with `placed` the rectangles of
`panels`.

**Panels, HostBoard, NetworkBoards, Collected, HwDocs, Boards.** Each builder of
gen-dashboards.py is the sequence of what it adds: of a panel its size and data source, and
of each query the data source, datasets and fields. Titles, units, colours and the rest of the
JSON are left out. `Collected` gives each integration of `StockPolicies` the data streams it
writes, and `PolicyCapabilities` is what the generator sees of a policy. Which streams docker
has, and that system has one of load, is the packages' own choice and not in the repository.
`HwDocs` lists, by their full names in the document, which fields a reading of each kind may
have. `Boards` chooses a policy and a dashboard of it and
adds its panels to a `Board` one by one. The network dashboards are one policy's there, where
`main()` (1410-1412) puts the receivers of all policies together; of
the stock policies only the stack's has any.

## 3. Runs

Expected to pass:

| Run | Bounds | Shows |
|---|---|---|
| `SetupPolicies` | 2 overlapping runs started over and over, 2 policies, 3 integrations | `CompleteOnSuccess`, `OneCreatorFills`, `LeavesExistingAlone` |
| `Edits` | 2 scripts at a time, any of them; a stack of one `cef`, or two `system`, or one media policy, every content | `DoneMeansMigrated`, `KeepsOthersSettings` |
| `EditsConverge` | 2 overlapping migrations; a media policy or a `cef` and an `iptables` one | `Converges` |
| `Rescue` | 2 overlapping runs, 2 lines, 1 rollover | `NothingLost`, `OneCopyPerIndex`, `EveryLineRescued` |
| `AppCredentials` | all names up to 3 characters of `a`, `app`, `.`, `-`, 2 keys; events under every name up to 3 of `a A . -`, cut to 2 | `WritesOnlyItsOwn`, `RevokesExactlyItsDataset`, `IntakeKeptApart` |
| `Certificates` | 3 services, 2 CAs, any number of script runs | `ChainNeverDoubled`, `VerifiedMeansServed`, `BootedMeansTrusted` |
| `ServiceToken` | 1 run at a time, 8 tokens | `FleetTokenValid`, `DoneMeansShared`, `FleetServerStarts` |
| `Dashboards` | 2 overlapping runs, 3 starts, 4 answers of Fleet, a user at one file | `KeepsHandMade`, `GrafanaSeesWhole`, `DoneMeansCurrent`, `QuietRerun`, `EveryHostShown` |
| `Boards` | every dashboard of every stock policy: whole, with one integration removed, or with one stream off | `ReadsWhereItLands`, `MissingFitsField`, `HardwareIsReported`, `PanelsFollowPolicy`, `EveryIntegrationShown`, `LaidOutAsPage` |

Each also checks its module's `TypeOK`, but for `EditsConverge`.

Why the bounds are enough. Two runs are what it takes for one to act on what another has
changed; a third adds nothing the scripts could tell from the second. Two policies are
needed for one to be ensured and the other not, two integrations for a policy to be half
filled, and two policies of one package for a migration to be cut short between its PUTs.
Two lines make a reindex that has moved one of two. Two CAs are the old and the new.
Three characters are the shortest name with a dot inside. Two keys are a key and its
replacement. Eight tokens are more than any repetition of the interesting steps needs;
the last cannot be lost, or the bound would itself be the reason why Fleet Server never
starts. A name is cut to two characters of three, so that a cut happens; `app`, of which
the scripts make the prefix, counts as one character, so that names that begin like one are
among those tried. The four answers of Fleet have two hosts of one slug, one of them
enrolled twice; one of these unenrolled; Elasticsearch down and a hostname missing; and two
agents whose documents carry one name. Three starts are two runs that overlap and a third
that finds what they left, or one that died twice and its repetition. The user's file is
the one that two of the answers want for different hosts. The panels of a dashboard depend on
nothing but the policy, so that each stock policy and what is one change away from it
shows every condition of the builders both ways. `MaxRollovers`, `MaxKeys`, `MaxCAs`,
`MaxTokens` and `MaxStarts` are the only caps. Clients and runs are symmetric, in `Edits` and
`Dashboards`, which have no liveness property.

Mutants: `X_Something`, defined just before a definition `X`, is `X` with a plausible bug.
Each property of a passing run is violated when the mutant named beside it in
`PROJECT.json` takes the place of its definition.

Expected to be violated, each a disagreement between code and text:

| Run | What happens |
|---|---|
| `SetupPoliciesRerun` | A run dies after it has created a policy. The re-run finds the policy, leaves it alone, and exits 0: it will stay empty until the operator deletes it (`bootstrap.sh:2`: "every step is idempotent"). Creating and filling one policy before the next would narrow the gap, not close it. |
| `RescueLive` | An event arrives at the wrong port after the reindex read its query and before the purge reads it again: deleted, never rescued (`migrate-unifi-cef.sh:17`). Line 19 asks for the port to be fixed first, not for the agents' queues to drain. |
| `AppReplacement` | The old key and its replacement have one name, and `--revoke` takes both (`create-app-credentials.sh:9`). |

Smaller disagreements the modules make visible, without a run of their own:

- `toggle-stream.py:8` "without touching anything else in the policy": a policy saved
  between its GET and its PUT is put back as it was at the GET (`Put` writes `copy`).
- `migrate-unifi-cef.sh:126` "will not be duplicated": after a rollover the write index is
  another, and a re-run makes a second copy. `OneCopyPerIndex` is what is true.
- `migrate-cert-chain.sh:68` "every certificate already serves its chain": a run that was
  cut short between lines 85 and 105 repaired the files and restarted nothing, and its
  re-run says this while containers still present a leaf only.
- `migrate-cert-chain.sh:132` "the CA in the chain matches ES_CA_FINGERPRINT": it compared
  with the CA on disk. After a `setup-certs.sh --force` that was cut short before the
  fingerprint, and a migration, the two differ.
- `migrate-cert-chain.sh:44` suggests that re-running bootstrap.sh repairs a fingerprint
  that does not match. It does not; bootstrap.sh tests only that there is one.
- `gen-dashboards.py:7` "chosen from what its agent policy actually collects":
  `policy_capabilities()` (whose comment, lines 138-140, has toggle-stream.py's changes
  "reflected here") counts a package as soon as an integration of it is there (148), so a stream of
  `system`, `linux`, `docker` or `journald` that is switched off keeps its panels, empty.
  And `host_dashboard()` draws its eleven panels of the system's metrics without looking
  (464-606): under a policy from which the system integration was removed, all of them are
  about what is not collected. `PanelsFollowPolicy` therefore says only that a
  host's panels are about what its policy collects *or the system integration*, case by
  case for the other dashboards; `MCFleets` has policies without the system integration,
  so that without that exception the run would find the property violated.
- `migrate-cert-chain.sh:95` "Nothing running to restart ... Certificates are fixed": this is
  also what the script says when `docker compose ps` fails (line 91 ends in `|| true`), while
  containers run and go on presenting a leaf only. No property is claimed of this ending;
  `VerifiedMeansServed` speaks of the other one.
- `gen-dashboards.py:106` "only agents that have actually been unenrolled drop out, which is
  what makes pruning safe": when Elasticsearch does not answer, hostnames stand for
  themselves. Where they differ from the names in the documents, the run writes dashboards
  under the one name and prunes those of the other, until the next run.
- `gen-dashboards.py:21` "rewritten only when their content actually changes": where two
  agents resolve to one host name, both write one file, and each run rewrites it twice.
  `QuietRerun` excepts this.
- `gen-dashboards.py:1321`: which of two hosts of one slug has the plain file name depends
  on which of them are enrolled; when one goes, the file of the other changes its name.
- `gen-dashboards.py:1364` "the rename has to be the only thing it sees": two runs at once
  share the `.tmp`, and one can rename it while the other writes. A file that is left torn
  is not taken for a generated one (`is_generated()` catches the JSON error), and so no
  later run repairs or prunes it. `GrafanaSeesWhole` and `DoneMeansCurrent` hold while
  runs do not overlap.
- `app-tcp.conf:12` says that a `dataset` field steers the data stream of an event. Of a
  hoisted ECS event only `event.dataset` and `service.name` are read (lines 164-165).
- `bootstrap.sh` over certificates during whose making Docker restarted Elasticsearch
  (`docker-compose.yml:13`) ends well with Elasticsearch serving a leaf only, which agents
  refuse: `up -d` finds it running. `BootedMeansTrusted` speaks of certificates made in
  one go, with no restart meanwhile.

## 4. Fairness

- `EditsConverge`: each client takes up every migration again and again and its PUTs are
  answered, with no user edits. A particular script can only be started between two
  others, so its `Fetch` needs strong fairness. What earlier failures and edits leave
  behind is in the initial contents, which are arbitrary.
- `Rescue`: each run goes on while it can, or is started again with `--purge` when there
  is something to do; from some time on nothing fails. Weak fairness of one disjunction
  per run: nothing is assumed about which of its steps.
- `ServiceToken`: the operator starts bootstrap.sh again until it ends well, and from some
  time on commands do not fail, except for what Elasticsearch refuses.

In each of these the scripts do what the repository tells the operator to do ("re-run").
Without the assumption nothing need ever be run. The other runs check safety only, and
state no fairness.

`QuietSpec` (CefRescue) is not fairness but a restriction: no event arrives at the wrong
port while a run purges. `RescueLive` shows what happens without it.

## 5. Proofs

Proved with TLAPS, for every value of the constants:

- **SetupPoliciesProofs.** `TypeCorrect`, `Completeness`, `OneCreator`,
  `ExistingLeftAlone`. The inductive invariant says of an active run that the integration it
  stands at belongs to a fresh policy and that all before it in the script are installed or
  touched (`Filling`): `CompleteOnSuccess` alone is not inductive, as it says nothing of a
  run at work. A policy that an active run created is still there, or the user deleted it
  (`StillOwned`), so that a second creator implies a deletion. What a run found is there and
  not fresh (`FoundNotFresh`), so that it never adds to it.
- **CefRescueProofs.** `TypeCorrect`, `CopiesBounded`, `NoLineLost`. For the copies
  (`CopiesCounted`): a line that is not in the present write index has at most one copy for
  each earlier one. For the loss (`PurgeCovered`, `CollidesRescued`): what a purging run
  reindexes covers everything misfiled but what is rescued already, so what it goes on to
  delete has been rescued; and a line that collides in the write index is rescued. This is
  where `Quiet` is needed: an arrival in between would not be covered.
- **AppCredentialsProofs.** `TypeCorrect`, `KeysIsolated`, `RevokeExact`. Where the pattern
  of one valid name takes in the data stream of another, the hyphen after the first name
  meets the first hyphen after the second, as neither name has one of its own: the names
  are equal. The hyphens in a key's name can only have been dots, so it determines the
  dataset.
  `IntakeIsolated`: a sanitised name has no hyphen either, whatever characters it came
  with, so the same argument holds for what comes through Logstash.
- **PolicyEditsProofs.** `TypeCorrect`, `DoneIsMigrated`, `SettingsKept`.
  `DoneMeansMigrated` speaks of clients that have ended, so the invariant says of one at
  work that what it still has to write was in need at its GET and is as it was then, or
  overtaken (`Planned`), and that nothing but this is in need (`Covered`). A step of
  another client preserves it because what it writes becomes overtaken; the client's own
  because a migration has nothing left to do where it has been (`ChangedDone`).
- **CertificatesProofs.** `TypeCorrect`, `NeverDoubled`, `VerifiedIsServed`, `BootedIsTrusted`.
  The invariant follows each script through its loop: a file has its CA once for what is
  left of `todo` and twice for the rest (`Setting`); the repair's `todo` is what is leaf
  only (`Repairing`), which is why a re-run of a repair that was cut short doubles
  nothing; between its restart and its verification every running container has what is on
  disk, and as no file is leaf only by then, no restart can undo it. While setup-certs.sh is
  making certificates Elasticsearch serves another CA; once they are made in one go it
  serves the whole new chain or still another CA, never a leaf of the new one (`Making`):
  a bootstrap that gets an answer has therefore met the chain that `.env` names.
- **BoardProofs.** The packing, for panels of any size added in any order
  (`PanelsNeverOverlap`, `BoardImplementsPage`): what is laid out ends above
  the current line, or stands in it, left of the cursor, and is no heading; nothing
  reaches below the line (`Packed`). Either place that `add()` can choose is free for
  that reason. For the refinement, `Row` is `PlaceHeading`, `Add` is `PlacePanel`.
  Then the dashboards themselves, for an agent policy with *any* of the stock integrations
  and *any* datasets switched off (`TypeCorrect`, `AskedWhereItLands`, `MissingAlwaysFits`,
  `HardwareAlwaysReported`, `PanelsOfThePolicy`, `AllIntegrationsShown`,
  `BuildersLayOutPages`), where the run has policies with at most one integration or stream
  missing. One lemma per section or builder shows its items `Made`: of a size that
  fits, and with queries that ask the source that has their datasets, group by what the
  fields hold, and name only datasets the dashboard is about (`Scope`). What is about which
  integration comes of `Collects` and `SetsOf`, integration by integration. The
  invariant (`Adding`) ties the board to the builder: every panel on it is one of these
  items as it was asked for, and every item is on the board or still to come. The properties
  of panels follow from the first half, `EveryIntegrationShown`, of a complete
  dashboard, from the second.
- **DashboardsProofs.** `TypeCorrect`, `HandMadeKept`, `WholeDashboards`, `DoneIsCurrent`,
  `NothingToDo`, `NoHostDropped`, `HostsShown`. A run that has gone
  past its look at a file that is a user's by now was overtaken there (`Examining`).
  While runs do not overlap, at most one is active, what it has open goes by the name of
  the `.tmp`, and what it is about to rename is whole (`Solo`). `DoneMeansCurrent` speaks
  of runs that have ended; of one at work, undisturbed, the invariant says that each file
  among the boards it has passed holds the last of those boards, or is a user's
  (`WrittenSoFar`), and that while it prunes, what is generated and not its own is
  still to be looked at (`Progress`). A file that two boards share is why it is the
  last of them: its maximum (`GreatestIn`) exists by well-ordering. `QuietRerun` needs
  more than the directory being right at the start: that it stays so, as the run writes
  nothing (`Quiet`), and that with as many files as boards each board is the last one
  of its file (`OneEach`, the pigeonhole principle on the positions of boards).
  `EveryHostShown` follows from `DoneMeansCurrent` and from what Discovery computes, for
  any list of agents: the board that is last for a host's file is one of that host
  (`BoardOfName`), as no two names have one stem (`SlugsUnique`). `Stems` is recursive, so
  its equation must first be shown to have a solution (`StemsExist`): by rank of names, in
  sorted order and then in the list's, there is no least one up to which it has none. That
  the five digits of the hash tell cut names apart, from each other and from whole ones, is
  no property of the code: it is the theorem's hypothesis `TagsTellApart`, which TLC
  evaluates on the run's names. `NoHostDropped` is what fleet_agents() owes it: where two
  agents share a hostname, one of them stays.
- **ServiceTokenProofs.** `TypeCorrect`, `FleetKeepsItsToken`, `SharedWhenDone`. `.env` holds
  the valid token or none, Fleet Server has what `.env` has or nothing, and a run that found
  `.env` empty finds it so until it writes it (`Shared`). The last holds because there is
  one run at a time; two at once break it.

Assumptions are those the modules name: constants are of the types they are used at
(`SetupAssumption`, `EditsAssumption`, `RescueAssumption`, `CredentialsAssumption`,
`IntakeAssumption`, `CertificatesAssumption`, `TokenAssumption`, `PlansAssumption`,
`WorldsAssumption`, `NameAssumption`, `FleetsAssumption`), of which some say more: the order
of policies, of services and of host names has each once; a hyphen is not
among the characters the intake keeps; a run always has a board to write, since the
network overview is one; the policies the generator finds hold integrations that
setup-policies.py creates; a host name is a name in lower case too; and `"host-"` before
two different stems makes two files, neither a network dashboard's. `NamesAssumption` (`Collected`) has no constant in it: it spells out
what comes of joining strings, such as `"sonarr" \o "-logs"`, which TLC computes and the
provers cannot. There is one bootstrap at a time where the theorem says so. TLC
evaluates the assumptions in every run.

Only model-checked: `Converges`, `EveryLineRescued` and `FleetServerStarts` (fairness and
ENABLED are out of TLAPS's reach). Every safety property that a passing run checks is also
proved. What `FleetAgents` and the boards of the network list in order they list by position
in a sequence (`InOrder`), since the provers know nothing of the library's sorting.

## 6. Not modelled

- Elasticsearch's users, roles and retention (`bootstrap.sh:106-160`): idempotent PUTs that
  nothing reads in between.
- The second page of Fleet's lists (`perPage=200`, `500`): the homelab has three agent policies.
- Two operators running certificate scripts or bootstrap.sh at once (but see the hazards).
- Loss of Elasticsearch's data under a kept `.env`: what becomes of the token is
  Elasticsearch's doing, and one line of the documentation's.
- Package versions, and what an integration contains beyond the settings a script changes.
- The pipelines and their installation, and the iptables backfill. A pipeline takes one
  document and keeps nothing; what it could get wrong is in its grok patterns, that is in
  text, for which tests with sample lines are the better tool. `install.sh` PUTs files in a
  fixed order, and repeats them all when it is run again.
- Logstash's other filters (multiline, JSON, levels, timestamps): the same, one event at a
  time.
- How `hwstats.py` collects, and its rotation: one sequential pass, appended with one
  write, rotated by logrotate.
- Agent installation: commands of a package manager on one host, without state of its own.
  The read-only helpers, which change nothing. Grafana's provisioning, which is static.
- Wording, colours and units of panels, and what the generator's `--list`, `--dry-run` and
  `--out` do: they write nothing, or somewhere else.

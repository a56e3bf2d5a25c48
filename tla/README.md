# dnsconfd in TLA+

dnsconfd is a daemon that configures a local DNS cache (Unbound). Clients,
NetworkManager above all, submit lists of servers over D-Bus; the daemon writes
`unbound.conf` and `resolv.conf`, has systemd restart Unbound, and updates the
running Unbound with `unbound-control`. This directory models that system,
checks it with TLC on small instances and proves its main properties with TLAPS.

## The system and its parts

| Part | Source | Module |
|---|---|---|
| state machine | `src/fsm/fsm.c` | `Fsm` |
| handlers, main loop | `src/dbus_server.c` | `Dnsconfd` |
| status/control files | `src/service_management.c` | `Fsm`, `Dnsconfd` |
| path unit, script, drop-in, Unbound | `distribution/` | `UnboundService` (external) |
| what clients may rely on | (abstract) | `ConfigService` |
| `dnsconfd update`: waiting for the answer | `src/cli_commands/cli_update.c` | `UpdateClient` |
| `dnsconfd update`: words and dictionaries | `src/configuration_parsing/update_command.c`, `cli_update.c` | `UpdateCommand` |
| servers as URIs and as JSON | `src/types/server_uri.c` | `ServerUri` |
| networks and reverse zones | `src/types/network_address.c` | `NetworkAddress` |
| parsing of the Update call | `src/dbus_server.c` 65-386, `src/ip_utilities.c` | `UpdateCall` |
| server selection, zones, commands | `src/dns_managers/unbound_manager.c`, `src/types/server_uri.c` | `UnboundManager`, `ForwardTable` |
| the way of an update through these | (composition) | `UpdatePath` |
| configuration files | `src/configuration_parsing/config_file.c` | `ConfigFile` |
| options, environment, includes, merge | `src/configuration_parsing/global_options.c`, `environment_config.c`, `config_file.c` | `Configuration` |
| service unit, scripts, `dnsconfd config` | `distribution/`, `src/cli_commands/cli_config.c` | `HostLifecycle` |

Three questions divide the modules. *What does the running daemon do, whatever
happens around it?* `Dnsconfd` composes the state machine, the handlers and
systemd with Unbound. *What becomes of the servers somebody submits?*
`UpdatePath` composes the client, the parser of the call, the hash table and the
commands to Unbound. *What surrounds a run of the daemon?* `Configuration` is
how a process finds its configuration, `HostLifecycle` what happens to the host
over many starts and stops.

How the parts interact: a D-Bus call, SIGTERM, the bus name or a change of the
status file wakes a handler, which runs `state_transition` until no event is
left. A restart of Unbound is ordered by writing `pending` to the status file
and `restart` to the control file. A systemd path unit sees the latter and runs a
script that calls `systemctl`; the drop-in of `unbound.service` reports `ready`,
`fail` or `stopped` in the status file.

## How the model corresponds to the code

*Granularity.* The daemon has one thread. One iteration of the loop of
`state_transition` is one action; `cur_event` is the loop's variable and no
handler is dispatched until it is `"NONE"`. systemd, Unbound and the
administrator take steps between any two iterations. Each action covers the
whole case: the functions it calls, their file writes and their error paths.

*Fsm.* `Handled` is the table of case labels; the actions `Starting` to
`Stopping` are the cases, `Reject` the `return -1`. A call that can fail has a
disjunct guarded by `Fault` in which its work is half done: a file is torn, or
one of two files written, or some of the commands performed.

*UnboundService.* A change of the control file while the script still runs is
merged with the run in progress or starts another one (`BusyTrigger` holds both
outcomes). `notes` counts file notifications that are not delivered yet; the
handler reads what the file holds at delivery. Monitors are never disconnected
by a reload, so a change queues one notification per monitor.

*UnboundManager.* A server is a record of what the algorithms look at; strings
such as addresses with port and certificate name are single values. Its domains
are the list the code walks, duplicates included. The comparison subtracts
priorities as `int`; `ToInt` is the subtraction as the build does it, wrapping
around, and `Sorted` is the merge sort of `g_list_sort`, because with a
comparison that wraps the result depends on the algorithm. The iteration order
of a `GHashTable` is nondeterministic where it matters (`EffectiveCa`).

*ServerUri, UpdateCommand.* A value carries its type, as in a URI query or in
JSON; what each field refuses is in `UriAccepts` and `FieldAccepts`. Points of
the code the model keeps: a protocol name is compared up to its sixth character
(`dns+tlx` is `dns+tls`); a repeated query key replaces the value, except that
`dnssec=0` is never undone; a JSON text replaces the URIs typed before it;
`--mode backup` is not stored and so does not undo another mode.

*UpdateCall.* One dictionary is one step of the loop. idn2, address parsing and
sysfs are constants. A key of another type than the parser asks for counts as
absent, so dictionaries have no such keys.

*UpdatePath.* The client or another program calls, the call is parsed, and the
state machine either takes the servers (`Applied`) or drops them because the
daemon is stopping (`NotApplied`). One Unbound process is followed; a drop, or
a table that needs another bundle and so a reload, ends the behaviour. Reloads,
failures and restarts are the subject of `Dnsconfd`.

*NetworkAddress.* A name is the sequence of its labels from the root down. The
reverse zone of a network is compared with a definition that does not use the
prefix arithmetic of the code: the deepest zone that holds the reverse names of
all members.

*ConfigFile, Configuration.* A file is the sequence of YAML events that libyaml
delivers for it, with an event for the point where libyaml gives up; every
parser is a fold over events. The include walk is one action per file and one
per include path, since `stat`, `glob` and `fopen` look at the file system at
different times, and `Edit` may come between any two. Directories and patterns
do not come and go, so the `stat` and the `glob` of one path are one look. The
reference definitions (`Order`, `LevelOf`) read the files without the parser and
without the queue, and `GoodFile` says what a good file is as `dnsconfd.conf(5)`
does, by keys, values and mappings and not by the events of a parser.

*HostLifecycle.* Each half of a script is an action, and so is each thing the
daemon does to `resolv.conf`. The unit runs `/usr/libexec/dnsconfd-prepare` before
the daemon and `/usr/libexec/dnsconfd-cleanup` after it; `dnsconfd.spec:120-121`
installs `dnsconfd-prepare.sh` under both names, so both are the same actions
(`TakeUnlessOwned`, `ArrangeUnbound`) and `dnsconfd-cleanup.sh` is not modelled.
A command of the script may fail, and its last one decides whether the start
goes on (`ScriptSucceeds`). The daemon is reduced to that: waiting, serving,
stopping with a revert, or dying without one. `DaemonDies` stands for a kill and
for the exits that do not revert (`exit_restores` below is one of them). The
scripts do not get the `$OPTIONS` of the service, so the path they see and the
path of the daemon are separate fields of the configuration.

*ConfigService, UpdateClient.* Clients run against `ConfigService`, which
`Dnsconfd` is proved to implement, and not against the full daemon. Its phases
follow the main loop: `stopping` is the wait for Unbound to stop, in which calls
are still answered; `ending` is FSM_STOPPING, in which `g_main_loop_quit` was
called. An Update that is handled then still gets its answer, but the Get that
the client sends on receiving it is never served and fails when the daemon is
gone (`"late"`).

Operators whose comment begins with "Variant" are used by no specification. They
are plausible mistakes, and each property has one that makes TLC refute it.

## Runs

| Run | Checks |
|---|---|
| `faults` | one failing call anywhere; the inductive invariant, what RUNNING means, the backup, the finality of a stop, the refinement of `ConfigService` |
| `service` | one crash, failed start or `systemctl` command at any point; no lost wake-up, external stops are repaired, the first start serves what is reported; a start is answered and a SIGTERM at rest ends the daemon |
| `update_client` | two clients, up to four more configurations; no announcement is missed or taken for another |
| `update_path` | updates from command lines and from other programs, one after another: nothing is stored that was not typed and, within the usage text, nothing typed is lost, what the client accepts the daemon accepts, an accepted call is complete, and Unbound does what is stored, by the best servers of the mode, with the reverse zones of the networks |
| `configuration` | which configurations are accepted, where each value comes from, that no static server is lost, and that reading ends, with include cycles and with edits meanwhile |
| `lifecycle` | starts, stops, kills, power cuts, edits, `dnsconfd config` and NetworkManager in any order: `resolv.conf` comes back, and the daemon can write it |

What the passing runs show besides "it holds" is in the conditions of the
properties:

* `UsedAreBest` is about domains whose servers have priorities with differences
  that fit in an `int`. The instance has others; there the order of the servers
  may be wrong, and all other properties still hold. A higher number is better,
  as in `compare_servers` and `dnsconfd-update.8:35` ("higher number means higher
  priority"). `docs/com.redhat.dnsconfd.md:28` says the reverse of the same field
  ("lower means higher priority"); the code does not do that.
* `StoredAsTyped` lets no server and no mode get lost for command lines that keep
  to the usage of `update_command.c:11-12`, URIs or JSON, and that give one mode.
  The instance has others: URIs typed before `--json` are replaced by the servers
  of the JSON text, and a `backup` after another mode is passed over, both
  without an error.
* `DaemonCanWrite` is about daemons that read the same path as the scripts, and
  has an exception: for another path than `/etc/resolv.conf` while that one
  belongs to dnsconfd, the prepare script looks at the wrong file, takes nothing,
  and each start fails. As the installed scripts never return
  `/etc/resolv.conf`, this is what changing `resolv_conf_path` does on a host
  where dnsconfd has run.
* `AcceptedIffSound` and `PrecedenceHolds` say nothing of files with a log level
  that is no level. `config_file.c:531-533` has an error for it that is never
  taken, because the level is compared with 0 as an unsigned number; the file is
  accepted, and the level of earlier files is forgotten.
* `AcceptedIffSound` leaves open one number of files. `dnsconfd.conf.5:102` allows
  a maximum of 1000 *included* files; the code counts the main file too, and so
  refuses the 1000th included one.
* `ClientChecksSuffice` excepts domain names, which the client does not check.

What can not be stated of the code at all:

* That a stop undoes the preparation. The comments of `dnsconfd-cleanup.sh` say
  "revert", but no rule installs it: a stop prepares the host once more.
* That the unit starts. The script links the as112 file of unbound even where
  there is none; from then on its last command fails, and so does each start.
* That Unbound forwards nothing but what is reported after the first start. An
  update that withdraws a domain while Unbound starts finds it in the file, and
  `update()` has no earlier table to remove it from. `FirstStartServes` and
  `StatusIsServed` look at the domains that are reported.

Six runs end in a counterexample. Each states what a test, manual page or
comment says, and `findings` in `PROJECT.json` quotes it:

* `stop_stuck`: SIGTERM before the script has run makes the daemon wait for ever
  in WAITING_STOP_JOB, because stopping an inactive unit reports nothing.
* `exit_restores`: SIGTERM during a reload exits with 0 and leaves the generated
  `resolv.conf`.
* `status_served`: the table of commands already given survives the Unbound
  process. A reload during the start restarts Unbound once more after its update;
  the report of the new process meets RUNNING and is ignored, so a domain of a
  non-validating server is left as the file has it, without its insecure flag. A
  reload in RUNNING loses the flag too: `update()` finds no difference.
* `crash_noticed`: a crash in RUNNING is ignored.
* `bundle_reload`: the bundle in the file comes from all servers, the one
  compared in `update()` from the used ones; a TLS server that is not used makes
  the daemon reload again and again.
* `client_accepted`: an update that arrives in WAITING_STOP_JOB is dropped and
  answered with the serial announced last, which the client reports as a success.

### Bounds

*Daemon runs.* Two domains (the root, which the code treats specially, and
another one), two queued notifications (`MaxNotes`; one more monitor changes
nothing that two do not show; with one the second monitor would not be counted),
a serial modulus of 2 or 3 so that it wraps. The two updates of `faults` make the
daemon do different things: one names two bundles, so that depending on the order
of the hash table the daemon reloads or changes the search domains while Unbound
keeps running, the other withdraws all servers and so removes the domains again.
`faults` has one failing call (`MaxFaults`) and no trouble from outside, and a
busy script always starts again; `service` has one crash, failed start or command (`MaxTroubles`), both
outcomes of `BusyTrigger` and no failing call. The theorems below hold for all
of these bounds at once.

*Clients.* The modulus is 7 and there are at most five configurations, because
`SuccessIsNotEarly` is about serials that have not wrapped. Clients are symmetric.

*update_path.* `INT_MIN` is -32, with priorities on both sides of `INT_MIN + 10`
and differences beyond the range. Addresses have two labels of two bits and five
labels of one bit, with prefixes inside and at the end of a label. There are
calls of up to three dictionaries, one bad dictionary per error, a command line
per rule of the parsers, and three lists of static servers.

*configuration.* Three files that include each other in every combination of six
include lists, a directory, a pattern without matches, a missing path, a limit of
four files, two edits; one file content per error of the parsers.

*lifecycle.* Two paths, each a file, a link or nothing at first, every
configuration for scripts and daemon, unbound with and without the as112 file, three events (kills, power cuts, edits,
commands, failing calls); starts and stops are not bounded.

Deadlock is not checked where the daemon, the client, the process or the
followed Unbound comes to its end.

### Fairness

`FairSpec` of `Dnsconfd` assumes weak fairness of the daemon's thread and of
systemd's jobs, and strong fairness of delivering a notification and of leaving
the main loop: GLib serves sources of equal priority in turn, so a source that
stays ready is not starved, although each handler makes the others wait.
Clients, signals, the bus, crashes and the administrator have no fairness.
`FairSpec` of `Configuration` assumes that the process which reads its
configuration keeps running; edits and failing allocations have no fairness.

## Proofs

All theorems hold for every value of the constants under the named assumptions
of the modules, which only say that bounds are naturals, the root is a domain,
modes are modes, calls are sequences whose priorities are ints, paths found on a
host are root's, and every option but the log file has a default.

`DnsconfdInvariants` has the inductive invariant `IInv`. None of the properties
is inductive alone:

* `ControlInv`: which events can be pending in which states. Without it
  `NoUnexpectedEvent` fails at the first step, since nothing says that a state
  passed through within one handler is never rested in.
* `BackupInv`: the backup exists from the first successful write on.
* `AppliedInv`: which outputs are up to date while an update is under way; an
  update pending in RUNNING has replaced the mode already.
* `WakeInv`: while a restart is awaited there is a job, a queued start of the
  script with `restart` in the file, or a notification for a final status. A
  merged change of the control file is harmless because the script then still
  has its job.

Each part is inductive given the ones before it; `DnsconfdProofs` has one step
per action. From them follow `TypeOK`, `NoUnexpectedEvent`,
`BackupBeforeRevert`, `RunningIsApplied`, `StartNeverStuck`, `StopIsFinal` and
the refinement of `ConfigService`.

`UnboundManagerProofs` shows that what `compare_servers` finds equal leads to the
same command, hence that the commands of `update()` take Unbound from any table
it serves to any other (`CommandsConverge`), and from the generated file to its
table (`FirstUpdateConverges`). `status_served` is the case where the premise,
that Unbound serves the old table, is lost.

`UpdateClientProofs` proves `NoMissedSerial` for any number of clients.

`UpdateCallProofs` has two invariants of the parsing loop. The first, that the
servers parsed so far keep to one interface per address and come from good
dictionaries, gives `OneInterfacePerAddress` and `RefusedKeepsContext`. The
second, that every dictionary before the iterator has its address among the
parsed servers and that these have a port and a domain, gives
`AcceptedIsComplete`. `WirelessNeverGains` follows from the arithmetic of
`LowerPriority` for every width of `int`.

`ConfigurationProofs` proves `HigherWins` and that an accepted configuration has
the values of the command line, then of the environment, for any files and any
edits.

`HostLifecycleProofs` proves both properties of the lifecycle for any paths,
configurations and number of events. For `CleanStopRestores` the invariant says
where `generated` can be: at the path of a daemon that is serving, which then has
a backup that is not `generated`. For `DaemonCanWrite` it says what an undisturbed
script has left when its first half is over: the path of the configuration is
dnsconfd's, unless `/etc/resolv.conf` was and the path is another one.

Only model-checked: liveness (`StartIsAnswered`, `QuietStopEnds`, `WalkEnds`),
which is beyond the prover; what folds and sorts compute for every input, which
needs induction over data (`UsedAreBest`, `FlagsFitEveryServer`, `ModeIsKept`,
`UpdatesConverge` along whole behaviours, `StoredAsTyped`,
`ClientChecksSuffice`, `ReverseNamesRouted`, `AcceptedIffSound`,
`PrecedenceHolds`, `StaticServersComplete`); and `FirstExitRestores`,
`FirstStartServes`, `StopIsRecovered`, `SuccessIsNotEarly`.

## Not modelled

* The Status call, its conversion of servers to JSON, `dnsconfd status` and
  `dnsconfd reload`: they read state or make one call, and print. `Reload`
  itself is an action of `Dnsconfd`.
* The text of `unbound.conf` that is copied from the configuration (RPZ zones,
  listen address, module configuration), and logging: no decision depends on it.
* Start limits of the path unit, and how long the daemon's own restarts can
  follow each other: both depend on real time, and the model has no clock.
* libyaml, uriparser, jansson, idn2, argp and GLib, except for what the code
  relies on: events, typed values, the merge sort, the order of sources.
* Lists inside lists of a configuration file where the code expects strings.
* An effect of `prioritize_wire`, which is parsed and then never read, and of
  `EXIT_CONFIG_FAILURE`, which is never set.

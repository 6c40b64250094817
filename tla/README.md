# MachineDeck: specifications, checks and proofs

MachineDeck is a control plane for one machine: a FastAPI process that registers
applications (processes run by the systemd user manager, or Docker Compose
projects), starts and stops them, streams their logs and shows metrics, plus a
script that installs and upgrades the control plane itself. This directory holds
TLA+ specifications of its stateful parts, the TLC configurations that check them,
and proofs that TLAPS checks. File and line references are in `PROJECT.json`
(`map` relates every definition to the lines it models).

## 1. Inventory

| Component | State | Operations | Talks to |
|---|---|---|---|
| Application registry (`services/applications.py`, `api/applications.py`) | application row, instance row | create, update, delete | lifecycle locks, database |
| Lifecycle service (`orchestration/lifecycle_service.py`, `state_machine.py`) | instance status, execution rows, one `asyncio.Lock` per application | status, logs, start, stop, restart | port check, runtime adapter, audit |
| User units and systemd adapter (`systemd/`, `adapters/runtime.py`) | unit file, install receipt; the user manager's loaded copy | install, reload, start/stop/restart, confirm, roll back, consistency | systemd |
| Compose adapter (`adapters/runtime.py`) | none | up, stop, restart, ps | docker |
| Log streaming (`api/log_websocket.py`, `logging/`) | history, cursor, bounded queue, drop counter, reader process, connection registry | history, follow, drop, warn, close | journalctl, docker, session table |
| Installer (`scripts/machinedeck_deploy.py`) | release directories, `current`, unit, database, backup, configuration | install, upgrade, uninstall, undo | systemd, alembic |
| Authentication (`security/auth.py`, `api/auth.py`) | administrator, sessions, CSRF digests, login failures | setup, login, logout, rotate, throttle | every endpoint |
| Metrics service (`dashboard/`) | latest snapshot, subscriber queues | collect, publish, subscribe, stop | websocket clients |
| Audit log (`audit/`, the audit page of `frontend/app.js`) | append-only events; the page's list and cursor | append, filter, page by cursor | every component |
| Ports and endpoints (`orchestration/ports.py`, `port_discovery.py`) | none of its own; the host's sockets | scan, discover, attribute, find conflicts, show | lifecycle service, psutil, docker |
| Configuration and doctor (`config.py`, `scripts/machinedeck_deploy.py`) | `config.toml`, the unit's command line, the firewall | render, read (twice over), refuse, diagnose | installer, server, ufw |
| Schemas, redaction, collectors, rest of the frontend, phase 0 | none, or read-only | validation, formatting, presentation | |

What is hard here, and which property is about it, is the list `hazards` of
`PROJECT.json`. In short:

* **Interleaving at awaits.** All requests share one event loop. A lifecycle action
  awaits several commands; other requests run in between and hold their own database
  sessions, whose copies of rows do not expire (`expire_on_commit=False`).
* **Several copies of one fact.** Persisted status against runtime state; manifest
  against unit file against the manager's loaded definition; `current` against
  database schema against running release.
* **Partial failure and crash.** Every command can fail, most can time out and still
  take effect later, the reader of a log's history has no timeout at all; the process or
  the script can die between any two steps, and best-effort commands may do nothing.
* **Bounded buffers.** The log queue drops its oldest events and must account for them.
* **Sessions that end** while a connection is open, and pages that share one session
  but hold a CSRF token each.
* **Answers about a host that changes** while it is asked: sockets come and go between
  the scan and the discovery of each application.
* **One file, three readings** (server, installer with a TOML parser, installer without),
  and further copies of host and port in the unit and in what systemd has loaded of it.

## 2. Modules

| Module | Models | About |
|---|---|---|
| `Lifecycle` | registry and lifecycle service | the core: requests, locks, sessions, crash |
| `SerialOperations` | (abstract) | what both promise together: serial operations per application |
| `LifecycleProofs` | | proofs about `Lifecycle`, refinement included |
| `UserUnits` | unit manager and systemd adapter | three copies of a unit definition |
| `UserUnitsProofs` | | proofs about `UserUnits` |
| `LogStream` | one log connection | handler, producer, queue, session watch |
| `LogStreamProofs` | | proofs about `LogStream` |
| `Deploy` | installer | straight-line script with a rollback handler |
| `DeployProofs` | | proofs about `Deploy` |
| `Authentication` | accounts, sessions, throttling, network context | handlers that commit several times; browser pages; proxies |
| `AuthenticationProofs` | | proofs about `Authentication` |
| `Ports` | port check and port view | one request against a changing host |
| `PortsProofs` | | proofs about `Ports` |
| `Dashboard` | metrics service and its connections | collector, one-place queues, shutdown |
| `AuditLog` | the paged audit list and its page | cursor, labels against filters, late answers |
| `ViewProofs` | | proofs about `Dashboard` and `AuditLog` |
| `Access` | configuration, installer's rendering, doctor | one file and its readers; file, unit, loaded unit, process |
| `AccessProofs` | | proofs about `Access` |
| `MC...` | | instances for TLC |

Definitions called "faulty variant of ..." are never used by a specification. Each is
a plausible mistake in the code it is a variant of; put in that definition's place,
it makes TLC report the property that is meant to notice (`mutants` in `PROJECT.json`).

### Lifecycle

One action per stretch of code between two awaits. `loop` names the request that is
running, so that the code between two awaits that takes several commits is several
actions that nothing but a crash can separate (`Continue`), while an await lets
others run (`Await`). `queue[a]` is the lock of application `a`, holder first:
`asyncio.Lock` is fair. `seen[r]` and `seenInst[r]` are the copies of the status
column and the instance row in the database session of request `r`; `Reconcile`
writes the status column only if the new value differs from the copy, as SQLAlchemy's
flush does. `runtime[a]` is what systemd or Docker would report, `job[a]` an operation
whose command timed out and that the manager carries out later. `Crash` loses
sessions, locks and requests and keeps database and runtime.

The manifest is reduced to its `enabled` flag. The verdict of the port check and the
outcome of a command are free choices.

### UserUnits

One application whose unit goes through `Begin` (render, compare), `Verified`
(systemd-analyze, atomic replacement), `Reloaded`, `Acted`, `Confirmed` and the
rollback `RolledBack`, `RestartedPrevious`. `manifest`, `file`, `loaded` and `process`
are the four places a definition can be in; `previous` and `changed` are the receipt.
Each command may succeed, fail without effect, fail with effect, or be cut off by
`Crash`. Operations do not overlap: `Lifecycle` shows that its lock sees to that.
`Exit`, `Unload` and `ReloadForOther` are the user manager's; `EditByHand` is the
administrator's.

### LogStream

One connection. The handler, the producer task, the task that takes from the queue
and the task that checks the session interleave. Events are numbers in the order of
writing, which is what order, repetition and loss can be told from; parsing, filter
and redaction do not change any of these. `joined` is the event after which following
began; `late` counts events sent while following after the session check had seen the
session's end. `journal` says which reader it is, for the whole run: journalctl follows
from a cursor, docker compose starts at the end of the log and reconnects.

The history is read by a command of its own (`OpenHistory`, `ReadHistory`), which the code
neither limits in time nor watches together with the client and the session: while
`pc = "reading"` the child exists, and nothing but its own end ends it. A Compose reader
that has ended is replaced (`Reconnect`) by one that is given `--tail 0` and `--since` the
time of the last event: what was written in between is skipped, and what has that time or
a later one may be skipped or come again, because which of the two arguments wins is
Docker's affair and several events may share a time (`Resumed`, `Time`).

### Deploy

`deploy()`, its `except` handler and `uninstall()`, one action per file operation or
command. `job` holds the locals that the handler looks at. Every step may raise.
Three things nothing reacts to are counted in `faults`: the death of the script, a
best-effort command that fails, and a failure of the service itself (systemd restarts
it five seconds later, whatever the script does by then: `ServiceFails`, `Respawn`).
A release directory is `bare` (just made, or half removed), `building` (marked
`.installing`) or `ready`. `shutil.rmtree` removes releases and `current` entry by entry in
an order of the file system's (`RemoveSome`, `RemoveRest`, `RemoveCurrent`), so that an
uninstall that is killed or fails midway leaves `current` at a release that is no longer
whole; `torn` remembers such releases, and `CurrentIsReady` excepts them.

### Authentication

Handlers do not interleave (none awaits between its first and its last statement), but
each commits several times: `call` holds the handler under way, `Fail` strikes between
two of its commits, and `Tick` lets time pass there. `rows` is the session table,
`failures` the login failure table, `audit` counts events by kind. Hosts stand for
addresses; a request passes a route of trusted proxies, each of which appends the
address it was reached from, and `Client` reads the header back from the near end. Or it
comes through a forwarder that is *not* among the trusted proxies (`Relays`), as in the
documented Tailscale Serve deployment with an empty list: then the forwarder's address is
all the server learns, every client behind it shares one throttle, and a forwarder on this
host is taken for a local client.
`cookie` and `token` are the browser's: one cookie per browser, one CSRF token per
page. A page's call that is refused or whose answer is lost is its own action.
Password and token hashing are their verdicts; tokens are numbers never drawn twice.

### Ports

One request, a start's conflict check or the port view, in the steps its awaits
separate: `Observe` (the runtime's status), `Scan` (psutil's listeners), `Discover`
per application (processes or containers, which may fail or see part), `Answer`.
`Bind` and `Unbind` change the host's sockets in between. `truth` remembers the
sockets at the scan, which is the only instant an answer can be about. `Reached` says which
traffic a socket really receives; `AddressesConflict` is what the code computes, and the
two differ for IPv4-mapped addresses (`Mapped`: a socket on `::ffff:127.0.0.1` receives
what is sent to `127.0.0.1`). Of a Compose application only published bindings are
discovered: a container on the host's network (`HostNet`) is a stranger to the code, and a
binding that Docker reports without an address (`Blank`) is taken for `0.0.0.0`.

### Dashboard

The collector task and, per connection, the handler, the task that fetches the next
snapshot (`fetch`) and the session watch (`expired`). `Replace` is the one-place queue.
`Quit`, `StopCollector` and `StopSubscribers` are the shutdown in its order; `End` is
the marker that `stop()` puts into each queue. Snapshots are numbers in the order of
collection.

### AuditLog

`Write` appends an event with any identifier not yet used and any time, as random
identifiers and an adjusted clock would. `Page` is `AuditService.list`; the labels an
event is shown with (`Category`, `Action`) and the conditions a filter selects by
(`InCategory`, `HasAction`) are separate definitions, as they are in the code. The kinds
of events are those that the writers of the code produce (`AuthKind`,
`ApplicationKind`), and a filter names an action as it is shown; raw names with a dot,
which the filter accepts too, are left out. The rows of a page are the one sequence of
the selected events that is in order. The page
asks (`Reload`, `More`) with whatever its fields hold, and answers arrive or fail in any
order. `Reload`, `SwitchView` and `Logout` give up the cursor before anything is asked,
while the button for more rows stays as it is; if the request then fails, the button asks
for the first page and appends it. `basis` and `clean` are history: the events of the first page, and whether the
list was asked for in one go.

### Access

`file` is `config.toml` by key, with `Absent` for a key that is not there. Addresses,
origins and networks are kinds (a loopback host, an origin with a wildcard, a network
that is too wide), which is all that either parser tells apart.
Two attributes are about how the file is written: `hidden` are the keys that the line
reader of an installer without TOML parser passes over (dotted, quoted, in an inline table,
under a header with a comment), `odd` says that a value is not JSON, which it refuses.
`ReadServerConfiguration` and `Valid` are the installer's and doctor's reading;
`AccessMode` to `Accepts` the server's. `OtherPython`: `scripts/*.sh` run the system's
Python, `machinedeck` that of the release, which has tomli.

A deployment is `Stage`, `WriteUnit` and `Activate` (the steps between are `Deploy`'s),
because the file is read in the first two and may be edited in between, and because the
script may die (`Die`) between the unit and its reload. `loaded` is systemd's copy of the
unit, which is what it starts. `Rollback` and `Recover` are the handler; its stop, its
reload and its start may each do nothing, as may the stop and the reload of `Uninstall`. A
reload and a restart by somebody else come at any point. `Checks` and `Doctor` are the
doctor's report. A firewall rule that is no ALLOW rule (`action`), or whose target is no
port and no range (`form`), is in the model and passed over, as by the code.

## 3. Runs

Passing runs:

| Run | Instance | Shows |
|---|---|---|
| `lifecycle` | 1 application, 3 requests of any kind, symmetric | `ActionRowCurrent` (an action's rows never go stale), `CheckingIsExplained` (a persisted CHECKING has an unfinished start behind it), `SuccessIsConfirmed`, and `SerialSpec`: `Lifecycle` implements `SerialOperations` |
| `lifecycle_live` | 1 application, 2 requests, fair | `EveryRequestEnds`: no path leaves a lock locked |
| `user_units` | 2 good definitions, 1 rejected | `InstalledIsRunning`, `FailureRestoresFile`, `OnlyVerifiedInstalled` |
| `log_stream` | journal or Compose, queue of 2, history of 2, 4 events (two at one time), 1 reconnect, fair | `InOrder`, `RevocationStopsFollowing`, `ReaderIsReleased`; for the journal `EndAccountsForAll`, `GapsAreAnnounced` |
| `deploy` | first installation, 2 upgrades, 2 faults | `CurrentIsReady`, `ServiceMatchesDatabase`, `FailureRestores`, `StoppedServiceReturns` |
| `authentication` | 2 pages of a remote host, one of an external origin, 2 proxies, a forwarder that is not trusted, 2 failures allowed, 2 sessions | `ThrottleBound` (no window has more failed attempts of a client than allowed), `LockoutJustified` (and none is refused for less), `SetupIsLocal` (no remote page sets up the administrator, but through that forwarder), `AuditComplete`, `OneActingPage` |
| `ports` | a process and a Compose application (published ports, and a container on the host's network), foreign processes, 5 addresses of one port, one of them mapped, 2 sockets | `FreeMeansFree` (a start let through, or a port shown unused, was free at the scan, whatever failed, mapped addresses aside), `QuietAnswerExact` (nothing failed or changed: the answer is exact both ways about the sockets whose owner can be known), `EveryPortShownOnce` |
| `dashboard` | 2 connections, 2 snapshots, fair | `NothingNewerIsLost`, `EndMarkerStays`, `LittleAfterSessionEnd`, `EveryConnectionEnds` |
| `audit` | 3 events of 2 kinds, 2 times, pages of one row, 3 filters, 2 requests under way | `AuditTypeOK` (with the button and the cursor), `NothingSkipped`, `FilterMatchesLabel` |
| `access` | 6 argument lists, 12 files, 7 firewall answers, with and without TOML parser | `DeployedStarts`, `ReadersAgree`, `BindingSeen`, `ExposureWarned` |

The runs of `LogStream`, `Authentication`, `Ports` and `Dashboard` check `TypeOK` too.
For the other modules type correctness and the stepping stones of the
argument (`OneHolderPerApplication`, `NobodyStranded`, `OnlyForward`, `InstalledIsLoaded`,
`OldReleaseKept`, `ClosedIsGone`) are theorems only, and the runs keep to the rest.

Runs that end with a counterexample, each a statement of the documentation that the
code does not keep (quoted under `findings`):

| Run | What happens |
|---|---|
| `restart_runs_manifest` | after an error or crash between the replacement of the unit file and the reload, the next restart does not reload and reports success with the old definition |
| `logout_ends_session` | a second page of the same browser rotates the CSRF token; the first page's logout is refused, the page shows the login form all the same, and the session stays usable |

Some properties are stated with an exception because the code does not have them
without it; the exceptions are behaviours of the models, named in the comment of the
property. Where the documentation says more than the code does, the line is given:

* A service stopped by the handler of an upgrade that failed *before* it came to stop
  it is not started again (`StoppedServiceReturns` is about services the deployment
  stopped itself). `docs/installation.md:152-154` speaks of "attempting to restart the prior
  service" after any failure.
* Compose logs lose events during a reconnect without a warning (`GapsAreAnnounced` is
  about the journal), and may repeat, after a reconnect, events from the last one's time on
  (`InOrder` allows just that). `docs/phase-1.md:161-162` says that duplicates "may occur
  during reconnect and are preferred over losing logs"; the first half is so, the second is
  not: `--tail 0` skips what was written between two readers. The history is sent to its
  end whatever the session watch has seen (`RevocationStopsFollowing` is about following).
* A connection whose history command hangs is not released, whatever the client and the
  session do (`ReaderIsReleased` is about connections that leave that command).
* The pointer may be left at a release that an uninstall has half removed (`torn`).
* A server whose unit is written or removed while it runs (it came up during a deployment,
  or a stop failed), or that systemd starts from an older copy of the unit (a reload failed,
  or the script died before it), keeps its address and the doctor does not notice (`late` in
  `Access`). Keys that the line reader misses are no part of what the doctor and the
  installer know of the file (`Plain`): after `[server] # comment` the defaults go into the
  unit, although the error message of `machinedeck_deploy.py:404` says that such
  installations "require tomli to read customized TOML values". A `[security]` table
  without `cookie_secure` means "auto" to the server and "secure" to the doctor
  (`ReadersAgree`).
* `ExposureWarned` is about the rules that the doctor can read. LIMIT rules, lists of ports,
  application profiles and rules for every port admit whom they admit without a warning; the
  doctor's own message says that it is "not proof of complete firewall safety".
* Two addresses of which one is IPv4-mapped are not found to conflict (`FreeMeansFree`,
  `QuietAnswerExact`), although the socket holds the port (`docs/phase-1.md:46`:
  "conservative pre-start/restart conflict validation"), and a container on the host's
  network is not known to belong to its application.
* Whoever comes through a forwarder on this host that is not a trusted proxy counts as
  local, unless its page has another origin (`SetupIsLocal`); `docs/installation.md:120` says
  that setup "remains local-only in every mode". All of them share one throttle
  (`ThrottleBound` is per address the server sees).
* The audit page mixes lists when answers overtake each other, when the filter is edited
  between two pages, or when a fresh list was asked for and did not come: the first page is
  then appended to the list that is still shown (`clean` in `AuditLog`; `README.md:26`
  speaks of "stable cursor pagination").
* A crash leaves CHECKING behind, and nothing but a later operation on the application
  removes it: `CheckingIsExplained` says where a CHECKING comes from, not that it ends.

**Bounds.** Three requests on one application are one action, one request that
waits with an old copy of the rows, and one that changes them meanwhile; the
interesting histories of a lock need no fourth. Applications share nothing but the
event loop; that several of them do not disturb each other is proved. Two good definitions allow an old and a
new one, and a third that systemd rejects. A queue of two and four events let the
queue overflow and be announced while another event is under way; two of the events share a
time, which is what a reconnect with `--since` can repeat. Two upgrades let an upgrade fail
after one that succeeded; two faults let the script die and its successor lose a
command. Two failures allowed and a window of one unit let a
client be refused, wait, and try again; two pages share a browser, a session and, through
the forwarder, an address that is not theirs. Two sockets let one port be held by an application and by a
foreign process on different addresses, and one change during a request falls on
either side of the scan. Two snapshots suffice for one to be replaced by a newer one,
and for the end marker to follow. Three events are one before, one at and one beyond
the cursor, with equal times among them. In `access` two ports of which one's digits begin
the other's, a rule that ends at the port, and one file per way of disagreeing are what the
readers and the doctor can tell apart. What the bounds leave open is closed by the
proofs, for the safety properties of every module.

**Fairness.** `Lifecycle`: weak fairness of what the server does with a request that
has arrived; the event loop resumes every task whose await is done, and every await
is done in time because the commands of a lifecycle operation are killed after their
timeout. Nothing is assumed
about arrivals, the runtime or crashes. `LogStream`: weak fairness of the handler, the
task that takes from the queue and the session check, because none of them waits for
anything but each other and the client; a send to a client that does not read ends when the
server's keepalive closes the connection. The producer gets no fairness: a log may be silent
for ever. Neither does the end of the history's command, which has no timeout:
`ReaderIsReleased` is said of connections that are not for ever inside it.

`Dashboard`: weak fairness of each connection's handler, of the session watch and of
the shutdown's steps once it has begun, for the same reason; and of the session's end,
because every session expires. The collector, clients and the shutdown's beginning get
none.

**Deadlock** is checked in every run but those of `Authentication`, where the bound on time
ends the behaviour, and `dashboard`, where the server really stops. The only stuttering disjuncts are `Quiet` (all requests answered) and `Over`
(connection closed).

## 4. Proofs

TLAPS checks all of them for every value of the constants that satisfies the named
assumptions (identities are distinct; there is an application; there is a definition
that systemd accepts; bounds are natural numbers; the log queue has room for one item, and
one wrong password is allowed; applications share no process, and a process
application's own processes are visible; what forwards a request is a trusted proxy or one
of the relays; an audit event is of a kind that the code writes, so that a failed
login has one of its two reasons).

**LifecycleProofs**, for any number of applications and requests. `BaseInv`
(types; a request in a locked region is the head of its lock's queue; only
lifecycle requests act) gives `MutualExclusion`. `LineInv` and `PlaceInv` add
that the line at a lock is of requests that are not over, each once, and that
each such request stands in one; from them follows `NobodyStranded`: after
whatever error, uncaught exception or crash, nobody waits for a request that is
over (had one stood in the line twice, its end would leave the lock locked,
which is why `LineInv` says that none does). With `OnlyForward`, an action
property (no handler goes back, nobody is overtaken), this is the safety part of
`EveryRequestEnds` for any number of requests; that the steps are taken is
fairness, and TLC's. `BaseInv` also makes `ActionRowCurrent` inductive: whoever
writes a row of `a` holds the lock of `a`, except a status request that finds
`a` disabled, which an action in progress rules out. `CheckingIsExplained` is
not inductive: it needs `ExecInv` (which points of a handler have a RUNNING
execution) and `PhaseInv` (at which point of a start the status is CHECKING).
From the same facts follow `Success` (the action property `SuccessIsConfirmed`)
and `Serialises`: under the mapping that takes the request in the locked region
for the operation under way, every step is a step of `SerialOperations` or a
stutter. The conjunction is `FullInv`.

**UserUnitsProofs**, for any set of definitions. `UnitInv` adds to the properties what
the receipt says of the file at each command (`ReceiptInv`), that the receipt's copy
too is one that systemd accepted (`Accepted`; a rollback writes it back), and what a
restart can have started (`RestartInv`).

**DeployProofs**, for any number of upgrades and faults. `ReleaseInv` relates the
pointer, the release directories and the locals of `deploy()` at each step;
`RestoreInv` does so for unit, database, backup and configuration, and is what makes
`FailureRestores` hold at whichever step the failure occurs; `ServiceInv` follows the
running release and the schema while nothing happens that the script cannot see;
the pointer is at a whole release or at one that an uninstall has begun to remove (`torn`),
and a deployment that starts from there keeps it or replaces it; `StoppedServiceReturns`
follows from all three at the handler's last step.

**AccessProofs**, for any argument lists, hand-written files and firewall answers.
`ReadersAgree` is a fact about every file in which the reader finds the keys
(`SameReading`). `BindInv` says that a process has the unit's binding unless the unit was
written under it or it came from an older copy; with it, the doctor's comparison of file and
unit and its question at the file's port give `BindingSeen`, and that gives
`ExposureWarned` for the rules the doctor reads. `FreshInv` carries `DeployedStarts` through
later deployments, their rollback and their deaths: the unit that a rollback would put back
agrees with the file as well as the one that was written.

**ViewProofs**, first about `Dashboard`, for any number of connections and snapshots. `Paired` says how a
handler and its fetch task stand to each other. `EndMarkerStays` and
`NothingNewerIsLost` are about a task that waits at its queue; `MarkerInv` and
`NewestInv` extend them to a snapshot that was fetched but not yet sent, because
that is the state the next wait starts from. `Stopping` (the collector is gone before a
marker is put) is why no marker is replaced. `ClosedIsGone`, the safety part of
`EveryConnectionEnds`, says that no queue is filled for a closed connection while the
service runs, and that one left behind by a shutdown by force holds the end marker.

Then about `AuditLog`, for any page size, filters, number of events and of requests under
way. `LabelIsCondition` compares the two tables: for every kind of event the code writes,
the conditions on the database select exactly what is labelled so. That a page exists at
all, and lists every selected row once and in order, is an induction over finite sets; it
is carried out on a least counterexample (`OrderExists`: a least set that cannot be listed
could be listed without its last event, and the last event then goes to the end), since
numbers are well-founded. From it, `PageGives` says what a page and its cursor leave out:
only rows behind the cursor. `Shown` says of a list and its cursor that it is in order,
shows only what was wanted and everything wanted up to the cursor; it survives any write
(`ShownGrows`) and a page put after it (`ShownMore`). `AuditTypeOK` has no equivalence of button and cursor: a cursor
implies the button, and the button a cursor only while the list was asked for in one go and
nothing is under way. `NothingSkipped` is not inductive,
since it says nothing while an answer is on its way; `ListInv` says that the answer, read
from an earlier table than the one it arrives to, will make a list of which `Shown` holds.

**LogStreamProofs**, for any queue size, history and number of events. Seen from the
buffers, every step is one of six flows (`Flows`): nothing moves, an item is put
(perhaps at the cost of the oldest), taken, delivered, skipped or gone back over by a
reconnect, or following begins. `Account` says that what was read is received, taken, queued or
counted in exactly one of the three counters a drop passes through; `Contiguous` that
drops are at the head of the queue, so that the rest has no gap; together they give
`EndAccountsForAll` and, with `TakenAnnounced`, `GapsAreAnnounced`. `Ordered` extends
`InOrder` to the events under way, `EnvelopeLast` keeps the final envelope behind all of
them. `Owned` gives `ClosedReleases`, the safety half of `ReaderIsReleased`: a closed
connection has no reader, producer or registration.

**PortsProofs**, for any applications, processes, sockets and manifests. The lemmas say
what the operators compute: two addresses, neither of them mapped, conflict exactly if some
address reaches both (`ConflictIsCollision`), attribution by process and address finds the true owner
(`OwnerExact`), and merging puts each port into one view (`ShownOnce`). `Answered` ties
the scan to the sockets at its instant and the answer to the scan; `Foreign` says that an
application that holds no socket is given no listener, which is what makes the check fail
closed (`FreeMeansFree`); `Quiet` carries completeness from step to step for
`QuietAnswerExact`.

**AuthenticationProofs**, for any hosts, proxies, routes, headers, pages and limits.
`ClientIsHost` is the fact about the network: whatever a request carries, a host that is
no proxy is the client the server finds, because the entries behind its own are the
proxies'; behind a relay it is the relay (`SourceType`). `SetupIsLocal` follows. For `ThrottleBound`, `Recorded` relates the failure
table to the wrong passwords answered (every one inside the window is in it, under the
host's own address) and `Verifying` says that a password is only verified below the limit,
also when time passes meanwhile. `AuditComplete` needs `Opening` (the session a setup opens
is the one without a success event) and the finiteness of the failure table;
`OneActingPage` needs `Tokens` (no two pages have the same token).

The provers leave the value of a `CASE` open where two guards hold, as TLA+ does, while
TLC takes the first: wherever the code is an `if ... elif` with overlapping conditions, the
models say `IF ... ELSE IF`.

**Only model-checked**: the liveness properties (`EveryRequestEnds`, `ReaderIsReleased`,
`EveryConnectionEnds`), since temporal reasoning with fairness and `ENABLED` is beyond the
prover. `NobodyStranded` and `OnlyForward`, `ClosedReleases` and `ClosedIsGone` are what is
proved of them. Every safety invariant, action property and refinement that a run checks is
a theorem.

## 5. Not modelled, and what comes next

Left out for good: rendering and validation of text (units, manifests, redaction),
collectors that only read the machine, the doctor's checks of database, Docker, GPU and
disk (one external answer each), migrations (straight-line DDL), the presentation part
of the frontend, the phase 0 prototype, validation scripts. Environment variables that
override the configuration are left out because the unit sets none of them. A legacy
database without instance rows is not among the initial states.

Next: the steps between the abstract answers of two models (the port verdict that
`Lifecycle` leaves free and `Ports` computes; the session's end that `LogStream` and
`Dashboard` only see).

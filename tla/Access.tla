--------------------------------- MODULE Access ----------------------------------
(***************************************************************************)
(* Where the control plane may be reached: one configuration file, read by  *)
(* two parsers that share no code.                                          *)
(*                                                                         *)
(* The installer writes the file once, for the access mode asked for, and   *)
(* afterwards only reads it, to write host and port into the service's      *)
(* unit; the user edits it at any time.  The server reads it when it starts *)
(* but is bound by the command line in the copy of the unit that systemd    *)
(* has loaded.  Commands fail, and the script may die, between any two      *)
(* steps.  The doctor reads the file, the unit, the firewall's rules and    *)
(* the service, and reports.                                                *)
(***************************************************************************)
EXTENDS Naturals, FiniteSets

CONSTANTS
    Choices,    \* installer arguments: [access, detected, origins, proxies, networks]
    Hand,       \* files the user may write
    Firewalls,  \* answers of `ufw status': [status, rules]; a rule [action, form, lo, hi, source]
                \* lets source reach the ports lo..hi
    Absent      \* a key that is not in the file; no file, no unit, no process

VARIABLES
    toml,       \* the Python that runs the script has a TOML parser (3.10 has none of its own)
    file,       \* config.toml
    unit,       \* [host, port] of the unit's command line
    loaded,     \* the same of the unit as systemd has loaded it
    process,    \* [host, port] the running server is bound to
    installed,  \* `current' points to a release
    job,        \* the local variables of deploy()
    ufw,        \* the firewall's answer
    fresh,      \* history: a deployment started the service itself, and the file is as it was then
    late        \* history: the unit was written or removed under the running process, or that was
                \* started from an older copy of the unit

vars == <<toml, file, unit, loaded, process, installed, job, ufw, fresh, late>>

Modes == {"local", "lan", "proxy"}

\* Hosts by kind: a loopback or unspecified address, another literal address, a name.  Origins by
\* kind: on this host, other HTTP and HTTPS ones, one with a wildcard, one that is none at all.
\* The wildcard one is HTTPS.  CIDRs: "wide" has more than 65536 addresses, "subnet" is inside "lan", "broken" is not canonical.
Hosts    == {"loopback", "unspecified", "address", "name"}
Origins  == {"here", "http", "https", "wildcard", "broken"}
Proxies  == {"loopback", "narrow", "wide", "broken"}
Networks == {"loopback", "lan", "subnet", "broken"}
PortNumbers == {n \in Nat : 0 < n /\ n < 65536}
Within(inner, outer) == inner = outer \/ (inner = "subnet" /\ outer = "lan")

ASSUME AccessAssumption ==
    /\ \A c \in Choices : c.access \in {"local", "lan", "tailscale"} /\ c.detected \subseteq {"http"}
    /\ \A f \in Hand : DOMAIN f = {"mode", "host", "port", "security", "cookie", "origins",
                                   "proxies", "networks", "hidden", "odd"}
    /\ \A u \in Firewalls : u.status \in {"missing", "unreadable", "garbled", "inactive", "active"}

Or(value, default) == IF value = Absent THEN default ELSE value
Inferred(host) == IF host = "unspecified" THEN "lan" ELSE "local"

\* An empty file: for the server there is then no configuration.  Two attributes are about the
\* writing.  hidden: the keys that are dotted, quoted, in an inline table or under a header with a
\* comment.  odd: some value is TOML but not JSON.
Empty == [mode |-> Absent, host |-> Absent, port |-> Absent, security |-> FALSE, cookie |-> Absent,
          origins |-> Absent, proxies |-> Absent, networks |-> Absent, hidden |-> {}, odd |-> FALSE]

-----------------------------------------------------------------------------
(* The installer's and the doctor's reading                                 *)

\* access_configuration: the origins asked for must be well-formed, for Tailscale HTTPS
Offered(c) ==
    /\ "broken" \notin c.origins
    /\ c.access = "tailscale" => c.origins \subseteq {"https", "wildcard"}

AccessConfiguration(c) ==
    [mode     |-> IF c.access = "tailscale" THEN "proxy" ELSE c.access,
     host     |-> IF c.access = "lan" THEN "unspecified" ELSE "loopback",
     port     |-> 8080,
     cookie   |-> "auto",
     origins  |-> {"here"} \cup c.origins \cup (IF c.access = "lan" THEN c.detected ELSE {}),
     proxies  |-> c.proxies \cup (IF c.access = "tailscale" THEN {"loopback"} ELSE {}),
     networks |-> {"loopback"} \cup c.networks]

\* _minimal_server_configuration reads lines: it passes over the origins and every key it does not
\* recognise where it stands, and takes the default
MinimalServerConfiguration(f) ==
    [k \in DOMAIN f |-> IF k \in f.hidden \cup {"origins"} THEN Absent ELSE f[k]]

ReadServerConfiguration(f) ==
    LET g    == IF toml THEN f ELSE MinimalServerConfiguration(f)
        host == Or(g.host, "loopback")
    IN  [mode     |-> Or(g.mode, Inferred(host)),
         host     |-> host,
         port     |-> Or(g.port, 8080),
         cookie   |-> Or(g.cookie, "secure"),
         origins  |-> Or(g.origins, {}),
         proxies  |-> Or(g.proxies, {}),
         networks |-> Or(g.networks, {"loopback"})]

HostFits(mode, host) ==
    /\ mode \in {"local", "proxy"} => host = "loopback"
    /\ mode = "lan" => host = "unspecified"

\* validate_server_configuration
Valid(c) ==
    /\ c.mode \in Modes
    /\ HostFits(c.mode, c.host)
    /\ c.port \in PortNumbers
    /\ c.cookie \in {"auto", "secure", "insecure"}
    /\ "broken" \notin c.origins \cup c.proxies \cup c.networks
    /\ "wide" \notin c.proxies

\* A value that is not JSON is refused where the line reader looks at it
Readable(f) ==
    /\ f # Absent
    /\ f.odd => toml
    /\ Valid(ReadServerConfiguration(f))

RenderConfig(c) ==
    [mode |-> c.mode, host |-> c.host, port |-> c.port, security |-> TRUE, cookie |-> c.cookie,
     origins |-> c.origins, proxies |-> c.proxies, networks |-> c.networks,
     hidden |-> {}, odd |-> FALSE]

RenderUnit(c) == [host |-> c.host, port |-> c.port]

-----------------------------------------------------------------------------
(* The server's reading                                                     *)

AccessMode(f) == Or(f.mode, Inferred(Or(f.host, "loopback")))

BindHost(f) == Or(f.host, IF AccessMode(f) = "lan" THEN "unspecified" ELSE "loopback")

BindPort(f) == Or(f.port, 8080)

\* Faulty variant of CookiePolicy: a file from before the security table is read as a new one
CookiePolicyNew(f) == IF f.cookie = "yes" THEN "secure" ELSE Or(f.cookie, "auto")

\* "yes" stands for the aliases of secure and insecure that only the server has
CookiePolicy(f) ==
    CASE f.cookie = "yes" -> "secure"
      [] f.cookie \notin {Absent, "yes"} -> f.cookie
      [] OTHER -> IF f # Empty /\ ~f.security THEN "secure" ELSE "auto"

SecureCookie(policy, mode) == policy = "secure" \/ (policy = "auto" /\ mode = "proxy")

\* _trusted_origins
OriginsExact(f) == Or(f.origins, {"here"}) \cap {"wildcard", "broken"} = {}

\* _networks
NetworksCanonical(f) ==
    /\ Or(f.proxies, {}) \cap {"wide", "broken"} = {}
    /\ "broken" \notin Or(f.networks, {})

Accepts(f) ==
    /\ f # Absent
    /\ AccessMode(f) \in Modes
    /\ HostFits(AccessMode(f), BindHost(f))
    /\ BindPort(f) \in PortNumbers
    /\ CookiePolicy(f) \in {"auto", "secure", "insecure"}
    /\ OriginsExact(f) /\ NetworksCanonical(f)

\* systemd runs the loaded command line; the server reads the file and serves, or ends
Started(u, f) == IF u # Absent /\ Accepts(f) THEN u ELSE Absent

-----------------------------------------------------------------------------
(* The installer                                                            *)

\* What an upgrade, which has no such arguments, asks for
Default == [access |-> "local", detected |-> {}, origins |-> {}, proxies |-> {}, networks |-> {}]

\* deploy up to the migration: the configuration is the file's or, without one, the one asked for.
\* The service of an old release is stopped; if that fails, so does the deployment
Stage(choice, start) ==
    LET c      == AccessConfiguration(choice)
        active == installed /\ process # Absent
    IN  /\ job = Absent
        /\ installed => choice = Default
        /\ IF file = Absent THEN Offered(choice) /\ Valid(c) ELSE Readable(file)
        /\ file' = IF file = Absent THEN RenderConfig(c) ELSE file
        /\ \E stopped \in {active, FALSE} :
              /\ process' = IF stopped THEN Absent ELSE process
              /\ late' = (late /\ ~stopped)
              /\ job' = [start |-> start, unit |-> unit, existed |-> file # Absent, stopped |-> stopped,
                         installed |-> installed, port |-> Absent, kept |-> FALSE,
                         at |-> IF active /\ ~stopped THEN "failed" ELSE "staged"]
        /\ UNCHANGED <<toml, unit, loaded, installed, ufw, fresh>>

\* The pointer is switched; the file is read again for the unit
WriteUnit ==
    LET c == ReadServerConfiguration(file)
    IN  /\ job # Absent /\ job.at = "staged" /\ Readable(file)
        /\ unit' = RenderUnit(c) /\ installed' = TRUE
        /\ job' = [job EXCEPT !.at = "written", !.port = c.port, !.kept = TRUE]
        /\ late' = (process # Absent)
        /\ UNCHANGED <<toml, file, loaded, process, ufw, fresh>>

\* systemctl enable --now: a service that is already running stays as it is
StartNow(u) == IF process # Absent THEN process ELSE Started(u, file)

\* HTTP health endpoint: nothing else answers there
Answers(p, port) == p # Absent /\ p.port = port

\* Faulty variant of Activate: it does not wait for the service to answer
ActivateAtOnce ==
    /\ job # Absent /\ job.at = "written"
    /\ loaded' = unit
    /\ process' = IF job.start THEN StartNow(unit) ELSE process
    /\ fresh' = (job.start /\ process = Absent /\ job.kept) /\ job' = Absent
    /\ UNCHANGED <<toml, file, unit, installed, ufw, late>>

\* daemon-reload; the service is started and must answer
Activate ==
    /\ job # Absent /\ job.at = "written"
    /\ loaded' = unit
    /\ process' = IF job.start THEN StartNow(unit) ELSE process
    /\ job.start => Answers(process', job.port)
    /\ fresh' = (job.start /\ process = Absent /\ job.kept) /\ job' = Absent
    /\ UNCHANGED <<toml, file, unit, installed, ufw, late>>

\* Any step raises: the service is stopped, if that works, pointer and unit are put back
Rollback ==
    /\ job # Absent /\ job.at # "undone"
    /\ process' \in {Absent, process}
    /\ unit' = job.unit /\ installed' = job.installed
    /\ late' = (process' # Absent /\ (late \/ job.at = "written"))
    /\ job' = [job EXCEPT !.at = "undone"]
    /\ UNCHANGED <<toml, file, loaded, ufw, fresh>>

\* ... a new file is removed; units are reloaded and an old service is started again, if that works
Recover ==
    /\ job # Absent /\ job.at = "undone"
    /\ file' = IF job.existed THEN file ELSE Absent
    /\ loaded' \in {loaded, unit}
    /\ \/ UNCHANGED <<process, late>>
       \/ /\ job.stopped /\ process = Absent
          /\ process' = Started(loaded', file')
          /\ late' = (process' # Absent /\ loaded' # unit)
    /\ job' = Absent
    /\ UNCHANGED <<toml, unit, installed, ufw, fresh>>

\* The script is killed, or the handler itself raises
Die ==
    /\ job # Absent /\ job' = Absent
    /\ UNCHANGED <<toml, file, unit, loaded, process, installed, ufw, fresh, late>>

\* Both commands may fail and are not looked at; the script may end once the unit is gone
Uninstall(purge) ==
    /\ job = Absent
    /\ process' \in {Absent, process}
    /\ unit' = Absent /\ loaded' \in {Absent, loaded}
    /\ \/ UNCHANGED <<installed, file>>
       \/ installed' = FALSE /\ file' = IF purge THEN Absent ELSE file
    /\ fresh' = FALSE /\ late' = (process' # Absent)
    /\ UNCHANGED <<toml, job, ufw>>

-----------------------------------------------------------------------------
(* The user and the system                                                  *)

\* The file is written or removed
Edit(f) ==
    /\ f # file /\ file' = f
    /\ fresh' = FALSE
    /\ job' = IF job = Absent THEN Absent ELSE [job EXCEPT !.kept = FALSE]
    /\ UNCHANGED <<toml, unit, loaded, process, installed, ufw, late>>

\* The service ends or is restarted
Restart ==
    /\ process # Absent \/ loaded # Absent
    /\ process' \in {Absent, Started(loaded, file)}
    /\ late' = (process' # Absent /\ loaded # unit)
    /\ UNCHANGED <<toml, file, unit, loaded, installed, job, ufw, fresh>>

\* Units are reloaded on somebody else's behalf
Reload ==
    /\ loaded # unit /\ loaded' = unit
    /\ UNCHANGED <<toml, file, unit, process, installed, job, ufw, fresh, late>>

\* The script is run with the system's Python or with the release's own, which has tomli
OtherPython ==
    /\ toml' = ~toml
    /\ UNCHANGED <<file, unit, loaded, process, installed, job, ufw, fresh, late>>

ChangeFirewall(u) ==
    /\ u # ufw /\ ufw' = u
    /\ UNCHANGED <<toml, file, unit, loaded, process, installed, job, fresh, late>>

Init ==
    /\ toml \in BOOLEAN /\ ufw \in Firewalls
    /\ file = Absent /\ unit = Absent /\ loaded = Absent /\ process = Absent /\ job = Absent
    /\ installed = FALSE /\ fresh = FALSE /\ late = FALSE

Next ==
    \/ \E c \in Choices \cup {Default}, start \in BOOLEAN : Stage(c, start)
    \/ WriteUnit
    \/ Activate
    \/ Rollback
    \/ Recover
    \/ Die
    \/ \E purge \in BOOLEAN : Uninstall(purge)
    \/ \E f \in Hand \cup {Absent} : Edit(f)
    \/ Restart
    \/ Reload
    \/ OtherPython
    \/ \E u \in Firewalls : ChangeFirewall(u)

Spec == Init /\ [][Next]_vars

-----------------------------------------------------------------------------
(* The doctor                                                               *)

\* Faulty variant of TargetIncludesPort: the end of a range is left out
TargetIncludesPortHalfOpen(r, port) ==
    r.form = "range" /\ r.lo <= port /\ (port < r.hi \/ r.lo = r.hi)

\* _ufw_target_includes_port: a target that is no number and no range (a list, an application
\* profile, Anywhere) is taken for another port
TargetIncludesPort(r, port) == r.form = "range" /\ r.lo <= port /\ port <= r.hi

\* _ufw_allow_sources: of another action than ALLOW, or with a source that is not an address, a rule
\* is passed over
AllowSources(port) ==
    {r.source : r \in {s \in ufw.rules : s.action = "ALLOW" /\ TargetIncludesPort(s, port)}} \ {"name"}

ExternalNetworks(c) == c.networks \ {"loopback"}

\* assess_ufw_status
AssessUfwStatus(c) ==
    LET allowed == AllowSources(c.port)
        covered == \A n \in ExternalNetworks(c) : \E a \in allowed : Within(n, a)
    IN  CASE ufw.status = "garbled" -> "UNKNOWN"
          [] ufw.status = "inactive" -> "WARN"
          [] OTHER -> IF "anywhere" \notin allowed /\ ExternalNetworks(c) # {} /\ covered
                      THEN "PASS" ELSE "WARN"

\* firewall_doctor_check
FirewallCheck(c) ==
    CASE c.mode # "lan" \/ ufw.status = "missing" -> "INFO"
      [] c.mode = "lan" /\ ufw.status = "unreadable" -> "UNKNOWN"
      [] OTHER -> AssessUfwStatus(c)

CookieCheck(c) ==
    CASE c.mode = "local" \/ SecureCookie(c.cookie, c.mode) -> "PASS"
      [] OTHER -> IF c.mode = "lan" THEN "WARN" ELSE "ERROR"

\* access_urls
HasAccessUrl(c) ==
    CASE c.mode = "lan" -> c.origins \cap {"http"} # {}
      [] c.mode = "proxy" -> c.origins \cap {"https", "wildcard"} # {}
      [] OTHER -> TRUE

WarnIf(condition) == IF condition THEN "WARN" ELSE "PASS"
ErrorIf(condition) == IF condition THEN "ERROR" ELSE "PASS"

\* The part of the doctor that is about the file
FileChecks(c) ==
    {CookieCheck(c),
     WarnIf(c.mode \in {"lan", "proxy"} /\ ~HasAccessUrl(c)),
     WarnIf(c.mode = "proxy" /\ c.proxies = {}),
     WarnIf(c.mode = "lan" /\ ExternalNetworks(c) = {}),
     FirewallCheck(c)}

\* A number is found in a text where the text has a longer one that begins with it
ShownIn(p, q) == \E k \in 0..4 : p = q \div 10^k

\* Faulty variant of UnitMatches: the port alone is compared
UnitMatchesPort(c) == ShownIn(c.port, unit.port)

\* Service binding consistency: both options are looked for in the unit's text
UnitMatches(c) == c.host = unit.host /\ ShownIn(c.port, unit.port)

Checks ==
    LET known == Readable(file)
        c     == ReadServerConfiguration(file)
    IN  {ErrorIf(~known), ErrorIf(unit = Absent), ErrorIf(process = Absent),
         ErrorIf(~Answers(process, IF known THEN c.port ELSE 8080))}
        \cup (IF known THEN FileChecks(c) ELSE {})
        \cup (IF known /\ unit # Absent THEN {ErrorIf(~UnitMatches(c))} ELSE {})

\* The doctor's result.  Its other checks (database, bus, Docker, GPU, disk) can only make it worse.
Doctor ==
    CASE ~installed -> "UNSUPPORTED"
      [] installed /\ "ERROR" \in Checks -> "ERRORS"
      [] OTHER -> IF Checks \cap {"WARN", "UNKNOWN"} # {} THEN "WARNINGS" ELSE "HEALTHY"

-----------------------------------------------------------------------------
(* Properties                                                               *)

Bindings == [host : {"loopback", "unspecified"}, port : PortNumbers]

\* The address the server itself reads from a file
OwnBinding(f) == [host |-> BindHost(f), port |-> BindPort(f)]

\* The file is written so that each reader finds every key
Plain(f) == toml \/ f.hidden = {}

\* Types, and validate_server_configuration: no unit or process is bound to anything but a loopback
\* or the unspecified address
TypeOK ==
    /\ {toml, installed, fresh, late} \subseteq BOOLEAN
    /\ {unit, loaded, process} \subseteq Bindings \cup {Absent}
    /\ file # Absent => DOMAIN file = DOMAIN Empty
    /\ job # Absent =>
          /\ job.unit \in Bindings \cup {Absent}
          /\ job.installed \in BOOLEAN
          /\ job.at \in {"staged", "failed", "written", "undone"}
          /\ job.at \in {"staged", "failed"} => unit = job.unit
    /\ ufw \in Firewalls

\* deploy, render_config and config.py: what a deployment that started the service leaves behind, the
\* server starts with, bound to the address it reads from the file itself; whatever the arguments,
\* the edits made while the deployment ran, and later deployments that fail or die.  If someone else
\* started the service meanwhile, it was the old process that answered.  A file in which keys are
\* written so that the line reader misses them is excepted.
DeployedStarts ==
    fresh =>
        /\ Accepts(file)
        /\ file.hidden = {} => unit = OwnBinding(file)

\* read_server_configuration against config.py: a file both accept, and that is written plainly or
\* read with a TOML parser, they read alike.  The cookie policy is excepted where the key is missing
\* and the file has a security table, or nothing: the server then reads "auto", the doctor "secure".
ReadersAgree ==
    (Readable(file) /\ Accepts(file) /\ Plain(file)) =>
        LET c == ReadServerConfiguration(file)
        IN  /\ c.mode = AccessMode(file) /\ c.host = BindHost(file) /\ c.port = BindPort(file)
            /\ (file.cookie # Absent \/ (file # Empty /\ ~file.security)) =>
                    SecureCookie(c.cookie, c.mode) = SecureCookie(CookiePolicy(file), AccessMode(file))

\* doctor: without an error, the server runs and is bound where it reads from the file that it should
\* be, although the file is edited, the unit is not, systemd starts the service from a copy of the
\* unit, and each of the commands that bring these together may fail.  Two cases the doctor cannot
\* tell, since it compares only texts and asks the port: the unit was written or removed under the
\* process, or the process comes from an older copy; and keys the line reader misses.
BindingSeen ==
    (Doctor \in {"HEALTHY", "WARNINGS"} /\ ~late /\ Plain(file)) =>
        /\ process # Absent
        /\ process = OwnBinding(file)

\* doctor: a server on every interface is only called healthy when UFW is active, none of the rules
\* that the doctor can read admits everyone to the port it listens on, and there is one for each
\* trusted network; or there is no UFW.  The doctor reads ALLOW rules for a port or a range: this is,
\* as its own message says, no proof of complete firewall safety.
ExposureWarned ==
    LET legible == {r \in ufw.rules : r.action = "ALLOW" /\ r.form = "range"}
        reach   == {r \in legible : process.port \in r.lo..r.hi}
    IN  (/\ Doctor = "HEALTHY" /\ ~late /\ Plain(file)
         /\ process.host = "unspecified" /\ ufw.status # "missing") =>
            /\ ufw.status = "active"
            /\ \A r \in reach : r.source # "anywhere"
            /\ \A n \in Or(file.networks, {"loopback"}) \ {"loopback"} :
                  \E r \in reach : Within(n, r.source)

=============================================================================

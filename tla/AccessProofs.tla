------------------------------- MODULE AccessProofs --------------------------------
(***************************************************************************)
(* Proofs about Access, for any installer arguments, hand-written files and *)
(* firewall answers.                                                        *)
(***************************************************************************)
EXTENDS Access, TLAPS

\* enable --now and automatic restarts: a process has the unit's binding, unless the unit changed
\* under it or systemd had an older copy
BindInv == process # Absent /\ ~late => process = unit

\* deploy's backups: while a deployment that wrote the file itself runs, no earlier one counts; the
\* unit kept for the rollback is then as good as the one that was written
FreshInv ==
    /\ fresh => Accepts(file) /\ (file.hidden = {} => unit = OwnBinding(file))
    /\ job # Absent /\ fresh =>
          job.existed /\ (file.hidden = {} => job.unit = OwnBinding(file))
    /\ job # Absent /\ job.at = "written" /\ job.kept /\ file.hidden = {} => unit = OwnBinding(file)

-----------------------------------------------------------------------------
(* The two parsers                                                          *)

\* validate_server_configuration: a configuration that passes has a binding of two kinds
LEMMA ValidBinding ==
    ASSUME NEW c, Valid(c)
    PROVE  RenderUnit(c) \in Bindings
  <1>1. c.host \in {"loopback", "unspecified"}
    BY DEF Valid, HostFits, Modes
  <1>2. c.port \in PortNumbers
    BY DEF Valid
  <1> QED
    BY <1>1, <1>2 DEF RenderUnit, Bindings

\* read_server_configuration finds every key of a plainly written file, but for the origins
LEMMA ReadFields ==
    ASSUME NEW f, DOMAIN f = DOMAIN Empty, Plain(f)
    PROVE  LET c == ReadServerConfiguration(f)
           IN  /\ c.host = Or(f.host, "loopback")
               /\ c.mode = Or(f.mode, Inferred(Or(f.host, "loopback")))
               /\ c.port = Or(f.port, 8080)
               /\ c.cookie = Or(f.cookie, "secure")
               /\ c.networks = Or(f.networks, {"loopback"})
  <1> DEFINE m == MinimalServerConfiguration(f)
             g == IF toml THEN f ELSE m
  <1>1. /\ g.host = f.host /\ g.mode = f.mode /\ g.port = f.port
        /\ g.cookie = f.cookie /\ g.networks = f.networks
    <2>1. CASE toml
      BY <2>1
    <2>2. CASE ~toml
      <3>1. f.hidden = {}
        BY <2>2 DEF Plain
      <3>2. {"host", "mode", "port", "cookie", "networks"} \subseteq DOMAIN f
        BY DEF Empty
      <3> QED
        BY <2>2, <3>1, <3>2 DEF MinimalServerConfiguration
    <2> QED
      BY <2>1, <2>2
  <1> QED
    BY <1>1 DEF ReadServerConfiguration

\* read_server_configuration against config.py, for any plainly written file
LEMMA SameReading ==
    ASSUME NEW f, DOMAIN f = DOMAIN Empty, Readable(f), Plain(f)
    PROVE  LET c == ReadServerConfiguration(f)
           IN  /\ c.mode = AccessMode(f)
               /\ c.host = BindHost(f)
               /\ c.port = BindPort(f)
               /\ f.cookie # Absent \/ (f # Empty /\ ~f.security) => c.cookie = CookiePolicy(f)
  <1> DEFINE c == ReadServerConfiguration(f)
  <1>1. Valid(c)
    BY DEF Readable
  <1>2. c.mode = AccessMode(f) /\ c.port = BindPort(f)
    BY ReadFields DEF AccessMode, BindPort
  <1>3. c.host = BindHost(f)
    <2>1. c.mode = "lan" => c.host = "unspecified"
      BY <1>1 DEF Valid, HostFits
    <2>2. c.host = Or(f.host, "loopback")
      BY ReadFields
    <2> QED
      BY <1>2, <2>1, <2>2 DEF BindHost, Or
  <1>4. ASSUME f.cookie # Absent \/ (f # Empty /\ ~f.security)
        PROVE  c.cookie = CookiePolicy(f)
    <2>1. c.cookie # "yes"
      BY <1>1 DEF Valid
    <2>2. c.cookie = Or(f.cookie, "secure")
      BY ReadFields
    <2>3. CASE f.cookie # Absent
      BY <2>1, <2>2, <2>3 DEF CookiePolicy, Or
    <2>4. CASE f.cookie = Absent
      BY <1>4, <2>2, <2>4 DEF CookiePolicy, Or
    <2> QED
      BY <2>3, <2>4
  <1> QED
    BY <1>2, <1>3, <1>4

-----------------------------------------------------------------------------
(* Types                                                                    *)

LEMMA TypeInit == Init => TypeOK
  BY DEF Init, TypeOK

LEMMA StartedTyped ==
    ASSUME NEW u \in Bindings \cup {Absent}, NEW f
    PROVE  /\ Started(u, f) \in Bindings \cup {Absent}
           /\ Started(u, f) # Absent => Started(u, f) = u /\ Accepts(f)
  BY DEF Started

LEMMA TypeNext == TypeOK /\ [Next]_vars => TypeOK'
  <1> SUFFICES ASSUME TypeOK, [Next]_vars PROVE TypeOK'
    OBVIOUS
  <1> USE DEF TypeOK
  <1>1. ASSUME NEW choice \in Choices \cup {Default}, NEW start \in BOOLEAN, Stage(choice, start)
        PROVE  TypeOK'
    <2>1. file' # Absent => DOMAIN file' = DOMAIN Empty
      BY <1>1 DEF Stage, RenderConfig, Empty
    <2>2. job'.unit = unit /\ unit' = unit /\ job'.installed = installed
      BY <1>1 DEF Stage
    <2>3. process' \in Bindings \cup {Absent} /\ late' \in BOOLEAN
      BY <1>1 DEF Stage
    <2>4. job'.at \in {"staged", "failed"}
      BY <1>1 DEF Stage
    <2> QED
      BY <1>1, <2>1, <2>2, <2>3, <2>4 DEF Stage
  <1>2. CASE WriteUnit
    <2>1. unit' \in Bindings
      BY <1>2, ValidBinding DEF WriteUnit, Readable
    <2>2. job'.unit = job.unit /\ job'.installed = job.installed /\ job'.at = "written"
      BY <1>2 DEF WriteUnit
    <2>3. late' \in BOOLEAN
      BY <1>2 DEF WriteUnit
    <2> QED
      BY <1>2, <2>1, <2>2, <2>3 DEF WriteUnit
  <1>3. CASE Activate
    <2>1. process' \in Bindings \cup {Absent}
      BY <1>3, StartedTyped DEF Activate, StartNow
    <2>2. fresh' \in BOOLEAN
      BY <1>3 DEF Activate
    <2> QED
      BY <1>3, <2>1, <2>2 DEF Activate
  <1>4. CASE Rollback
    <2>1. job'.unit = job.unit /\ job'.installed = job.installed /\ job'.at = "undone"
      BY <1>4 DEF Rollback
    <2>2. late' \in BOOLEAN
      BY <1>4 DEF Rollback
    <2> QED
      BY <1>4, <2>1, <2>2 DEF Rollback
  <1>5. CASE Recover
    <2>1. loaded' \in Bindings \cup {Absent}
      BY <1>5 DEF Recover
    <2>2. process' \in Bindings \cup {Absent} /\ late' \in BOOLEAN
      BY <1>5, <2>1, StartedTyped DEF Recover
    <2> QED
      BY <1>5, <2>1, <2>2 DEF Recover
  <1>6. CASE Die
    BY <1>6 DEF Die
  <1>7. ASSUME NEW purge \in BOOLEAN, Uninstall(purge) PROVE TypeOK'
    <2>1. late' \in BOOLEAN /\ process' \in Bindings \cup {Absent}
      BY <1>7 DEF Uninstall
    <2> QED
      BY <1>7, <2>1 DEF Uninstall
  <1>8. ASSUME NEW f \in Hand \cup {Absent}, Edit(f) PROVE TypeOK'
    <2>1. file' # Absent => DOMAIN file' = DOMAIN Empty
      BY <1>8, AccessAssumption DEF Edit, Empty
    <2>2. job' # Absent => /\ job # Absent
                           /\ job'.unit = job.unit /\ job'.installed = job.installed /\ job'.at = job.at
      BY <1>8 DEF Edit
    <2> QED
      BY <1>8, <2>1, <2>2 DEF Edit
  <1>9. CASE Restart
    <2>1. process' \in Bindings \cup {Absent}
      BY <1>9, StartedTyped DEF Restart
    <2>2. late' \in BOOLEAN
      BY <1>9 DEF Restart
    <2> QED
      BY <1>9, <2>1, <2>2 DEF Restart
  <1>10. CASE Reload
    BY <1>10 DEF Reload
  <1>11. CASE OtherPython
    BY <1>11 DEF OtherPython
  <1>12. ASSUME NEW u \in Firewalls, ChangeFirewall(u) PROVE TypeOK'
    BY <1>12 DEF ChangeFirewall
  <1>13. CASE UNCHANGED vars
    BY <1>13 DEF vars
  <1> QED
    BY <1>1, <1>2, <1>3, <1>4, <1>5, <1>6, <1>7, <1>8, <1>9, <1>10, <1>11, <1>12, <1>13 DEF Next

\* validate_server_configuration: no unit or process is ever bound to anything but a loopback or the
\* unspecified address, at a port between 1 and 65535
THEOREM TypeCorrect == Spec => []TypeOK
  BY TypeInit, TypeNext, PTL DEF Spec

-----------------------------------------------------------------------------
(* The binding                                                              *)

LEMMA BindNext == TypeOK /\ BindInv /\ [Next]_vars => BindInv'
  <1> SUFFICES ASSUME TypeOK, BindInv, [Next]_vars PROVE BindInv'
    OBVIOUS
  <1> USE DEF BindInv
  <1>1. ASSUME NEW choice \in Choices \cup {Default}, NEW start \in BOOLEAN, Stage(choice, start)
        PROVE  BindInv'
    BY <1>1 DEF Stage
  <1>2. CASE WriteUnit
    BY <1>2 DEF WriteUnit
  <1>3. CASE Activate
    <2>1. CASE process = Absent
      BY <1>3, <2>1 DEF Activate, StartNow, Started
    <2>2. CASE process # Absent
      BY <1>3, <2>2 DEF Activate, StartNow
    <2> QED
      BY <2>1, <2>2
  <1>4. CASE Rollback
    <2>1. CASE job.at \in {"staged", "failed"}
      BY <1>4, <2>1 DEF Rollback, TypeOK
    <2>2. CASE job.at = "written"
      BY <1>4, <2>2 DEF Rollback
    <2> QED
      BY <1>4, <2>1, <2>2 DEF Rollback, TypeOK
  <1>5. CASE Recover
    <2>1. CASE UNCHANGED <<process, late>>
      BY <1>5, <2>1 DEF Recover
    <2>2. CASE process' = Started(loaded', file') /\ late' = (process' # Absent /\ loaded' # unit)
      BY <1>5, <2>2 DEF Recover, Started
    <2> QED
      BY <1>5, <2>1, <2>2 DEF Recover
  <1>6. CASE Die
    BY <1>6 DEF Die
  <1>7. ASSUME NEW purge \in BOOLEAN, Uninstall(purge) PROVE BindInv'
    BY <1>7 DEF Uninstall
  <1>8. ASSUME NEW f \in Hand \cup {Absent}, Edit(f) PROVE BindInv'
    BY <1>8 DEF Edit
  <1>9. CASE Restart
    BY <1>9 DEF Restart, Started
  <1>10. CASE Reload
    BY <1>10 DEF Reload
  <1>11. CASE OtherPython
    BY <1>11 DEF OtherPython
  <1>12. ASSUME NEW u \in Firewalls, ChangeFirewall(u) PROVE BindInv'
    BY <1>12 DEF ChangeFirewall
  <1>13. CASE UNCHANGED vars
    BY <1>13 DEF vars
  <1> QED
    BY <1>1, <1>2, <1>3, <1>4, <1>5, <1>6, <1>7, <1>8, <1>9, <1>10, <1>11, <1>12, <1>13 DEF Next

\* doctor: what a result without errors rests on
LEMMA NoErrors ==
    ASSUME Doctor \in {"HEALTHY", "WARNINGS"}
    PROVE  /\ process # Absent /\ unit # Absent /\ Readable(file)
           /\ process.port = ReadServerConfiguration(file).port
           /\ unit.host = ReadServerConfiguration(file).host
  <1> DEFINE known == Readable(file)
             c     == ReadServerConfiguration(file)
  <1>1. "ERROR" \notin Checks
    BY DEF Doctor
  <1>2. known /\ unit # Absent /\ process # Absent
    BY <1>1 DEF Checks, ErrorIf
  <1>3. ErrorIf(~Answers(process, IF known THEN c.port ELSE 8080)) \in Checks
    BY DEF Checks
  <1>4. process.port = c.port
    BY <1>1, <1>2, <1>3 DEF ErrorIf, Answers
  <1>5. ErrorIf(~UnitMatches(c)) \in Checks
    BY <1>2 DEF Checks
  <1>6. unit.host = c.host
    BY <1>1, <1>5 DEF ErrorIf, UnitMatches
  <1> QED
    BY <1>2, <1>4, <1>6

LEMMA BindInvSees == TypeOK /\ BindInv => BindingSeen
  <1> SUFFICES ASSUME TypeOK, BindInv, Doctor \in {"HEALTHY", "WARNINGS"}, ~late, Plain(file)
               PROVE  process # Absent /\ process = OwnBinding(file)
    BY DEF BindingSeen
  <1>1. process # Absent /\ process = unit
    BY NoErrors DEF BindInv
  <1>2. process \in Bindings
    BY <1>1 DEF TypeOK
  <1>3. process = [host |-> process.host, port |-> process.port]
    BY <1>2 DEF Bindings
  <1>4. Readable(file) /\ DOMAIN file = DOMAIN Empty
    BY NoErrors DEF Readable, TypeOK
  <1>5. process.host = BindHost(file) /\ process.port = BindPort(file)
    BY <1>1, <1>4, NoErrors, SameReading
  <1> QED
    BY <1>1, <1>3, <1>5 DEF OwnBinding

\* doctor: a result without errors means that the server runs and is bound where the file says, unless
\* the unit changed under it, systemd had an older copy, or the file is not written plainly
THEOREM BindingIsSeen == Spec => []BindingSeen
  <1>1. Init => BindInv
    BY DEF Init, BindInv
  <1> QED
    BY <1>1, TypeCorrect, BindNext, BindInvSees, PTL DEF Spec

\* read_server_configuration and config.py read a plainly written file that both accept alike
THEOREM ReadAlike == Spec => []ReadersAgree
  <1>1. TypeOK => ReadersAgree
    <2> SUFFICES ASSUME TypeOK, Readable(file), Accepts(file), Plain(file)
                 PROVE  ReadersAgree
      BY DEF ReadersAgree
    <2>1. DOMAIN file = DOMAIN Empty
      BY DEF TypeOK, Readable
    <2> QED
      BY <2>1, SameReading DEF ReadersAgree
  <1> QED
    BY <1>1, TypeCorrect, PTL

-----------------------------------------------------------------------------
(* The firewall                                                             *)

LEMMA HealthyIsShielded == TypeOK /\ BindingSeen => ExposureWarned
  <1> DEFINE c == ReadServerConfiguration(file)
             legible == {r \in ufw.rules : r.action = "ALLOW" /\ r.form = "range"}
             reach   == {r \in legible : process.port \in r.lo..r.hi}
  <1> SUFFICES ASSUME TypeOK, BindingSeen, Doctor = "HEALTHY", ~late, Plain(file),
                      process.host = "unspecified", ufw.status # "missing"
               PROVE  /\ ufw.status = "active"
                      /\ \A r \in reach : r.source # "anywhere"
                      /\ \A n \in Or(file.networks, {"loopback"}) \ {"loopback"} :
                            \E r \in reach : Within(n, r.source)
    BY DEF ExposureWarned
  <1>1. Readable(file) /\ Valid(c) /\ DOMAIN file = DOMAIN Empty
    BY NoErrors DEF Readable, TypeOK
  <1>2. c.host = "unspecified" /\ c.port = process.port /\ c.port \in Nat
    <2>1. process.host = BindHost(file) /\ process.port = BindPort(file)
      BY DEF BindingSeen, OwnBinding
    <2> QED
      BY <1>1, <2>1, SameReading DEF Valid, PortNumbers
  <1>3. c.mode = "lan"
    BY <1>1, <1>2 DEF Valid, HostFits, Modes
  <1>4. FirewallCheck(c) \notin {"WARN", "UNKNOWN"}
    <2>1. FirewallCheck(c) \in Checks
      BY <1>1 DEF Checks, FileChecks
    <2>2. Checks \cap {"WARN", "UNKNOWN"} = {}
      BY DEF Doctor
    <2> QED
      BY <2>1, <2>2
  <1>5. ufw.status \in {"missing", "unreadable", "garbled", "inactive", "active"}
    BY AccessAssumption DEF TypeOK
  <1>6. ufw.status # "unreadable" /\ FirewallCheck(c) = AssessUfwStatus(c)
    BY <1>3, <1>4 DEF FirewallCheck
  <1>7. ufw.status = "active"
    BY <1>4, <1>5, <1>6 DEF AssessUfwStatus
  <1>8. /\ "anywhere" \notin AllowSources(c.port)
        /\ \A n \in ExternalNetworks(c) : \E a \in AllowSources(c.port) : Within(n, a)
    BY <1>4, <1>6, <1>7 DEF AssessUfwStatus
  <1>9. reach = {r \in ufw.rules : r.action = "ALLOW" /\ TargetIncludesPort(r, c.port)}
    BY <1>2 DEF TargetIncludesPort
  <1>10. ASSUME NEW r \in reach
         PROVE  r.source # "anywhere"
    BY <1>8, <1>9, <1>10 DEF AllowSources
  <1>11. ASSUME NEW n \in Or(file.networks, {"loopback"}) \ {"loopback"}
         PROVE  \E r \in reach : Within(n, r.source)
    <2>1. n \in ExternalNetworks(c)
      BY <1>1, <1>11, ReadFields DEF ExternalNetworks
    <2>2. PICK a \in AllowSources(c.port) : Within(n, a)
      BY <1>8, <2>1
    <2>3. PICK r \in reach : r.source = a
      BY <1>9 DEF AllowSources
    <2> QED
      BY <2>2, <2>3
  <1> QED
    BY <1>7, <1>10, <1>11

\* doctor: a server on every interface is called healthy only behind an active firewall in whose
\* legible rules no one admits everyone and each trusted network has one
THEOREM ExposureIsWarned == Spec => []ExposureWarned
  BY TypeCorrect, BindingIsSeen, HealthyIsShielded, PTL

-----------------------------------------------------------------------------
(* What a deployment leaves behind                                          *)

LEMMA FreshNext == TypeOK /\ FreshInv /\ [Next]_vars => FreshInv'
  <1> SUFFICES ASSUME TypeOK, FreshInv, [Next]_vars PROVE FreshInv'
    OBVIOUS
  <1> USE DEF FreshInv
  <1>1. ASSUME NEW choice \in Choices \cup {Default}, NEW start \in BOOLEAN, Stage(choice, start)
        PROVE  FreshInv'
    <2>1. fresh => file # Absent
      BY DEF Accepts
    <2>2. (fresh => file' = file) /\ unit' = unit /\ fresh' = fresh
      BY <1>1, <2>1 DEF Stage
    <2>3. job'.existed = (file # Absent) /\ job'.unit = unit /\ job'.kept = FALSE
      BY <1>1 DEF Stage
    <2> QED
      BY <2>1, <2>2, <2>3
  <1>2. CASE WriteUnit
    <2> DEFINE c == ReadServerConfiguration(file)
    <2>1. file' = file /\ fresh' = fresh /\ unit' = RenderUnit(c) /\ Readable(file) /\ job # Absent
      BY <1>2 DEF WriteUnit
    <2>2. job'.existed = job.existed /\ job'.unit = job.unit
      BY <1>2 DEF WriteUnit
    <2>3. file.hidden = {} => RenderUnit(c) = OwnBinding(file)
      <3>1. DOMAIN file = DOMAIN Empty
        BY <2>1 DEF TypeOK, Readable
      <3> QED
        BY <2>1, <3>1, SameReading DEF Plain, RenderUnit, OwnBinding
    <2>4. file'.hidden = {} => unit' = OwnBinding(file')
      BY <2>1, <2>3
    <2> QED
      BY <2>1, <2>2, <2>4
  <1>3. CASE Activate
    <2>1. job' = Absent /\ file' = file /\ unit' = unit
      BY <1>3 DEF Activate
    <2>2. ASSUME fresh'
          PROVE  Accepts(file) /\ (file.hidden = {} => unit = OwnBinding(file))
      <3>1. job # Absent /\ job.at = "written" /\ job.start /\ job.kept /\ process = Absent
        BY <1>3, <2>2 DEF Activate
      <3>2. process' = Started(unit, file) /\ process' # Absent
        BY <1>3, <3>1 DEF Activate, StartNow, Answers
      <3>3. Accepts(file)
        BY <3>2 DEF Started
      <3> QED
        BY <3>1, <3>3
    <2>3. fresh' => Accepts(file') /\ (file'.hidden = {} => unit' = OwnBinding(file'))
      BY <2>1, <2>2
    <2> QED
      BY <2>1, <2>3
  <1>4. CASE Rollback
    <2>1. unit' = job.unit /\ file' = file /\ fresh' = fresh /\ job # Absent
      BY <1>4 DEF Rollback
    <2>2. job'.unit = job.unit /\ job'.existed = job.existed /\ job'.at = "undone"
      BY <1>4 DEF Rollback
    <2> QED
      BY <2>1, <2>2
  <1>5. CASE Recover
    <2>1. unit' = unit /\ job' = Absent /\ fresh' = fresh
      BY <1>5 DEF Recover
    <2>2. fresh => file' = file
      BY <1>5 DEF Recover
    <2> QED
      BY <2>1, <2>2
  <1>6. CASE Die
    BY <1>6 DEF Die
  <1>7. ASSUME NEW purge \in BOOLEAN, Uninstall(purge) PROVE FreshInv'
    BY <1>7 DEF Uninstall
  <1>8. ASSUME NEW f \in Hand \cup {Absent}, Edit(f) PROVE FreshInv'
    <2>1. fresh' = FALSE /\ (job' # Absent => job'.kept = FALSE)
      BY <1>8 DEF Edit
    <2> QED
      BY <2>1
  <1>9. CASE Restart
    BY <1>9 DEF Restart
  <1>10. CASE Reload
    BY <1>10 DEF Reload
  <1>11. CASE OtherPython
    BY <1>11 DEF OtherPython
  <1>12. ASSUME NEW u \in Firewalls, ChangeFirewall(u) PROVE FreshInv'
    BY <1>12 DEF ChangeFirewall
  <1>13. CASE UNCHANGED vars
    BY <1>13 DEF vars
  <1> QED
    BY <1>1, <1>2, <1>3, <1>4, <1>5, <1>6, <1>7, <1>8, <1>9, <1>10, <1>11, <1>12, <1>13 DEF Next

\* deploy: what a deployment that started the service leaves behind, the server starts with, bound to
\* the address it reads from the file, if that is written plainly
THEOREM DeployedServerStarts == Spec => []DeployedStarts
  <1>1. Init => FreshInv
    BY DEF Init, FreshInv
  <1>2. FreshInv => DeployedStarts
    BY DEF FreshInv, DeployedStarts
  <1> QED
    BY <1>1, <1>2, TypeCorrect, FreshNext, PTL DEF Spec

=============================================================================

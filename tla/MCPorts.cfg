CONSTANTS
    a1 = a1
    a2 = a2
    p1 = p1
    p2 = p2
    p3 = p3
    p4 = p4
    p5 = p5
    Apps = {a1, a2}
    Composed = {a2}
    Pids = {p1, p2, p3, p4, p5}
    PidsOf <- MCPidsOf
    Hidden = {p3, p4, p5}
    HostNet = {p5}
    NoPid = NoPid
    Ports = {web}
    any4 = any4
    any6 = any6
    lo4 = lo4
    lo6 = lo6
    map4 = map4
    V4 = {any4, lo4}
    V6 = {any6, lo6, map4}
    Any4 = any4
    Any6 = any6
    Mapped = {map4}
    MapOf <- MCMapOf
    Blank = Blank
    MaxSockets = 2
    MaxChanges = 1
SPECIFICATION Spec
INVARIANTS
    TypeOK
    FreeMeansFree
    QuietAnswerExact
    EveryPortShownOnce

CONSTANTS
    local = local
    v6 = v6
    remote = remote
    gate = gate
    t1 = t1
    t2 = t2
    localhost = localhost
    external = external
    NoOrigin = NoOrigin
    NotAnAddress = NotAnAddress
    Hosts = {local, v6, remote, gate}
    Loopback = {local, v6}
    Proxies = {local, gate}
    HopLimit = 3
    Headers <- MCHeaders
    Routes <- MCRoutes
    Relays = {v6}
    Tabs = {t1, t2}
    HostOf <- MCHostOf
    Origins = {localhost, external}
    OriginOf <- MCOriginOf
    TrustedOrigins = {localhost, external}
    LocalOrigins = {localhost}
    MaxFailures = 2
    Window = 1
    Lifetime = 2
    MaxTime = 2
    MaxSessions = 2
    MaxEvents = 4
SPECIFICATION Spec
INVARIANT LogoutEndsSession
CHECK_DEADLOCK FALSE

---------------------------- MODULE Authentication -----------------------------
(***************************************************************************)
(* The administrator's account, server-side sessions and login throttling,  *)
(* with the browser pages that use them.                                    *)
(*                                                                         *)
(* A handler runs on the event loop without an await, so handlers do not    *)
(* interleave.  Each commits several times, though: time passes and an      *)
(* error or a crash may strike between two commits.  A page's reply may be  *)
(* lost after the server has committed.                                     *)
(*                                                                         *)
(* Hosts stand for IP addresses.  Session and CSRF tokens are numbers that  *)
(* are never drawn twice; sessions are numbered in the order of their rows. *)
(***************************************************************************)
EXTENDS Integers, Sequences, FiniteSets

CONSTANTS
    Hosts,          \* addresses requests come from
    Loopback,       \* loopback addresses
    Proxies,        \* addresses inside trusted_proxies
    HopLimit,       \* forwarded_hop_limit
    NotAnAddress,   \* an entry of a forwarding header that is no IP literal
    Headers,        \* forwarding entries a request may carry when it is sent
    Routes,         \* sequences of trusted proxies a request may pass
    Relays,         \* forwarders that are no trusted proxies, such as Tailscale Serve on this
                    \* machine while trusted_proxies is empty
    Tabs,           \* browser pages
    HostOf,         \* the host a page's browser runs on
    Origins,        \* origins of pages
    NoOrigin,       \* stands for a request without the header
    OriginOf,       \* the origin a page sends with every POST
    TrustedOrigins, \* trusted_origins
    LocalOrigins,   \* the origins on a loopback host name
    MaxFailures,    \* login_max_failures
    Window,         \* login_window_minutes
    Lifetime,       \* auth_session_hours
    MaxTime,        \* bound on time
    MaxSessions,    \* bound on session rows
    MaxEvents       \* bound on failed logins and CSRF tokens issued together

ASSUME AuthAssumption ==
    /\ Loopback \subseteq Hosts /\ Proxies \subseteq Hosts /\ NotAnAddress \notin Hosts
    /\ Headers \subseteq Seq(Hosts \cup {NotAnAddress}) /\ <<>> \in Headers
    /\ Routes \subseteq Seq(Proxies) /\ Relays \subseteq Hosts \ Proxies
    /\ HostOf \in [Tabs -> Hosts] /\ OriginOf \in [Tabs -> Origins \cup {NoOrigin}]
    /\ NoOrigin \notin Origins
    /\ TrustedOrigins \subseteq Origins /\ LocalOrigins \subseteq Origins
    /\ HopLimit \in Nat \ {0} /\ MaxFailures \in Nat \ {0}
    /\ Window \in Nat /\ Lifetime \in Nat
    /\ {MaxTime, MaxSessions, MaxEvents} \subseteq Nat

VARIABLES
    now,        \* the server's clock
    admin,      \* the administrator's row exists
    rows,       \* the session table, in the order of insertion
    failures,   \* the login failure table
    audit,      \* audit events of each kind
    issued,     \* CSRF tokens issued
    call,       \* the handler that runs, with the client it serves
    cookie,     \* the session in the cookie jar of each host's browser, 0 for none
    token,      \* state.csrf of each page, 0 for null
    view,       \* what each page shows
    creator,    \* history: who created the administrator: [host, from, origin]
    wrong,      \* history: wrong passwords answered since the client's last success
    left        \* history: sessions a page has left though its logout was refused

database == <<admin, rows, failures, audit>>
pages    == <<cookie, token, view>>
history  == <<creator, wrong, left>>
vars     == <<now, database, issued, call, pages, history>>

Idle == [pc |-> "idle"]

-----------------------------------------------------------------------------
(* The network a request comes from                                         *)

\* Where the trusted proxies, or the server, get a request of page t from: its host, or a
\* forwarder that is not trusted
Sources(t) == {HostOf[t]} \cup Relays

\* What the server sees of a request that comes from h on route r with header entries e: each
\* proxy appends the address it was contacted from
Peer(h, r) == IF r = <<>> THEN h ELSE r[Len(r)]
Chain(h, r, e) == IF r = <<>> THEN e ELSE e \o <<h>> \o SubSeq(r, 1, Len(r) - 1)

\* _forwarded_chain, _x_forwarded_chain: a malformed header of a trusted peer is refused
Readable(peer, chain) ==
    peer \in Proxies => /\ Len(chain) <= HopLimit
                        /\ \A i \in DOMAIN chain : chain[i] \in Hosts

Foreign(chain) == {i \in DOMAIN chain : chain[i] \notin Proxies}

\* Faulty variant of Client: the leftmost entry is believed
ClientLeftmost(peer, chain) ==
    IF peer \notin Proxies \/ chain = <<>> THEN peer ELSE chain[1]

\* request_network_context: the nearest hop that is not a trusted proxy
Client(peer, chain) ==
    IF peer \notin Proxies \/ chain = <<>> THEN peer
    ELSE IF Foreign(chain) = {} THEN chain[1]
    ELSE chain[CHOOSE i \in Foreign(chain) : \A j \in Foreign(chain) : j <= i]

-----------------------------------------------------------------------------
(* Sessions                                                                 *)

\* require_trusted_origin: a request without an origin passes
OriginTrusted(t) == OriginOf[t] \in TrustedOrigins \cup {NoOrigin}

\* origin_is_local
OriginLocal(t) == OriginOf[t] \in LocalOrigins \cup {NoOrigin}

\* authenticate_token
Live(s) == s # 0 /\ ~rows[s].revoked /\ now < rows[s].expires

\* require_http_auth for a POST of page t
Admitted(t) ==
    /\ Live(cookie[HostOf[t]])
    /\ OriginTrusted(t)
    /\ token[t] # 0 /\ token[t] = rows[cookie[HostOf[t]]].csrf

Bounded == audit.failure + issued < MaxEvents

Count(kind) == [audit EXCEPT ![kind] = @ + 1]

-----------------------------------------------------------------------------
(* Initial administrator                                                    *)

\* setup: connection and client must both be this host
SetupAllowed(t, peer, client) ==
    /\ peer \in Loopback /\ client \in Loopback
    /\ OriginTrusted(t) /\ OriginLocal(t)

\* setup, create_administrator: the row and its audit event are one commit
Setup(t, h, r, e) ==
    LET peer  == Peer(h, r)
        chain == Chain(h, r, e)
    IN  /\ call = Idle /\ view[t] = "setup"
        /\ Readable(peer, chain) /\ SetupAllowed(t, peer, Client(peer, chain))
        /\ ~admin /\ admin' = TRUE
        /\ audit' = Count("setup")
        /\ creator' = creator \cup {[host |-> HostOf[t], from |-> h, origin |-> OriginOf[t]]}
        /\ call' = [pc |-> "open", tab |-> t, login |-> FALSE]
        /\ UNCHANGED <<now, rows, failures, issued, pages, wrong, left>>

-----------------------------------------------------------------------------
(* Login                                                                    *)

Expired(f) == f.at < now - Window

\* Faulty variant of Throttled: failures of every client are counted
ThrottledTogether(client, kept) == Cardinality(kept) >= MaxFailures

\* Faulty variant of Throttled: one failure more than the limit is let through
ThrottledLate(client, kept) == Cardinality({f \in kept : f.client = client}) > MaxFailures

Throttled(client, kept) == Cardinality({f \in kept : f.client = client}) >= MaxFailures

\* login, rate_limited: failures older than the window are deleted for every client
Login(t, h, r, e) ==
    LET peer   == Peer(h, r)
        chain  == Chain(h, r, e)
        client == Client(peer, chain)
        kept   == {f \in failures : ~Expired(f)}
    IN  /\ call = Idle /\ view[t] = "login"
        /\ OriginTrusted(t) /\ Readable(peer, chain)
        /\ failures' = kept
        /\ call' = IF Throttled(client, kept)
                   THEN [pc |-> "refuse", client |-> client, asked |-> now]
                   ELSE [pc |-> "verify", tab |-> t, from |-> h, client |-> client]
        /\ UNCHANGED <<now, admin, rows, audit, issued, pages, history>>

\* The refusal is audited
Refuse ==
    /\ call.pc = "refuse" /\ call' = Idle
    /\ Bounded
    /\ audit' = Count("failure")
    /\ UNCHANGED <<now, admin, rows, failures, issued, pages, history>>

\* record_login_failure; an unknown administrator fails like a wrong password
WrongPassword ==
    LET f == [from |-> call.from, client |-> call.client, at |-> now,
              n |-> Cardinality({g \in wrong : g.client = call.client}) + 1]
    IN  /\ call.pc = "verify" /\ call' = Idle
        /\ Bounded
        /\ failures' = failures \cup {f} /\ wrong' = wrong \cup {f}
        /\ audit' = Count("failure")
        /\ UNCHANGED <<now, admin, rows, issued, pages, creator, left>>

\* Faulty variant of RightPassword: the audit event is committed with the deletion
RightPasswordAudits ==
    /\ call.pc = "verify" /\ admin
    /\ failures' = {f \in failures : f.client # call.client}
    /\ wrong' = {f \in wrong : f.client # call.client}
    /\ audit' = Count("success")
    /\ call' = [pc |-> "open", tab |-> call.tab, login |-> FALSE]
    /\ UNCHANGED <<now, admin, rows, issued, pages, creator, left>>

\* clear_login_failures: of this client only, before the session exists
RightPassword ==
    /\ call.pc = "verify" /\ admin
    /\ failures' = {f \in failures : f.client # call.client}
    /\ wrong' = {f \in wrong : f.client # call.client}
    /\ call' = [pc |-> "open", tab |-> call.tab, login |-> TRUE]
    /\ UNCHANGED <<now, admin, rows, audit, issued, pages, creator, left>>

\* create_auth_session
NewSession(csrf) == [revoked |-> FALSE, expires |-> now + Lifetime, csrf |-> csrf]

\* set_session_cookie; session 0 is clear_session_cookie
SetCookie(h, s) == cookie' = [cookie EXCEPT ![h] = s]

\* The session row and a login's audit event are one commit; the reply carries cookie and
\* token, or is lost
OpenSession ==
    /\ call.pc = "open" /\ call' = Idle
    /\ Bounded /\ Len(rows) < MaxSessions
    /\ issued' = issued + 1
    /\ rows' = Append(rows, NewSession(issued'))
    /\ audit' = IF call.login THEN Count("success") ELSE audit
    /\ \/ /\ SetCookie(HostOf[call.tab], Len(rows'))
          /\ token' = [token EXCEPT ![call.tab] = issued']
          /\ view' = [view EXCEPT ![call.tab] = "main"]
       \/ UNCHANGED pages
    /\ UNCHANGED <<now, admin, failures, history>>

\* An SQL error or a crash before the next commit
Fail ==
    /\ call # Idle /\ call' = Idle
    /\ UNCHANGED <<now, database, issued, pages, history>>

-----------------------------------------------------------------------------
(* Pages with a session                                                     *)

\* Faulty variant of NewToken: a session keeps its token, every page gets the same
NewTokenSame(s) == rows[s].csrf

\* Faulty variant of NewToken: the old digest is cleared and no new one stored
NewTokenNone(s) == 0

\* rotate_csrf
NewToken(s) == issued + 1

\* bootstrap with a live session: GET /session rotates the token; when the reply is lost
\* the page shows the login form
Resume(t) ==
    LET s == cookie[HostOf[t]]
    IN  /\ call = Idle /\ Live(s) /\ Bounded
        /\ issued' = issued + 1
        /\ rows' = [rows EXCEPT ![s].csrf = NewToken(s)]
        /\ \/ /\ token' = [token EXCEPT ![t] = rows'[s].csrf]
              /\ view' = [view EXCEPT ![t] = "main"]
           \/ /\ token' = [token EXCEPT ![t] = 0]
              /\ view' = [view EXCEPT ![t] = "login"]
        /\ UNCHANGED <<now, admin, failures, audit, call, cookie, history>>

\* auth_status
FirstForm == IF admin THEN "login" ELSE "setup"

\* bootstrap without one, or with a failed request
ShowForm(t) ==
    /\ call = Idle
    /\ \/ /\ ~Live(cookie[HostOf[t]])
          /\ view' = [view EXCEPT ![t] = FirstForm]
       \/ view' = [view EXCEPT ![t] = "login"]
    /\ token' = [token EXCEPT ![t] = 0]
    /\ UNCHANGED <<now, database, issued, call, cookie, history>>

\* An answer 401 or a socket closed with 4401; only the latter clears the token
SignedOut(t) ==
    /\ call = Idle /\ view[t] = "main" /\ ~Live(cookie[HostOf[t]])
    /\ view' = [view EXCEPT ![t] = "login"]
    /\ \/ token' = [token EXCEPT ![t] = 0]
       \/ UNCHANGED token
    /\ UNCHANGED <<now, database, issued, call, cookie, history>>

Leave(t) ==
    /\ view' = [view EXCEPT ![t] = "login"] /\ token' = [token EXCEPT ![t] = 0]

\* logout: revocation and audit event are one commit; the reply clears the cookie
Logout(t) ==
    LET s == cookie[HostOf[t]]
    IN  /\ call = Idle /\ view[t] = "main" /\ Admitted(t)
        /\ rows' = [rows EXCEPT ![s].revoked = TRUE]
        /\ audit' = Count("logout")
        /\ \/ SetCookie(HostOf[t], 0)
           \/ UNCHANGED cookie
        /\ Leave(t)
        /\ UNCHANGED <<now, admin, failures, issued, call, history>>

\* The page ignores that its logout was refused
LogoutRefused(t) ==
    /\ call = Idle /\ view[t] = "main" /\ ~Admitted(t)
    /\ Leave(t) /\ left' = left \cup ({cookie[HostOf[t]]} \ {0})
    /\ UNCHANGED <<now, database, issued, call, cookie, creator, wrong>>

\* ... or that the request failed
LogoutFails(t) ==
    /\ call = Idle /\ view[t] = "main"
    /\ Leave(t)
    /\ UNCHANGED <<now, database, issued, call, cookie, history>>

Tick ==
    /\ now < MaxTime /\ now' = now + 1
    /\ UNCHANGED <<database, issued, call, pages, history>>

-----------------------------------------------------------------------------
Init ==
    /\ now = 0 /\ admin = FALSE /\ rows = <<>> /\ failures = {} /\ issued = 0
    /\ audit = [kind \in {"setup", "success", "failure", "logout"} |-> 0]
    /\ call = Idle
    /\ cookie = [h \in Hosts |-> 0] /\ token = [t \in Tabs |-> 0]
    /\ view = [t \in Tabs |-> "login"]
    /\ creator = {} /\ wrong = {} /\ left = {}

Next ==
    \/ \E t \in Tabs, r \in Routes \cup {<<>>}, e \in Headers : \E h \in Sources(t) :
          Setup(t, h, r, e) \/ Login(t, h, r, e)
    \/ Refuse \/ WrongPassword \/ RightPassword \/ OpenSession \/ Fail \/ Tick
    \/ \E t \in Tabs : Resume(t) \/ ShowForm(t) \/ SignedOut(t) \/ Logout(t) \/ LogoutRefused(t)
                    \/ LogoutFails(t)

Spec == Init /\ [][Next]_vars

-----------------------------------------------------------------------------
(* Properties                                                               *)

Attempts == [from : Hosts, client : Hosts, at : Nat, n : Nat \ {0}]

TypeOK ==
    /\ now \in Nat /\ admin \in BOOLEAN /\ issued \in Nat
    /\ rows \in Seq([revoked : BOOLEAN, expires : Nat, csrf : Nat \ {0}])
    /\ failures \subseteq Attempts /\ wrong \subseteq Attempts
    /\ audit \in [{"setup", "success", "failure", "logout"} -> Nat]
    /\ call \in {Idle} \cup [pc : {"refuse"}, client : Hosts, asked : Nat]
                       \cup [pc : {"verify"}, tab : Tabs, from : Hosts, client : Hosts]
                       \cup [pc : {"open"}, tab : Tabs, login : BOOLEAN]
    /\ cookie \in [Hosts -> 0..Len(rows)]
    /\ token \in [Tabs -> Nat] /\ view \in [Tabs -> {"setup", "login", "main"}]
    /\ creator \subseteq [host : Hosts, from : Hosts, origin : Origins \cup {NoOrigin}]
    /\ left \subseteq DOMAIN rows

\* rate_limited with record_login_failure: whatever route its requests take and whatever
\* forwarding entries they carry, a host outside the trusted proxies (or everyone behind one
\* forwarder that is not trusted) is told within one window of at most MaxFailures wrong
\* passwords, unless it gave the right one in between
ThrottleBound ==
    \A f \in wrong : f.from \notin Proxies =>
        Cardinality({g \in wrong : g.from = f.from /\ g.at \in f.at - Window .. f.at})
            <= MaxFailures

\* rate_limited: a client is refused only for failures of its own that are still inside the
\* window, and that no later success of the same client has cleared
LockoutJustified ==
    call.pc = "refuse" =>
        Cardinality({f \in wrong : f.client = call.client /\ f.at >= call.asked - Window})
            >= MaxFailures

\* setup with request_network_context: whatever route a request takes and whatever forwarding
\* entries it carries, the administrator is created by a host that is a loopback address or that
\* the operator trusts to forward.  Any other host must come through a forwarder on this machine
\* that is not trusted, and even then no page of an external origin gets through
SetupIsLocal ==
    \A c \in creator :
        \/ c.host \in Loopback \cup Proxies
        \/ c.from \in Relays \cap Loopback /\ c.origin \in LocalOrigins \cup {NoOrigin}

\* _audit and the commits of setup, login and logout: whatever step fails, a login is audited
\* as successful exactly if its session exists (a setup's session has no event of its own), a
\* revoked session has its logout event, and every recorded failure has one
AuditComplete ==
    /\ audit.setup = IF admin THEN 1 ELSE 0
    /\ Len(rows) \in audit.success .. audit.success + audit.setup
    /\ Cardinality({s \in DOMAIN rows : rows[s].revoked}) = audit.logout
    /\ Cardinality(failures) <= audit.failure

\* rotate_csrf: of the pages that share a session only the one that fetched the session last
\* can still change anything with it
OneActingPage ==
    \A t, u \in Tabs : Admitted(t) /\ Admitted(u) /\ HostOf[t] = HostOf[u] => t = u

\* logout as the page presents it: when a page has left its session, also after a refusal, the
\* session has ended.  The code does not have this property.
LogoutEndsSession == \A s \in left : ~Live(s)

=============================================================================

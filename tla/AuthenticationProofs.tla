-------------------------- MODULE AuthenticationProofs --------------------------
(***************************************************************************)
(* Proofs about Authentication, for any hosts, proxies, routes, headers,    *)
(* pages and limits.                                                        *)
(***************************************************************************)
EXTENDS Authentication, SequenceTheorems, FiniteSetTheorems, WellFoundedInduction, TLAPS

\* Failures of a client that its next login would count
Fresh(F, c, time) == {f \in F : f.client = c /\ f.at >= time - Window}

\* record_login_failure and rate_limited: the table has every recent failure and nothing else, a
\* host or forwarder that is not trusted is recorded under its own address, and a password is only
\* verified below the limit
Recorded ==
    /\ failures \subseteq wrong
    /\ \A f \in wrong : f.at <= now
    /\ \A f \in wrong : f.at >= now - Window => f \in failures
    /\ \A f \in wrong : f.from \notin Proxies => f.client = f.from

Verifying ==
    call.pc = "verify" =>
        /\ call.from \notin Proxies => call.client = call.from
        /\ Cardinality(Fresh(failures, call.client, now)) < MaxFailures

\* setup opens the one session that has no success event
Opening == call.pc = "open" /\ ~call.login => admin /\ Len(rows) = audit.success

\* rotate_csrf: a token is in one page
Tokens ==
    /\ \A t \in Tabs : token[t] <= issued
    /\ \A t, u \in Tabs : token[t] # 0 /\ token[t] = token[u] => t = u

-----------------------------------------------------------------------------
(* The network                                                              *)

\* A nonempty set of indices has a greatest element
LEMMA Greatest ==
    ASSUME NEW n \in Nat, NEW T \in SUBSET (1..n), T # {}
    PROVE  \E i \in T : \A j \in T : j <= i
  <1> DEFINE U == {n - i : i \in T}  R == OpToRel(<, Nat)
  <1>1. U \subseteq Nat /\ U # {}
    <2>1. \A i \in T : n - i \in Nat
      <3>1. \A i \in 1..n : n - i \in Nat
        OBVIOUS
      <3> QED
        BY <3>1
    <2>2. PICK i \in T : TRUE
      OBVIOUS
    <2>3. n - i \in U
      BY <2>2
    <2> QED
      BY <2>1, <2>3, Zenon
  <1>2. IsWellFoundedOn(R, Nat)
    BY NatLessThanWellFounded
  <1>3. PICK x \in U : \A y \in U : ~ (<<y, x>> \in R)
    <2> HIDE DEF U, R
    <2> QED
      BY <1>1, <1>2, WFMin
  <1>4. \A y \in U : ~ (y < x)
    BY <1>1, <1>3 DEF OpToRel
  <1>5. PICK i \in T : x = n - i
    BY <1>3
  <1>6. \A j \in T : j <= i
    <2> SUFFICES ASSUME NEW j \in T PROVE j <= i
      OBVIOUS
    <2>1. ~ (n - j < n - i)
      BY <1>4, <1>5
    <2>2. i \in Int /\ j \in Int
      OBVIOUS
    <2> QED
      BY <2>1, <2>2
  <1> QED
    BY <1>6

Entries == Hosts \cup {NotAnAddress}

\* A request comes from an address
LEMMA SourceType ==
    ASSUME NEW t \in Tabs, NEW h \in Sources(t)
    PROVE  h \in Hosts
  BY AuthAssumption DEF Sources

\* What reaches the server: an address and a list of entries
LEMMA NetworkType ==
    ASSUME NEW h \in Hosts, NEW r \in Routes \cup {<<>>}, NEW e \in Headers
    PROVE  Peer(h, r) \in Hosts /\ Chain(h, r, e) \in Seq(Entries)
  <1>1. e \in Seq(Entries) /\ r \in Seq(Proxies) /\ Proxies \subseteq Hosts
    BY AuthAssumption DEF Entries
  <1>2. CASE r = <<>>
    BY <1>1, <1>2 DEF Peer, Chain
  <1>3. CASE r # <<>>
    <2>1. Len(r) \in Nat /\ Len(r) \in 1..Len(r)
      BY <1>1, <1>3
    <2>2. r[Len(r)] \in Proxies
      BY <1>1, <2>1, ElementOfSeq
    <2>3. SubSeq(r, 1, Len(r) - 1) \in Seq(Entries)
      <3>1. \A i \in 1..(Len(r) - 1) : i \in 1..Len(r)
        BY <2>1
      <3>2. \A i \in 1..(Len(r) - 1) : r[i] \in Entries
        BY <1>1, <3>1, ElementOfSeq DEF Entries
      <3> QED
        BY <2>1, <3>2, SubSeqProperties
    <2>4. <<h>> \in Seq(Entries)
      BY DEF Entries
    <2>5. e \o <<h>> \in Seq(Entries)
      BY <1>1, <2>4, ConcatProperties
    <2>6. e \o <<h>> \o SubSeq(r, 1, Len(r) - 1) \in Seq(Entries)
      BY <2>3, <2>5, ConcatProperties
    <2> QED
      BY <1>1, <1>3, <2>2, <2>6 DEF Peer, Chain
  <1> QED
    BY <1>2, <1>3

\* request_network_context: the client of a readable request is an address
LEMMA ClientType ==
    ASSUME NEW peer \in Hosts, NEW chain \in Seq(Entries), Readable(peer, chain)
    PROVE  Client(peer, chain) \in Hosts
  <1>1. CASE peer \notin Proxies \/ chain = <<>>
    BY <1>1 DEF Client
  <1>2. CASE peer \in Proxies /\ chain # <<>>
    <2>1. DOMAIN chain = 1..Len(chain) /\ Len(chain) \in Nat /\ 1 \in 1..Len(chain)
      BY <1>2
    <2>2. \A i \in DOMAIN chain : chain[i] \in Hosts
      BY <1>2 DEF Readable
    <2>3. CASE Foreign(chain) = {}
      BY <1>2, <2>1, <2>2, <2>3 DEF Client
    <2>4. CASE Foreign(chain) # {}
      <3> DEFINE k == CHOOSE i \in Foreign(chain) : \A j \in Foreign(chain) : j <= i
      <3>1. Foreign(chain) \in SUBSET (1..Len(chain))
        BY <2>1 DEF Foreign
      <3>2. \E i \in Foreign(chain) : \A j \in Foreign(chain) : j <= i
        BY <2>1, <2>4, <3>1, Greatest
      <3>3. k \in Foreign(chain)
        BY <3>2
      <3>4. Client(peer, chain) = chain[k]
        BY <1>2, <2>4 DEF Client
      <3> QED
        BY <2>2, <3>3, <3>4 DEF Foreign
    <2> QED
      BY <2>3, <2>4
  <1> QED
    BY <1>1, <1>2

\* request_network_context: whatever the request carries and however many proxies forward it, a host
\* that is no proxy is the client.  The entries behind its own are the proxies', so that the
\* nearest one that is not trusted is the one the first proxy appended.
LEMMA ClientIsHost ==
    ASSUME NEW h \in Hosts, h \notin Proxies, NEW r \in Routes \cup {<<>>}, NEW e \in Headers
    PROVE  Client(Peer(h, r), Chain(h, r, e)) = h
  <1>1. e \in Seq(Entries) /\ r \in Seq(Proxies) /\ Proxies \subseteq Entries
    BY AuthAssumption DEF Entries
  <1>2. CASE r = <<>>
    BY <1>2 DEF Peer, Client
  <1>3. CASE r # <<>>
    <2> DEFINE n == Len(r) - 1  p == SubSeq(r, 1, n)  c == e \o <<h>>  chain == c \o p
               k == Len(e) + 1
    <2>1. n \in Nat /\ Len(r) \in 1..Len(r) /\ Len(e) \in Nat /\ k \in Nat
      BY <1>1, <1>3
    <2>2. Peer(h, r) \in Proxies
      BY <1>1, <1>3, <2>1, ElementOfSeq DEF Peer
    <2>3. /\ p \in Seq(Proxies) /\ p \in Seq(Entries) /\ Len(p) = n
      <3>1. \A i \in 1..n : i \in 1..Len(r)
        BY <2>1
      <3>2. \A i \in 1..n : r[i] \in Proxies
        BY <1>1, <3>1, ElementOfSeq
      <3>3. p \in Seq(Proxies) /\ Len(p) = IF 1 <= n THEN n - 1 + 1 ELSE 0
        BY <2>1, <3>2, SubSeqProperties
      <3>4. Len(p) = n
        <4> HIDE DEF n, p
        <4>1. CASE 1 <= n
          BY <2>1, <3>3, <4>1
        <4>2. CASE ~(1 <= n)
          BY <2>1, <3>3, <4>2
        <4> QED
          BY <4>1, <4>2
      <3>5. p \in Seq(Entries)
        <4> HIDE DEF p
        <4> QED
          BY <1>1, <3>3, SeqMonotonic, Zenon
      <3> QED
        BY <3>3, <3>4, <3>5
    <2> HIDE DEF p
    <2>4. <<h>> \in Seq(Entries) /\ Len(<<h>>) = 1 /\ <<h>>[1] = h
      BY DEF Entries
    <2>5. c \in Seq(Entries) /\ Len(c) = k /\ c[k] = h
      <3>1. /\ c \in Seq(Entries) /\ Len(c) = Len(e) + Len(<<h>>)
            /\ \A i \in 1..(Len(e) + Len(<<h>>)) :
                 c[i] = IF i <= Len(e) THEN e[i] ELSE <<h>>[i - Len(e)]
        BY <1>1, <2>4, ConcatProperties
      <3> QED
        BY <2>1, <2>4, <3>1
    <2> HIDE DEF c, k
    <2>6. /\ Len(chain) = k + n /\ chain \in Seq(Entries)
          /\ \A i \in 1..(k + n) : chain[i] = IF i <= k THEN c[i] ELSE p[i - k]
      <3>1. /\ c \o p \in Seq(Entries) /\ Len(c \o p) = Len(c) + Len(p)
            /\ \A i \in 1..(Len(c) + Len(p)) :
                 (c \o p)[i] = IF i <= Len(c) THEN c[i] ELSE p[i - Len(c)]
        BY <2>3, <2>5, ConcatProperties
      <3> QED
        <4> HIDE DEF n
        <4> QED
          BY <2>3, <2>5, <3>1
    <2>7. k \in 1..(k + n) /\ k >= 1
      BY <2>1 DEF k
    <2>8. DOMAIN chain = 1..(k + n) /\ chain # <<>> /\ chain[k] = h
      BY <2>1, <2>5, <2>6, <2>7
    <2>9. \A i \in 1..(k + n) : i > k => chain[i] \in Proxies
      <3> SUFFICES ASSUME NEW i \in 1..(k + n), i > k PROVE chain[i] \in Proxies
        OBVIOUS
      <3>1. i - k \in 1..Len(p) /\ ~(i <= k)
        BY <2>1, <2>3
      <3>2. p[i - k] \in Proxies
        BY <2>3, <3>1, ElementOfSeq
      <3> QED
        BY <2>6, <3>1, <3>2
    <2> HIDE DEF chain
    <2>10. k \in Foreign(chain) /\ \A j \in Foreign(chain) : j <= k
      BY <2>1, <2>7, <2>8, <2>9 DEF Foreign
    <2>11. \A i \in Foreign(chain) : (\A j \in Foreign(chain) : j <= i) => i = k
      <3>1. \A i \in Foreign(chain) : i \in Int
        BY <2>8 DEF Foreign
      <3> QED
        BY <2>1, <2>10, <3>1
    <2>12. (CHOOSE i \in Foreign(chain) : \A j \in Foreign(chain) : j <= i) = k
      BY <2>10, <2>11
    <2>13. Chain(h, r, e) = chain
      BY <1>3 DEF Chain, chain, c, p
    <2> QED
      BY <2>2, <2>8, <2>10, <2>12, <2>13 DEF Client
  <1> QED
    BY <1>2, <1>3

-----------------------------------------------------------------------------
(* Types                                                                    *)

Kinds == {"setup", "success", "failure", "logout"}
Row == [revoked : BOOLEAN, expires : Nat, csrf : Nat \ {0}]

\* The handler that runs has the fields its step reads
LEMMA CallShape ==
    ASSUME TypeOK
    PROVE  /\ call.pc = "refuse" => call.client \in Hosts /\ call.asked \in Nat
           /\ call.pc = "verify" => call.tab \in Tabs /\ call.from \in Hosts /\ call.client \in Hosts
           /\ call.pc = "open" => call.tab \in Tabs /\ call.login \in BOOLEAN
  <1>1. CASE call = Idle
    BY <1>1 DEF Idle
  <1>2. CASE call \in [pc : {"refuse"}, client : Hosts, asked : Nat]
    BY <1>2
  <1>3. CASE call \in [pc : {"verify"}, tab : Tabs, from : Hosts, client : Hosts]
    BY <1>3
  <1>4. CASE call \in [pc : {"open"}, tab : Tabs, login : BOOLEAN]
    BY <1>4
  <1> QED
    BY <1>1, <1>2, <1>3, <1>4 DEF TypeOK

\* _audit counts one event and no other
LEMMA CountGives ==
    ASSUME audit \in [Kinds -> Nat], NEW kind \in Kinds
    PROVE  /\ Count(kind) \in [Kinds -> Nat]
           /\ \A k \in Kinds : Count(kind)[k] = IF k = kind THEN audit[k] + 1 ELSE audit[k]
  BY DEF Count

\* The session of a live cookie is a row
LEMMA LiveRow ==
    ASSUME TypeOK, NEW h \in Hosts, Live(cookie[h])
    PROVE  /\ cookie[h] \in 1..Len(rows) /\ cookie[h] \in DOMAIN rows
           /\ rows[cookie[h]] \in Row /\ rows[cookie[h]].revoked = FALSE
  <1>1. rows \in Seq(Row) /\ cookie[h] \in 0..Len(rows) /\ cookie[h] # 0 /\ Len(rows) \in Nat
    BY DEF TypeOK, Live, Row
  <1>2. cookie[h] \in 1..Len(rows) /\ cookie[h] \in DOMAIN rows
    BY <1>1
  <1>3. rows[cookie[h]] \in Row
    BY <1>1, <1>2, ElementOfSeq
  <1>4. rows[cookie[h]].revoked \in BOOLEAN /\ ~rows[cookie[h]].revoked
    BY <1>3 DEF Row, Live
  <1> QED
    BY <1>2, <1>3, <1>4

\* rotate_csrf and logout change one row
LEMMA TokenChanged ==
    ASSUME rows \in Seq(Row), NEW s \in 1..Len(rows), NEW v \in Nat \ {0}
    PROVE  LET R == [rows EXCEPT ![s].csrf = v]
           IN  /\ R \in Seq(Row) /\ Len(R) = Len(rows)
               /\ R[s].csrf = v
               /\ \A i \in DOMAIN rows : R[i].revoked = rows[i].revoked /\ R[i].expires = rows[i].expires
               /\ \A i \in DOMAIN rows : i # s => R[i] = rows[i]
  <1> DEFINE x == [rows[s] EXCEPT !.csrf = v]  R == [rows EXCEPT ![s] = x]
  <1>1. rows[s] \in Row /\ s \in DOMAIN rows
    BY ElementOfSeq
  <1>2. x \in Row /\ x.csrf = v /\ x.revoked = rows[s].revoked /\ x.expires = rows[s].expires
    BY <1>1 DEF Row
  <1>3. R = [rows EXCEPT ![s].csrf = v]
    OBVIOUS
  <1> HIDE DEF x
  <1>4. R \in Seq(Row) /\ Len(R) = Len(rows) /\ \A i \in 1..Len(rows) : R[i] = IF i = s THEN x ELSE rows[i]
    BY <1>2, ExceptSeq
  <1> HIDE DEF R
  <1>5. DOMAIN rows = 1..Len(rows)
    OBVIOUS
  <1>6. R[s] = x /\ \A i \in DOMAIN rows : i # s => R[i] = rows[i]
    BY <1>4, <1>5
  <1>7. \A i \in DOMAIN rows : R[i].revoked = rows[i].revoked /\ R[i].expires = rows[i].expires
    BY <1>2, <1>6
  <1> QED
    BY <1>2, <1>3, <1>4, <1>6, <1>7

LEMMA Revoking ==
    ASSUME rows \in Seq(Row), NEW s \in 1..Len(rows)
    PROVE  LET R == [rows EXCEPT ![s].revoked = TRUE]
           IN  /\ R \in Seq(Row) /\ Len(R) = Len(rows)
               /\ R[s].revoked = TRUE
               /\ \A i \in DOMAIN rows : R[i].csrf = rows[i].csrf
               /\ \A i \in DOMAIN rows : i # s => R[i] = rows[i]
  <1> DEFINE x == [rows[s] EXCEPT !.revoked = TRUE]  R == [rows EXCEPT ![s] = x]
  <1>1. rows[s] \in Row /\ s \in DOMAIN rows
    BY ElementOfSeq
  <1>2. x \in Row /\ x.revoked = TRUE /\ x.csrf = rows[s].csrf
    BY <1>1 DEF Row
  <1>3. R = [rows EXCEPT ![s].revoked = TRUE]
    OBVIOUS
  <1> HIDE DEF x
  <1>4. R \in Seq(Row) /\ Len(R) = Len(rows) /\ \A i \in 1..Len(rows) : R[i] = IF i = s THEN x ELSE rows[i]
    BY <1>2, ExceptSeq
  <1> HIDE DEF R
  <1>5. DOMAIN rows = 1..Len(rows)
    OBVIOUS
  <1>6. R[s] = x /\ \A i \in DOMAIN rows : i # s => R[i] = rows[i]
    BY <1>4, <1>5
  <1>7. \A i \in DOMAIN rows : R[i].csrf = rows[i].csrf
    BY <1>2, <1>6
  <1> QED
    BY <1>2, <1>3, <1>4, <1>6, <1>7

\* The history of wrong passwords is finite, so that their number has a type
Typed == TypeOK /\ IsFiniteSet(wrong)

LEMMA TypeInit == Init => Typed
  <1> SUFFICES ASSUME Init PROVE Typed
    OBVIOUS
  <1>1. rows \in Seq(Row) /\ Len(rows) = 0 /\ 0 \in 0..Len(rows) /\ DOMAIN rows = {}
    BY DEF Init
  <1>2. cookie \in [Hosts -> 0..Len(rows)] /\ token \in [Tabs -> Nat]
    BY <1>1 DEF Init
  <1>3. view \in [Tabs -> {"setup", "login", "main"}]
    BY DEF Init
  <1>4. audit \in [Kinds -> Nat]
    BY DEF Init, Kinds
  <1>5. TypeOK
    BY <1>1, <1>2, <1>3, <1>4 DEF Init, TypeOK, Row, Kinds
  <1> QED
    BY <1>5, FS_EmptySet DEF Init, Typed

\* A failed login is an attempt
LEMMA WrongType ==
    ASSUME Typed, call.pc = "verify"
    PROVE  [from |-> call.from, client |-> call.client, at |-> now,
            n |-> Cardinality({g \in wrong : g.client = call.client}) + 1] \in Attempts
  <1> DEFINE W == {g \in wrong : g.client = call.client}
  <1>1. call.from \in Hosts /\ call.client \in Hosts /\ now \in Nat
    BY CallShape DEF Typed, TypeOK
  <1>3. IsFiniteSet(W)
    BY FS_Subset DEF Typed
  <1> HIDE DEF W
  <1>4. Cardinality(W) \in Nat
    BY <1>3, FS_CardinalityType
  <1>5. Cardinality(W) + 1 \in Nat \ {0}
    BY <1>4
  <1> QED
    BY <1>1, <1>5 DEF Attempts, W

LEMMA TypeNext == Typed /\ [Next]_vars => Typed'
  <1> SUFFICES ASSUME Typed, [Next]_vars PROVE Typed'
    OBVIOUS
  <1>t. TypeOK /\ IsFiniteSet(wrong)
    BY DEF Typed
  <1>k. audit \in [Kinds -> Nat] /\ rows \in Seq(Row)
    BY <1>t DEF TypeOK, Kinds, Row
  <1>h. \A t \in Tabs : HostOf[t] \in Hosts
    BY AuthAssumption
  <1>l. Len(rows) \in Nat /\ DOMAIN rows = 1..Len(rows)
    BY <1>k
  <1>1. ASSUME NEW t \in Tabs, NEW h \in Sources(t), NEW r \in Routes \cup {<<>>},
               NEW e \in Headers, Setup(t, h, r, e)
        PROVE  Typed'
    <2>1. audit' \in [Kinds -> Nat]
      BY <1>k, <1>1, CountGives DEF Setup, Kinds
    <2>2. call' \in [pc : {"open"}, tab : Tabs, login : BOOLEAN]
      BY <1>1 DEF Setup
    <2>3. creator' \subseteq [host : Hosts, from : Hosts, origin : Origins \cup {NoOrigin}]
      <3> DEFINE c == [host |-> HostOf[t], from |-> h, origin |-> OriginOf[t]]
      <3>1. HostOf[t] \in Hosts /\ h \in Hosts /\ OriginOf[t] \in Origins \cup {NoOrigin}
        BY <1>h, SourceType, AuthAssumption
      <3>2. c \in [host : Hosts, from : Hosts, origin : Origins \cup {NoOrigin}]
        BY <3>1
      <3>3. creator' = creator \cup {c}
        BY <1>1 DEF Setup
      <3> HIDE DEF c
      <3> QED
        BY <1>t, <3>2, <3>3 DEF TypeOK
    <2> QED
      BY <1>t, <1>1, <2>1, <2>2, <2>3 DEF Setup, Typed, TypeOK, Kinds, pages
  <1>2. ASSUME NEW t \in Tabs, NEW h \in Sources(t), NEW r \in Routes \cup {<<>>},
               NEW e \in Headers, Login(t, h, r, e)
        PROVE  Typed'
    <2> DEFINE peer == Peer(h, r)  chain == Chain(h, r, e)
    <2>1. peer \in Hosts /\ chain \in Seq(Entries)
      BY SourceType, NetworkType
    <2>2. Client(peer, chain) \in Hosts
      <3>1. Readable(peer, chain)
        BY <1>2 DEF Login
      <3> HIDE DEF peer, chain
      <3> QED
        BY <2>1, <3>1, ClientType
    <2>3. /\ call' \in [pc : {"refuse"}, client : Hosts, asked : Nat]
                        \cup [pc : {"verify"}, tab : Tabs, from : Hosts, client : Hosts]
      BY <1>t, <1>2, <2>2, SourceType DEF Login, TypeOK
    <2>4. failures' \subseteq failures
      BY <1>2 DEF Login
    <2> QED
      BY <1>t, <1>2, <2>3, <2>4 DEF Login, Typed, TypeOK, pages, history
  <1>3. CASE Refuse
    <2>1. audit' \in [Kinds -> Nat]
      BY <1>k, <1>3, CountGives DEF Refuse, Kinds
    <2> QED
      BY <1>t, <1>3, <2>1 DEF Refuse, Typed, TypeOK, Kinds, pages, history
  <1>4. CASE WrongPassword
    <2> DEFINE f == [from |-> call.from, client |-> call.client, at |-> now,
                     n |-> Cardinality({g \in wrong : g.client = call.client}) + 1]
    <2>1. f \in Attempts
      BY <1>4, WrongType DEF WrongPassword
    <2>2. failures' = failures \cup {f} /\ wrong' = wrong \cup {f}
      BY <1>4 DEF WrongPassword
    <2>3. audit' \in [Kinds -> Nat]
      BY <1>k, <1>4, CountGives DEF WrongPassword, Kinds
    <2> HIDE DEF f
    <2>4. IsFiniteSet(wrong')
      BY <1>t, <2>2, FS_AddElement
    <2>5. failures' \subseteq Attempts /\ wrong' \subseteq Attempts
      BY <1>t, <2>1, <2>2 DEF TypeOK
    <2> QED
      BY <1>t, <1>4, <2>3, <2>4, <2>5 DEF WrongPassword, Typed, TypeOK, Kinds, pages
  <1>5. CASE RightPassword
    <2>1. call.tab \in Tabs
      BY <1>t, <1>5, CallShape DEF RightPassword
    <2>2. call' \in [pc : {"open"}, tab : Tabs, login : BOOLEAN]
      BY <1>5, <2>1 DEF RightPassword
    <2>3. wrong' \in SUBSET wrong /\ failures' \subseteq failures
      BY <1>5 DEF RightPassword
    <2>4. IsFiniteSet(wrong')
      BY <1>t, <2>3, FS_Subset
    <2> QED
      BY <1>t, <1>5, <2>2, <2>3, <2>4 DEF RightPassword, Typed, TypeOK, pages
  <1>6. CASE OpenSession
    <2>1. call.tab \in Tabs /\ HostOf[call.tab] \in Hosts
      BY <1>t, <1>h, <1>6, CallShape DEF OpenSession
    <2>2. issued' \in Nat \ {0}
      BY <1>t, <1>6 DEF OpenSession, TypeOK
    <2>3. NewSession(issued') \in Row
      <3>1. now + Lifetime \in Nat
        BY <1>t, AuthAssumption DEF TypeOK
      <3> QED
        BY <2>2, <3>1 DEF NewSession, Row
    <2>4. rows' \in Seq(Row) /\ Len(rows') = Len(rows) + 1
      <3> DEFINE x == NewSession(issued')
      <3>1. rows' = Append(rows, x) /\ x \in Row
        BY <1>6, <2>3 DEF OpenSession
      <3> HIDE DEF x
      <3> QED
        BY <1>k, <3>1, AppendProperties
    <2>5. audit' \in [Kinds -> Nat]
      <3>1. Count("success") \in [Kinds -> Nat]
        BY <1>k, CountGives DEF Kinds
      <3> QED
        BY <1>k, <1>6, <3>1 DEF OpenSession
    <2>6. /\ \A i \in 0..Len(rows) : i \in 0..Len(rows')
          /\ \A i \in 1..Len(rows) : i \in 1..Len(rows')
          /\ Len(rows') \in 0..Len(rows')
      BY <1>l, <2>4
    <2>7. left' \subseteq DOMAIN rows'
      <3>1. DOMAIN rows' = 1..Len(rows')
        BY <2>4
      <3> QED
        BY <1>t, <1>l, <1>6, <2>6, <3>1 DEF OpenSession, TypeOK, history
    <2>8. cookie' \in [Hosts -> 0..Len(rows')]
      <3>1. cookie \in [Hosts -> 0..Len(rows')]
        BY <1>t, <2>6 DEF TypeOK
      <3> QED
        BY <1>6, <2>6, <3>1 DEF OpenSession, SetCookie, pages
    <2>9. token' \in [Tabs -> Nat]
      BY <1>t, <1>6, <2>2 DEF OpenSession, TypeOK, pages
    <2>10. view' \in [Tabs -> {"setup", "login", "main"}]
      BY <1>t, <1>6 DEF OpenSession, TypeOK, pages
    <2>11. UNCHANGED <<now, admin, failures, wrong, creator>> /\ call' = Idle
      BY <1>6 DEF OpenSession, history
    <2> QED
      BY <1>t, <2>2, <2>4, <2>5, <2>7, <2>8, <2>9, <2>10, <2>11 DEF Typed, TypeOK, Row, Kinds
  <1>7. CASE Fail
    BY <1>t, <1>7 DEF Fail, Typed, TypeOK, database, pages, history
  <1>8. CASE Tick
    BY <1>t, <1>8 DEF Tick, Typed, TypeOK, database, pages, history
  <1>9. ASSUME NEW t \in Tabs, Resume(t)
        PROVE  Typed'
    <2> DEFINE s == cookie[HostOf[t]]  R == [rows EXCEPT ![s].csrf = NewToken(s)]
    <2>1. s \in 1..Len(rows)
      BY <1>t, <1>h, <1>9, LiveRow DEF Resume
    <2>2. NewToken(s) \in Nat \ {0} /\ issued' \in Nat
      BY <1>t, <1>9 DEF Resume, NewToken, TypeOK
    <2>3. R \in Seq(Row) /\ Len(R) = Len(rows) /\ R[s].csrf = NewToken(s)
      BY <1>k, <2>1, <2>2, TokenChanged
    <2>4. rows' = R
      BY <1>9 DEF Resume
    <2> HIDE DEF R
    <2>5. token' \in [Tabs -> Nat]
      <3>1. \/ token' = [token EXCEPT ![t] = rows'[s].csrf]
            \/ token' = [token EXCEPT ![t] = 0]
        BY <1>9 DEF Resume
      <3>2. rows'[s].csrf \in Nat
        BY <2>2, <2>3, <2>4
      <3>3. token \in [Tabs -> Nat] /\ 0 \in Nat
        BY <1>t DEF TypeOK
      <3> QED
        BY <3>1, <3>2, <3>3
    <2>6. view' \in [Tabs -> {"setup", "login", "main"}]
      BY <1>t, <1>9 DEF Resume, TypeOK
    <2>7. cookie' \in [Hosts -> 0..Len(rows')]
      BY <1>t, <1>9, <2>3, <2>4 DEF Resume, TypeOK
    <2>8. left' \subseteq DOMAIN rows'
      <3>1. DOMAIN rows' = DOMAIN rows
        BY <1>l, <2>3, <2>4
      <3> QED
        BY <1>t, <1>9, <3>1 DEF Resume, TypeOK, history
    <2> QED
      BY <1>t, <1>9, <2>2, <2>3, <2>4, <2>5, <2>6, <2>7, <2>8 DEF Resume, Typed, TypeOK, Row, history
  <1>10. ASSUME NEW t \in Tabs, ShowForm(t)
         PROVE  Typed'
    <2>1. token' \in [Tabs -> Nat] /\ view' \in [Tabs -> {"setup", "login", "main"}]
      BY <1>t, <1>10 DEF ShowForm, FirstForm, TypeOK
    <2> QED
      BY <1>t, <1>10, <2>1 DEF ShowForm, Typed, TypeOK, database, history
  <1>11. ASSUME NEW t \in Tabs, SignedOut(t)
         PROVE  Typed'
    <2>1. token' \in [Tabs -> Nat] /\ view' \in [Tabs -> {"setup", "login", "main"}]
      BY <1>t, <1>11 DEF SignedOut, TypeOK
    <2> QED
      BY <1>t, <1>11, <2>1 DEF SignedOut, Typed, TypeOK, database, history
  <1>12. ASSUME NEW t \in Tabs, Logout(t)
         PROVE  Typed'
    <2> DEFINE s == cookie[HostOf[t]]  R == [rows EXCEPT ![s].revoked = TRUE]
    <2>1. s \in 1..Len(rows)
      BY <1>t, <1>h, <1>12, LiveRow DEF Logout, Admitted
    <2>2. R \in Seq(Row) /\ Len(R) = Len(rows)
      BY <1>k, <2>1, Revoking
    <2>3. rows' = R
      BY <1>12 DEF Logout
    <2> HIDE DEF R
    <2>4. token' \in [Tabs -> Nat] /\ view' \in [Tabs -> {"setup", "login", "main"}]
      BY <1>t, <1>12 DEF Logout, Leave, TypeOK
    <2>5. cookie' \in [Hosts -> 0..Len(rows')]
      <3>1. 0 \in 0..Len(rows) /\ Len(rows') = Len(rows)
        BY <1>l, <2>2, <2>3
      <3> QED
        BY <1>t, <1>12, <3>1 DEF Logout, SetCookie, TypeOK
    <2>6. left' \subseteq DOMAIN rows'
      <3>1. DOMAIN rows' = DOMAIN rows
        BY <1>l, <2>2, <2>3
      <3> QED
        BY <1>t, <1>12, <3>1 DEF Logout, TypeOK, history
    <2>7. audit' \in [Kinds -> Nat]
      BY <1>k, <1>12, CountGives DEF Logout, Kinds
    <2> QED
      BY <1>t, <1>12, <2>2, <2>3, <2>4, <2>5, <2>6, <2>7 DEF Logout, Typed, TypeOK, Row, Kinds, history
  <1>13. ASSUME NEW t \in Tabs, LogoutRefused(t)
         PROVE  Typed'
    <2>1. token' \in [Tabs -> Nat] /\ view' \in [Tabs -> {"setup", "login", "main"}]
      BY <1>t, <1>13 DEF LogoutRefused, Leave, TypeOK
    <2>2. {cookie[HostOf[t]]} \ {0} \subseteq DOMAIN rows
      <3>1. \A i \in 0..Len(rows) : i # 0 => i \in 1..Len(rows)
        BY <1>l
      <3> QED
        BY <1>t, <1>h, <1>l, <3>1 DEF TypeOK
    <2> QED
      BY <1>t, <1>13, <2>1, <2>2 DEF LogoutRefused, Typed, TypeOK, database
  <1>14. ASSUME NEW t \in Tabs, LogoutFails(t)
         PROVE  Typed'
    <2>1. token' \in [Tabs -> Nat] /\ view' \in [Tabs -> {"setup", "login", "main"}]
      BY <1>t, <1>14 DEF LogoutFails, Leave, TypeOK
    <2> QED
      BY <1>t, <1>14, <2>1 DEF LogoutFails, Typed, TypeOK, database, history
  <1>15. CASE UNCHANGED vars
    BY <1>t, <1>15 DEF Typed, TypeOK, vars, database, pages, history
  <1> QED
    BY <1>1, <1>2, <1>3, <1>4, <1>5, <1>6, <1>7, <1>8, <1>9, <1>10, <1>11, <1>12, <1>13, <1>14, <1>15
       DEF Next

\* Account, sessions, failure table and pages keep their types
THEOREM AuthTyping == Spec => []TypeOK
  <1>1. Typed => TypeOK
    BY DEF Typed
  <1> QED
    BY <1>1, TypeInit, TypeNext, PTL DEF Spec

-----------------------------------------------------------------------------
(* Setup and login throttling                                               *)

\* A host outside loopback and trusted proxies cannot create the administrator, whatever it claims
\* in the forwarding headers, unless it comes through a forwarder on this machine that is not
\* trusted, and then not as a page of an external origin
THEOREM LocalSetup == Spec => []SetupIsLocal
  <1>1. Init => SetupIsLocal
    BY DEF Init, SetupIsLocal
  <1>2. SetupIsLocal /\ [Next]_vars => SetupIsLocal'
    <2> SUFFICES ASSUME SetupIsLocal, [Next]_vars PROVE SetupIsLocal'
      OBVIOUS
    <2>1. ASSUME NEW t \in Tabs, NEW h \in Sources(t), NEW r \in Routes \cup {<<>>},
               NEW e \in Headers, Setup(t, h, r, e)
          PROVE  SetupIsLocal'
      <3> DEFINE c == [host |-> HostOf[t], from |-> h, origin |-> OriginOf[t]]
      <3>1. h \in Hosts
        BY SourceType
      <3>2. Client(Peer(h, r), Chain(h, r, e)) \in Loopback /\ OriginOf[t] \in LocalOrigins \cup {NoOrigin}
        BY <2>1 DEF Setup, SetupAllowed, OriginLocal
      <3>3. h \in Loopback \cup Proxies
        BY <3>1, <3>2, ClientIsHost
      <3>4. h = HostOf[t] \/ (h \in Relays /\ h \notin Proxies)
        <4>1. Relays \subseteq Hosts \ Proxies /\ h \in {HostOf[t]} \cup Relays
          BY AuthAssumption DEF Sources
        <4>2. h = HostOf[t] \/ h \in Relays
          BY <4>1
        <4>3. \A x \in Relays : x \notin Proxies
          BY <4>1
        <4> QED
          BY <4>2, <4>3
      <3>5. creator' = creator \cup {c}
        BY <2>1 DEF Setup
      <3>6. \/ c.host \in Loopback \cup Proxies
            \/ c.from \in Relays \cap Loopback /\ c.origin \in LocalOrigins \cup {NoOrigin}
        BY <3>2, <3>3, <3>4
      <3> HIDE DEF c
      <3> QED
        BY <3>5, <3>6 DEF SetupIsLocal
    <2>2. (\A t \in Tabs, r \in Routes \cup {<<>>}, e \in Headers : \A h \in Sources(t) : ~Setup(t, h, r, e))
          => UNCHANGED creator
      BY DEF Next, vars, Login, Refuse, WrongPassword, RightPassword, OpenSession, Fail, Tick, Resume,
             ShowForm, SignedOut, Logout, LogoutRefused, LogoutFails, history
    <2> QED
      BY <2>1, <2>2 DEF SetupIsLocal
  <1> QED
    BY <1>1, <1>2, PTL DEF Spec

\* The steps that leave the throttle alone
Quiet ==
    /\ UNCHANGED <<now, failures, wrong>>
    /\ call' = call \/ call'.pc \in {"idle", "open"}

LEMMA QuietSteps ==
    ASSUME [Next]_vars
    PROVE  \/ Quiet \/ WrongPassword \/ RightPassword \/ Tick
           \/ \E t \in Tabs, r \in Routes \cup {<<>>}, e \in Headers : \E h \in Sources(t) : Login(t, h, r, e)
  <1>1. ASSUME NEW t \in Tabs, NEW h \in Sources(t), NEW r \in Routes \cup {<<>>},
               NEW e \in Headers, Setup(t, h, r, e)
        PROVE  Quiet
    BY <1>1 DEF Setup, Quiet
  <1>2. Refuse \/ Fail => Quiet
    BY DEF Refuse, Fail, Quiet, Idle, database, history
  <1>3. OpenSession => Quiet
    BY DEF OpenSession, Quiet, Idle, history
  <1>4. ASSUME NEW t \in Tabs,
               Resume(t) \/ ShowForm(t) \/ SignedOut(t) \/ Logout(t) \/ LogoutRefused(t) \/ LogoutFails(t)
        PROVE  Quiet
    BY <1>4 DEF Resume, ShowForm, SignedOut, Logout, LogoutRefused, LogoutFails, Quiet, database, history
  <1>5. UNCHANGED vars => Quiet
    BY DEF Quiet, vars, database, history
  <1> QED
    BY <1>1, <1>2, <1>3, <1>4, <1>5 DEF Next

Throttle == Recorded /\ Verifying /\ ThrottleBound /\ LockoutJustified

LEMMA ThrottleInit == Init => Throttle
  BY DEF Init, Throttle, Recorded, Verifying, ThrottleBound, LockoutJustified, Idle

LEMMA ThrottleQuiet ==
    ASSUME Throttle, Quiet
    PROVE  Throttle'
  <1>1. Recorded' /\ ThrottleBound'
    BY DEF Throttle, Quiet, Recorded, ThrottleBound
  <1>2. CASE call' = call
    BY <1>1, <1>2 DEF Throttle, Quiet, Verifying, LockoutJustified, Fresh
  <1>3. CASE call'.pc \in {"idle", "open"}
    BY <1>1, <1>3 DEF Throttle, Verifying, LockoutJustified
  <1> QED
    BY <1>2, <1>3 DEF Quiet

\* rate_limited: what is kept is what counts
LEMMA ThrottleLogin ==
    ASSUME Typed, Throttle, NEW t \in Tabs, NEW h \in Sources(t), NEW r \in Routes \cup {<<>>},
               NEW e \in Headers, Login(t, h, r, e)
    PROVE  Throttle'
  <1> DEFINE client == Client(Peer(h, r), Chain(h, r, e))
             kept == {f \in failures : ~Expired(f)}
             own == {f \in kept : f.client = client}
  <1>1. /\ failures' = kept /\ UNCHANGED <<now, wrong>>
        /\ call' = IF Throttled(client, kept)
                   THEN [pc |-> "refuse", client |-> client, asked |-> now]
                   ELSE [pc |-> "verify", tab |-> t, from |-> h, client |-> client]
    BY DEF Login, history
  <1>2. h \in Hosts
    BY SourceType
  <1>3. h \notin Proxies => client = h
    BY <1>2, ClientIsHost
  <1> HIDE DEF client
  <1>4. now \in Nat /\ Window \in Nat /\ MaxFailures \in Nat /\ \A f \in wrong : f.at \in Nat
    BY AuthAssumption DEF Typed, TypeOK, Attempts
  <1>5. failures \subseteq wrong /\ \A f \in wrong : f.at >= now - Window => f \in failures
    BY DEF Throttle, Recorded
  <1>6. \A f \in failures : Expired(f) <=> ~(f.at >= now - Window)
    BY <1>4, <1>5 DEF Expired
  <1>7. Recorded'
    <2>1. kept \subseteq wrong /\ \A f \in wrong : f.at >= now - Window => f \in kept
      BY <1>5, <1>6
    <2> QED
      BY <1>1, <2>1 DEF Throttle, Recorded
  <1>8. own = Fresh(kept, client, now)
    BY <1>6 DEF Fresh
  <1>9. own = {f \in wrong : f.client = client /\ f.at >= now - Window}
    BY <1>5, <1>6
  <1>10. ThrottleBound'
    BY <1>1 DEF Throttle, ThrottleBound
  <1>11. CASE Throttled(client, kept)
    <2>1. call' = [pc |-> "refuse", client |-> client, asked |-> now]
      BY <1>1, <1>11
    <2>2. call'.pc = "refuse" /\ call'.client = client /\ call'.asked = now
      BY <2>1
    <2>3. Cardinality(own) >= MaxFailures
      BY <1>11 DEF Throttled
    <2> HIDE DEF own
    <2>4. LockoutJustified' /\ Verifying'
      BY <1>1, <1>9, <2>2, <2>3 DEF LockoutJustified, Verifying
    <2> QED
      BY <1>7, <1>10, <2>4 DEF Throttle
  <1>12. CASE ~Throttled(client, kept)
    <2>1. call' = [pc |-> "verify", tab |-> t, from |-> h, client |-> client]
      BY <1>1, <1>12
    <2>2. call'.pc = "verify" /\ call'.client = client /\ call'.from = h
      BY <2>1
    <2>3. own \in SUBSET wrong
      BY <1>9
    <2>4. ~(Cardinality(own) >= MaxFailures)
      BY <1>12 DEF Throttled
    <2> HIDE DEF own
    <2>5. Cardinality(own) \in Nat
      BY <2>3, FS_Subset, FS_CardinalityType DEF Typed
    <2>6. Cardinality(own) < MaxFailures
      BY <1>4, <2>4, <2>5
    <2>7. Fresh(failures, call.client, now)' = own
      BY <1>1, <1>8, <2>2 DEF Fresh
    <2>8. LockoutJustified' /\ Verifying'
      BY <1>3, <2>2, <2>6, <2>7 DEF LockoutJustified, Verifying
    <2> QED
      BY <1>7, <1>10, <2>8 DEF Throttle
  <1> QED
    BY <1>11, <1>12

\* clear_login_failures
LEMMA ThrottleRight ==
    ASSUME Typed, Throttle, RightPassword
    PROVE  Throttle'
  <1>1. /\ failures' = {f \in failures : f.client # call.client}
        /\ wrong' = {f \in wrong : f.client # call.client}
        /\ call'.pc = "open" /\ now' = now
    BY DEF RightPassword
  <1>2. Recorded'
    BY <1>1 DEF Throttle, Recorded
  <1>3. Verifying' /\ LockoutJustified'
    BY <1>1 DEF Verifying, LockoutJustified
  <1>4. ThrottleBound'
    <2> SUFFICES ASSUME NEW f \in wrong', f.from \notin Proxies
                 PROVE  Cardinality({g \in wrong' : g.from = f.from /\ g.at \in f.at - Window .. f.at})
                            <= MaxFailures
      BY DEF ThrottleBound
    <2> DEFINE A == {g \in wrong' : g.from = f.from /\ g.at \in f.at - Window .. f.at}
               B == {g \in wrong : g.from = f.from /\ g.at \in f.at - Window .. f.at}
    <2>1. Cardinality(B) <= MaxFailures
      BY <1>1 DEF Throttle, ThrottleBound
    <2>2. A \in SUBSET B /\ B \in SUBSET wrong
      BY <1>1
    <2> HIDE DEF A, B
    <2>3. IsFiniteSet(B)
      BY <2>2, FS_Subset DEF Typed
    <2>4. IsFiniteSet(A) /\ Cardinality(A) <= Cardinality(B)
      BY <2>2, <2>3, FS_Subset
    <2>5. Cardinality(A) \in Nat /\ Cardinality(B) \in Nat /\ MaxFailures \in Nat
      BY <2>3, <2>4, FS_CardinalityType, AuthAssumption
    <2>6. Cardinality(A) <= MaxFailures
      BY <2>1, <2>4, <2>5
    <2> QED
      BY <2>6 DEF A
  <1> QED
    BY <1>2, <1>3, <1>4 DEF Throttle

\* The window moves on
LEMMA ThrottleTick ==
    ASSUME Typed, Throttle, Tick
    PROVE  Throttle'
  <1>1. now' = now + 1 /\ UNCHANGED <<failures, wrong, call>>
    BY DEF Tick, database, history
  <1>2. now \in Nat /\ Window \in Nat /\ MaxFailures \in Nat /\ \A f \in wrong : f.at \in Nat
    BY AuthAssumption DEF Typed, TypeOK, Attempts
  <1>3. \A a \in Nat : (a <= now => a <= now + 1) /\ (a >= now + 1 - Window => a >= now - Window)
    BY <1>2
  <1>4. Recorded'
    BY <1>1, <1>2, <1>3 DEF Throttle, Recorded
  <1>5. ThrottleBound' /\ LockoutJustified'
    BY <1>1 DEF Throttle, ThrottleBound, LockoutJustified
  <1>6. Verifying'
    <2> SUFFICES ASSUME call.pc = "verify"
                 PROVE  Cardinality(Fresh(failures, call.client, now + 1)) < MaxFailures
      BY <1>1 DEF Throttle, Verifying, Fresh
    <2> DEFINE A == Fresh(failures, call.client, now + 1)  B == Fresh(failures, call.client, now)
    <2>1. Cardinality(B) < MaxFailures
      BY DEF Throttle, Verifying
    <2>2. failures \subseteq wrong
      BY DEF Throttle, Recorded
    <2>3. A \in SUBSET B /\ B \in SUBSET wrong
      BY <1>2, <1>3, <2>2 DEF Fresh
    <2> HIDE DEF A, B
    <2>4. IsFiniteSet(B)
      BY <2>3, FS_Subset DEF Typed
    <2>5. IsFiniteSet(A) /\ Cardinality(A) <= Cardinality(B)
      BY <2>3, <2>4, FS_Subset
    <2>6. Cardinality(A) \in Nat /\ Cardinality(B) \in Nat
      BY <2>4, <2>5, FS_CardinalityType
    <2>7. Cardinality(A) < MaxFailures
      BY <1>2, <2>1, <2>5, <2>6
    <2> QED
      BY <2>7 DEF A
  <1> QED
    BY <1>4, <1>5, <1>6 DEF Throttle

\* record_login_failure: the password that was wrong had been verified below the limit
LEMMA ThrottleWrong ==
    ASSUME Typed, Throttle, WrongPassword
    PROVE  Throttle'
  <1> DEFINE x == [from |-> call.from, client |-> call.client, at |-> now,
                   n |-> Cardinality({g \in wrong : g.client = call.client}) + 1]
  <1>1. /\ failures' = failures \cup {x} /\ wrong' = wrong \cup {x} /\ now' = now
        /\ call.pc = "verify" /\ call' = Idle
    BY DEF WrongPassword
  <1>2. x.from = call.from /\ x.client = call.client /\ x.at = now
    OBVIOUS
  <1> HIDE DEF x
  <1>3. now \in Nat /\ Window \in Nat /\ MaxFailures \in Nat /\ \A f \in wrong : f.at \in Nat
    BY AuthAssumption DEF Typed, TypeOK, Attempts
  <1>4. /\ x.from \notin Proxies => x.client = x.from
        /\ Cardinality(Fresh(failures, x.client, now)) < MaxFailures
    BY <1>1, <1>2 DEF Throttle, Verifying
  <1>5. Recorded'
    <2>1. x.at <= now
      BY <1>2, <1>3
    <2> QED
      BY <1>1, <1>4, <2>1 DEF Throttle, Recorded
  <1>6. Verifying' /\ LockoutJustified'
    BY <1>1 DEF Verifying, LockoutJustified, Idle
  <1>7. ThrottleBound'
    <2> SUFFICES ASSUME NEW f \in wrong', f.from \notin Proxies
                 PROVE  Cardinality({g \in wrong' : g.from = f.from /\ g.at \in f.at - Window .. f.at})
                            <= MaxFailures
      BY DEF ThrottleBound
    <2> DEFINE A == {g \in wrong' : g.from = f.from /\ g.at \in f.at - Window .. f.at}
    <2>1. f.at \in Nat /\ f.at <= now
      BY <1>1, <1>2, <1>3 DEF Throttle, Recorded
    <2>2. CASE ~(f.from = x.from /\ f.at = now)
      <3>1. f \in wrong
        BY <1>1, <1>2, <2>2
      <3>2. x \notin A
        <4>1. CASE f.from # x.from
          BY <4>1
        <4>2. CASE f.at # now
          <5>1. ~(now \in f.at - Window .. f.at)
            BY <1>3, <2>1, <4>2
          <5> QED
            BY <1>2, <5>1
        <4> QED
          BY <2>2, <4>1, <4>2
      <3>3. A = {g \in wrong : g.from = f.from /\ g.at \in f.at - Window .. f.at}
        BY <1>1, <3>2
      <3> HIDE DEF A
      <3>4. Cardinality(A) <= MaxFailures
        BY <3>1, <3>3 DEF Throttle, ThrottleBound
      <3> QED
        BY <3>4 DEF A
    <2>3. CASE f.from = x.from /\ f.at = now
      <3> DEFINE B == Fresh(failures, x.client, now)
      <3>1. A \subseteq B \cup {x}
        <4> SUFFICES ASSUME NEW g \in wrong, g.from = f.from, g.at \in f.at - Window .. f.at
                     PROVE  g \in B
          BY <1>1
        <4>1. g.client = x.client
          BY <1>4, <2>3 DEF Throttle, Recorded
        <4>2. g.at >= now - Window
          BY <1>3, <2>3
        <4>3. g \in failures
          BY <4>2 DEF Throttle, Recorded
        <4> QED
          BY <4>1, <4>2, <4>3 DEF Fresh
      <3>2. B \in SUBSET wrong /\ Cardinality(B) < MaxFailures
        BY <1>4 DEF Fresh, Throttle, Recorded
      <3> HIDE DEF A, B
      <3>3. IsFiniteSet(B) /\ Cardinality(B) \in Nat
        BY <3>2, FS_Subset, FS_CardinalityType DEF Typed
      <3>4. /\ IsFiniteSet(B \cup {x})
            /\ Cardinality(B \cup {x}) = IF x \in B THEN Cardinality(B) ELSE Cardinality(B) + 1
        BY <3>3, FS_AddElement
      <3>5. Cardinality(B \cup {x}) <= MaxFailures
        BY <1>3, <3>2, <3>3, <3>4
      <3>6. IsFiniteSet(A) /\ Cardinality(A) <= Cardinality(B \cup {x})
        BY <3>1, <3>4, FS_Subset
      <3>7. Cardinality(A) \in Nat /\ Cardinality(B \cup {x}) \in Nat
        BY <3>4, <3>6, FS_CardinalityType
      <3>8. Cardinality(A) <= MaxFailures
        BY <1>3, <3>5, <3>6, <3>7
      <3> QED
        BY <3>8 DEF A
    <2> QED
      BY <2>2, <2>3
  <1> QED
    BY <1>5, <1>6, <1>7 DEF Throttle

LEMMA Throttling == Spec => []Throttle
  <1>1. Typed /\ Throttle /\ [Next]_vars => Throttle'
    BY QuietSteps, ThrottleQuiet, ThrottleLogin, ThrottleRight, ThrottleTick, ThrottleWrong
  <1> QED
    BY <1>1, TypeInit, TypeNext, ThrottleInit, PTL DEF Spec

\* However its requests travel, a host is told of at most the limit of wrong passwords in one window
THEOREM ThrottleHolds == Spec => []ThrottleBound
  <1>1. Throttle => ThrottleBound
    BY DEF Throttle
  <1> QED
    BY <1>1, Throttling, PTL

\* A refused login had the limit of fresh failures of the same client against it
THEOREM LockoutIsEarned == Spec => []LockoutJustified
  <1>1. Throttle => LockoutJustified
    BY DEF Throttle
  <1> QED
    BY <1>1, Throttling, PTL

-----------------------------------------------------------------------------
(* CSRF tokens                                                              *)

\* A step issues a token to one page, takes one from a page, or touches none
Issues(t) == issued' = issued + 1 /\ token' = [token EXCEPT ![t] = issued + 1]
Forgets(t) == issued' \in {issued, issued + 1} /\ token' = [token EXCEPT ![t] = 0]
KeepsTokens == issued' \in {issued, issued + 1} /\ token' = token

LEMMA TokenSteps ==
    ASSUME Typed, [Next]_vars
    PROVE  KeepsTokens \/ \E t \in Tabs : Issues(t) \/ Forgets(t)
  <1>1. ASSUME NEW t \in Tabs, NEW h \in Sources(t), NEW r \in Routes \cup {<<>>},
               NEW e \in Headers,
               Setup(t, h, r, e) \/ Login(t, h, r, e)
        PROVE  KeepsTokens
    BY <1>1 DEF Setup, Login, KeepsTokens, pages
  <1>2. Refuse \/ WrongPassword \/ RightPassword \/ Fail \/ Tick => KeepsTokens
    BY DEF Refuse, WrongPassword, RightPassword, Fail, Tick, KeepsTokens, pages
  <1>3. CASE OpenSession
    <2>1. call.tab \in Tabs
      BY <1>3, CallShape DEF OpenSession, Typed
    <2> QED
      BY <1>3, <2>1 DEF OpenSession, Issues, KeepsTokens, pages
  <1>4. ASSUME NEW t \in Tabs, Resume(t)
        PROVE  Issues(t) \/ Forgets(t)
    <2> DEFINE s == cookie[HostOf[t]]  R == [rows EXCEPT ![s].csrf = NewToken(s)]
    <2>1. HostOf[t] \in Hosts
      BY AuthAssumption
    <2>2. s \in 1..Len(rows) /\ rows \in Seq(Row)
      BY <1>4, <2>1, LiveRow DEF Resume, Typed, TypeOK, Row
    <2>3. NewToken(s) \in Nat \ {0} /\ NewToken(s) = issued + 1
      BY DEF Typed, TypeOK, NewToken
    <2>4. R[s].csrf = issued + 1
      BY <2>2, <2>3, TokenChanged
    <2>5. rows' = R
      BY <1>4 DEF Resume
    <2> HIDE DEF R
    <2>6. rows'[s].csrf = issued + 1
      BY <2>4, <2>5
    <2> QED
      BY <1>4, <2>6 DEF Resume, Issues, Forgets
  <1>5. ASSUME NEW t \in Tabs, ShowForm(t) \/ Logout(t) \/ LogoutRefused(t) \/ LogoutFails(t)
        PROVE  Forgets(t)
    BY <1>5 DEF ShowForm, Logout, LogoutRefused, LogoutFails, Leave, Forgets
  <1>6. ASSUME NEW t \in Tabs, SignedOut(t)
        PROVE  KeepsTokens \/ Forgets(t)
    BY <1>6 DEF SignedOut, KeepsTokens, Forgets
  <1>7. UNCHANGED vars => KeepsTokens
    BY DEF vars, pages, KeepsTokens
  <1> QED
    BY <1>1, <1>2, <1>3, <1>4, <1>5, <1>6, <1>7 DEF Next

LEMMA TokensNext ==
    ASSUME Typed, Tokens, [Next]_vars
    PROVE  Tokens'
  <1>1. issued \in Nat /\ token \in [Tabs -> Nat]
    BY DEF Typed, TypeOK
  <1>2. \A u \in Tabs : /\ token[u] \in Nat /\ token[u] <= issued
                       /\ token[u] <= issued + 1 /\ token[u] # issued + 1
    BY <1>1 DEF Tokens
  <1>3. CASE KeepsTokens
    BY <1>2, <1>3 DEF KeepsTokens, Tokens
  <1>4. ASSUME NEW t \in Tabs, Forgets(t)
        PROVE  Tokens'
    <2>1. \A u \in Tabs : token'[u] = IF u = t THEN 0 ELSE token[u]
      BY <1>1, <1>4 DEF Forgets
    <2>2. 0 <= issued /\ 0 <= issued + 1
      BY <1>1
    <2>3. \A u \in Tabs : token'[u] <= issued'
      BY <1>2, <1>4, <2>1, <2>2 DEF Forgets
    <2>4. \A u, v \in Tabs : token'[u] # 0 /\ token'[u] = token'[v] => u = v
      BY <2>1 DEF Tokens
    <2> QED
      BY <2>3, <2>4 DEF Tokens
  <1>5. ASSUME NEW t \in Tabs, Issues(t)
        PROVE  Tokens'
    <2>1. \A u \in Tabs : token'[u] = IF u = t THEN issued + 1 ELSE token[u]
      BY <1>1, <1>5 DEF Issues
    <2>2. issued + 1 <= issued + 1
      BY <1>1
    <2>3. \A u \in Tabs : token'[u] <= issued'
      BY <1>2, <1>5, <2>1, <2>2 DEF Issues
    <2>4. \A u, v \in Tabs : token'[u] # 0 /\ token'[u] = token'[v] => u = v
      BY <1>2, <2>1 DEF Tokens
    <2> QED
      BY <2>3, <2>4 DEF Tokens
  <1> QED
    BY <1>3, <1>4, <1>5, TokenSteps

\* Of the pages that share a session, at most one can act
THEOREM OnePageActs == Spec => []OneActingPage
  <1>1. Init => Tokens
    BY DEF Init, Tokens
  <1>2. Tokens => OneActingPage
    BY DEF Tokens, OneActingPage, Admitted
  <1> QED
    BY <1>1, <1>2, TypeInit, TypeNext, TokensNext, PTL DEF Spec

-----------------------------------------------------------------------------
(* The audit trail of accounts and sessions                                 *)

Revoked == {s \in DOMAIN rows : rows[s].revoked}

SetupAudited    == audit.setup = IF admin THEN 1 ELSE 0
LoginsAudited   == Len(rows) \in audit.success .. audit.success + audit.setup
LogoutsAudited  == Cardinality(Revoked) = audit.logout
FailuresAudited == Cardinality(failures) <= audit.failure

Audited == SetupAudited /\ LoginsAudited /\ LogoutsAudited /\ FailuresAudited /\ Opening

LEMMA AuditedMeans == AuditComplete <=> SetupAudited /\ LoginsAudited /\ LogoutsAudited /\ FailuresAudited
  BY DEF AuditComplete, SetupAudited, LoginsAudited, LogoutsAudited, FailuresAudited, Revoked

LEMMA CountFields ==
    ASSUME TypeOK
    PROVE  /\ audit.setup \in Nat /\ audit.success \in Nat /\ audit.failure \in Nat /\ audit.logout \in Nat
           /\ \A kind \in Kinds :
                /\ Count(kind).setup = IF kind = "setup" THEN audit.setup + 1 ELSE audit.setup
                /\ Count(kind).success = IF kind = "success" THEN audit.success + 1 ELSE audit.success
                /\ Count(kind).failure = IF kind = "failure" THEN audit.failure + 1 ELSE audit.failure
                /\ Count(kind).logout = IF kind = "logout" THEN audit.logout + 1 ELSE audit.logout
  <1>1. audit \in [Kinds -> Nat]
    BY DEF TypeOK, Kinds
  <1> QED
    BY <1>1 DEF Count, Kinds

LEMMA AuditInit == Init => Audited
  <1> SUFFICES ASSUME Init PROVE Audited
    OBVIOUS
  <1>1. audit.setup = 0 /\ audit.success = 0 /\ audit.failure = 0 /\ audit.logout = 0
    BY DEF Init
  <1>2. rows = <<>> /\ Len(rows) = 0 /\ DOMAIN rows = {} /\ failures = {} /\ admin = FALSE /\ call.pc = "idle"
    BY DEF Init, Idle
  <1>3. Revoked = {}
    BY <1>2 DEF Revoked
  <1>4. Cardinality(Revoked) = 0 /\ Cardinality(failures) = 0
    BY <1>2, <1>3, FS_EmptySet
  <1> QED
    BY <1>1, <1>2, <1>4 DEF Audited, SetupAudited, LoginsAudited, LogoutsAudited, FailuresAudited, Opening

\* Steps that write neither account, session nor event: failures may be deleted
Unwritten ==
    /\ UNCHANGED <<admin, rows, audit>> /\ failures' \subseteq failures
    /\ call' = call \/ call'.pc # "open" \/ call'.login = TRUE

LEMMA UnwrittenSteps ==
    ASSUME [Next]_vars
    PROVE  \/ Unwritten \/ Refuse \/ WrongPassword \/ OpenSession
           \/ \E t \in Tabs, r \in Routes \cup {<<>>}, e \in Headers : \E h \in Sources(t) : Setup(t, h, r, e)
           \/ \E t \in Tabs : Resume(t) \/ Logout(t)
  <1>1. ASSUME NEW t \in Tabs, NEW h \in Sources(t), NEW r \in Routes \cup {<<>>},
               NEW e \in Headers, Login(t, h, r, e)
        PROVE  Unwritten
    BY <1>1 DEF Login, Unwritten
  <1>2. RightPassword => Unwritten
    BY DEF RightPassword, Unwritten
  <1>3. Fail => Unwritten
    BY DEF Fail, Unwritten, Idle, database
  <1>4. Tick => Unwritten
    BY DEF Tick, Unwritten, database
  <1>5. ASSUME NEW t \in Tabs, ShowForm(t) \/ SignedOut(t) \/ LogoutRefused(t) \/ LogoutFails(t)
        PROVE  Unwritten
    BY <1>5 DEF ShowForm, SignedOut, LogoutRefused, LogoutFails, Unwritten, database
  <1>6. UNCHANGED vars => Unwritten
    BY DEF vars, database, Unwritten
  <1> QED
    BY <1>1, <1>2, <1>3, <1>4, <1>5, <1>6 DEF Next

LEMMA Countable ==
    ASSUME Typed, Recorded
    PROVE  /\ IsFiniteSet(failures) /\ Cardinality(failures) \in Nat
           /\ IsFiniteSet(Revoked) /\ Cardinality(Revoked) \in Nat
           /\ Len(rows) \in Nat /\ DOMAIN rows = 1..Len(rows) /\ rows \in Seq(Row)
  <1>1. rows \in Seq(Row)
    BY DEF Typed, TypeOK, Row
  <1>2. Len(rows) \in Nat /\ DOMAIN rows = 1..Len(rows)
    BY <1>1
  <1>3. IsFiniteSet(DOMAIN rows)
    BY <1>2, FS_Interval
  <1>4. Revoked \in SUBSET DOMAIN rows /\ failures \in SUBSET wrong
    BY DEF Revoked, Recorded
  <1>5. IsFiniteSet(Revoked) /\ IsFiniteSet(failures)
    BY <1>3, <1>4, FS_Subset DEF Typed
  <1> QED
    BY <1>1, <1>2, <1>5, FS_CardinalityType

\* What a step does not write stays accounted for
LEMMA StillAudited ==
    ASSUME Typed, Recorded, Audited, Unwritten
    PROVE  Audited'
  <1>1. SetupAudited' /\ LoginsAudited' /\ LogoutsAudited'
    BY DEF Audited, Unwritten, SetupAudited, LoginsAudited, LogoutsAudited, Revoked
  <1>2. FailuresAudited'
    <2> DEFINE F == failures'
    <2>1. F \in SUBSET failures /\ audit' = audit
      BY DEF Unwritten
    <2> HIDE DEF F
    <2>2. IsFiniteSet(F) /\ Cardinality(F) <= Cardinality(failures)
      BY <2>1, Countable, FS_Subset
    <2>3. Cardinality(F) \in Nat /\ Cardinality(failures) \in Nat /\ audit.failure \in Nat
      BY <2>2, Countable, FS_CardinalityType, CountFields DEF Typed
    <2>4. Cardinality(failures) <= audit.failure
      BY DEF Audited, FailuresAudited
    <2>5. Cardinality(F) <= audit.failure
      BY <2>2, <2>3, <2>4
    <2> QED
      BY <2>1, <2>5 DEF FailuresAudited, F
  <1>3. Opening'
    BY DEF Audited, Unwritten, Opening
  <1> QED
    BY <1>1, <1>2, <1>3 DEF Audited

\* record_login_failure and the audit event of a refusal
LEMMA FailureAudited ==
    ASSUME Typed, Recorded, Audited, Refuse \/ WrongPassword
    PROVE  Audited'
  <1>1. /\ audit'.setup = audit.setup /\ audit'.success = audit.success
        /\ audit'.failure = audit.failure + 1 /\ audit'.logout = audit.logout
    <2>1. audit' = Count("failure") /\ "failure" \in Kinds
      BY DEF Refuse, WrongPassword, Kinds
    <2> QED
      BY <2>1, CountFields DEF Typed
  <1>2. UNCHANGED <<admin, rows>> /\ call' = Idle
    BY DEF Refuse, WrongPassword
  <1>3. SetupAudited' /\ LoginsAudited' /\ LogoutsAudited' /\ Opening'
    BY <1>1, <1>2 DEF Audited, SetupAudited, LoginsAudited, LogoutsAudited, Revoked, Opening, Idle
  <1>4. FailuresAudited'
    <2>1. Cardinality(failures) <= audit.failure /\ Cardinality(failures) \in Nat /\ audit.failure \in Nat
      BY Countable, CountFields DEF Audited, FailuresAudited, Typed
    <2>2. CASE Refuse
      BY <1>1, <2>1, <2>2 DEF Refuse, FailuresAudited
    <2>3. CASE WrongPassword
      <3>1. PICK x : failures' = failures \cup {x}
        BY <2>3 DEF WrongPassword
      <3>2. Cardinality(failures \cup {x})
              = IF x \in failures THEN Cardinality(failures) ELSE Cardinality(failures) + 1
        BY Countable, FS_AddElement
      <3>3. Cardinality(failures \cup {x}) <= audit.failure + 1
        BY <2>1, <3>2
      <3> QED
        BY <1>1, <3>1, <3>3 DEF FailuresAudited
    <2> QED
      BY <2>2, <2>3
  <1> QED
    BY <1>3, <1>4 DEF Audited

\* create_administrator
LEMMA AdministratorAudited ==
    ASSUME Typed, Recorded, Audited,
           NEW t \in Tabs, NEW h \in Sources(t), NEW r \in Routes \cup {<<>>},
               NEW e \in Headers, Setup(t, h, r, e)
    PROVE  Audited'
  <1>1. /\ audit'.setup = audit.setup + 1 /\ audit'.success = audit.success
        /\ audit'.failure = audit.failure /\ audit'.logout = audit.logout
    <2>1. audit' = Count("setup") /\ "setup" \in Kinds
      BY DEF Setup, Kinds
    <2> QED
      BY <2>1, CountFields DEF Typed
  <1>2. ~admin /\ admin' = TRUE /\ UNCHANGED <<rows, failures>>
    BY DEF Setup
  <1>3. audit.setup = 0 /\ audit'.setup = 1
    BY <1>1, <1>2 DEF Audited, SetupAudited
  <1>4. Len(rows) = audit.success
    <2>1. Len(rows) \in audit.success .. audit.success + audit.setup /\ audit.success \in Nat
      BY CountFields DEF Audited, LoginsAudited, Typed
    <2> QED
      BY <1>3, <2>1
  <1>5. SetupAudited' /\ LogoutsAudited' /\ FailuresAudited'
    BY <1>1, <1>2, <1>3 DEF Audited, SetupAudited, LogoutsAudited, FailuresAudited, Revoked
  <1>6. LoginsAudited'
    <2>1. audit.success \in audit.success .. audit.success + 1
      BY CountFields DEF Typed
    <2> QED
      BY <1>1, <1>2, <1>3, <1>4, <2>1 DEF LoginsAudited
  <1>7. Opening'
    BY <1>1, <1>2, <1>4 DEF Opening
  <1> QED
    BY <1>5, <1>6, <1>7 DEF Audited

\* create_auth_session: the session and a login's event are one commit
LEMMA SessionAudited ==
    ASSUME Typed, Recorded, Audited, OpenSession
    PROVE  Audited'
  <1> DEFINE x == NewSession(issued')
  <1>1. rows' = Append(rows, x) /\ call.pc = "open" /\ call' = Idle /\ UNCHANGED <<admin, failures>>
    BY DEF OpenSession
  <1>2. x \in Row /\ x.revoked = FALSE
    <2>1. issued' \in Nat \ {0} /\ now + Lifetime \in Nat
      BY AuthAssumption DEF Typed, TypeOK, OpenSession
    <2> QED
      BY <2>1 DEF NewSession, Row
  <1> HIDE DEF x
  <1>3. /\ rows' \in Seq(Row) /\ Len(rows') = Len(rows) + 1
        /\ \A i \in 1..Len(rows) : rows'[i] = rows[i]
        /\ rows'[Len(rows) + 1] = x
    BY <1>1, <1>2, Countable, AppendProperties
  <1>4. DOMAIN rows' = 1..(Len(rows) + 1)
    BY <1>3
  <1>5. Revoked' = Revoked
    <2>1. \A i \in 1..(Len(rows) + 1) : i \in 1..Len(rows) \/ i = Len(rows) + 1
      BY Countable
    <2>2. \A i \in 1..Len(rows) : i \in 1..(Len(rows) + 1)
      BY Countable
    <2>3. DOMAIN rows = 1..Len(rows)
      BY Countable
    <2> QED
      BY <1>2, <1>3, <1>4, <2>1, <2>2, <2>3 DEF Revoked
  <1>6. /\ audit'.setup = audit.setup /\ audit'.failure = audit.failure /\ audit'.logout = audit.logout
        /\ audit'.success = IF call.login THEN audit.success + 1 ELSE audit.success
    <2>1. audit' = (IF call.login THEN Count("success") ELSE audit) /\ "success" \in Kinds
      BY DEF OpenSession, Kinds
    <2> QED
      BY <2>1, CountFields DEF Typed
  <1>7. SetupAudited' /\ LogoutsAudited' /\ FailuresAudited' /\ Opening'
    BY <1>1, <1>5, <1>6 DEF Audited, SetupAudited, LogoutsAudited, FailuresAudited, Opening, Idle
  <1>8. LoginsAudited'
    <2>1. /\ audit.success \in Nat /\ audit.setup \in Nat /\ Len(rows) \in Nat
          /\ Len(rows) \in audit.success .. audit.success + audit.setup
      BY Countable, CountFields DEF Audited, LoginsAudited, Typed
    <2>2. CASE call.login
      <3>1. Len(rows) + 1 \in audit.success + 1 .. audit.success + 1 + audit.setup
        BY <2>1
      <3> QED
        BY <1>3, <1>6, <2>2, <3>1 DEF LoginsAudited
    <2>3. CASE ~call.login
      <3>1. admin /\ Len(rows) = audit.success
        BY <1>1, <2>3 DEF Audited, Opening
      <3>2. audit.setup = 1
        BY <3>1 DEF Audited, SetupAudited
      <3>3. Len(rows) + 1 \in audit.success .. audit.success + audit.setup
        BY <2>1, <3>1, <3>2
      <3> QED
        BY <1>3, <1>6, <2>3, <3>3 DEF LoginsAudited
    <2> QED
      BY <2>2, <2>3
  <1> QED
    BY <1>7, <1>8 DEF Audited

\* rotate_csrf writes the row and nothing the trail is about
LEMMA RotationAudited ==
    ASSUME Typed, Recorded, Audited, NEW t \in Tabs, Resume(t)
    PROVE  Audited'
  <1> DEFINE s == cookie[HostOf[t]]  R == [rows EXCEPT ![s].csrf = NewToken(s)]
  <1>1. HostOf[t] \in Hosts
    BY AuthAssumption
  <1>2. s \in 1..Len(rows)
    BY <1>1, LiveRow DEF Resume, Typed
  <1>3. NewToken(s) \in Nat \ {0}
    BY DEF Typed, TypeOK, NewToken
  <1>4. R \in Seq(Row) /\ Len(R) = Len(rows) /\ \A i \in DOMAIN rows : R[i].revoked = rows[i].revoked
    BY <1>2, <1>3, Countable, TokenChanged
  <1>5. rows' = R /\ UNCHANGED <<admin, failures, audit, call>>
    BY DEF Resume
  <1> HIDE DEF R, s
  <1>6. Len(rows') = Len(rows) /\ DOMAIN rows' = DOMAIN rows
    BY <1>4, <1>5, Countable
  <1>7. Revoked' = Revoked
    BY <1>4, <1>5, <1>6 DEF Revoked
  <1> QED
    BY <1>5, <1>6, <1>7 DEF Audited, SetupAudited, LoginsAudited, LogoutsAudited, FailuresAudited, Opening

\* logout: the session that ends was not revoked before
LEMMA RevocationAudited ==
    ASSUME Typed, Recorded, Audited, NEW t \in Tabs, Logout(t)
    PROVE  Audited'
  <1> DEFINE s == cookie[HostOf[t]]  R == [rows EXCEPT ![s].revoked = TRUE]
  <1>1. HostOf[t] \in Hosts /\ Live(s)
    BY AuthAssumption DEF Logout, Admitted
  <1>2. s \in 1..Len(rows) /\ s \in DOMAIN rows /\ rows[s].revoked = FALSE
    BY <1>1, LiveRow DEF Typed
  <1>3. /\ R \in Seq(Row) /\ Len(R) = Len(rows) /\ R[s].revoked = TRUE
        /\ \A i \in DOMAIN rows : i # s => R[i] = rows[i]
    BY <1>2, Countable, Revoking
  <1>4. rows' = R /\ UNCHANGED <<admin, failures, call>> /\ call = Idle
    BY DEF Logout
  <1>5. /\ audit'.setup = audit.setup /\ audit'.success = audit.success
        /\ audit'.failure = audit.failure /\ audit'.logout = audit.logout + 1
    <2>1. audit' = Count("logout") /\ "logout" \in Kinds
      BY DEF Logout, Kinds
    <2> QED
      BY <2>1, CountFields DEF Typed
  <1> HIDE DEF R, s
  <1>6. Len(rows') = Len(rows) /\ DOMAIN rows' = DOMAIN rows
    BY <1>3, <1>4, Countable
  <1>7. Revoked' = Revoked \cup {s} /\ s \notin Revoked
    BY <1>2, <1>3, <1>4, <1>6 DEF Revoked
  <1>8. LogoutsAudited'
    <2>1. Cardinality(Revoked \cup {s}) = Cardinality(Revoked) + 1
      BY <1>7, Countable, FS_AddElement
    <2> QED
      BY <1>5, <1>7, <2>1 DEF Audited, LogoutsAudited
  <1>9. SetupAudited' /\ LoginsAudited' /\ FailuresAudited' /\ Opening'
    BY <1>4, <1>5, <1>6 DEF Audited, SetupAudited, LoginsAudited, FailuresAudited, Opening, Idle
  <1> QED
    BY <1>8, <1>9 DEF Audited

\* Whatever step fails, each session, revocation and recorded failure has its event
THEOREM AuditIsComplete == Spec => []AuditComplete
  <1>1. Typed /\ Recorded /\ Audited /\ [Next]_vars => Audited'
    BY UnwrittenSteps, StillAudited, FailureAudited, AdministratorAudited, SessionAudited,
       RotationAudited, RevocationAudited
  <1>2. Throttle => Recorded
    BY DEF Throttle
  <1>3. Audited => AuditComplete
    BY AuditedMeans DEF Audited
  <1> QED
    BY <1>1, <1>2, <1>3, TypeInit, TypeNext, Throttling, AuditInit, PTL DEF Spec

=============================================================================

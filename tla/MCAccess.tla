-------------------------------- MODULE MCAccess ---------------------------------
(* Every access mode, with arguments the server refuses; edits that move the  *)
(* binding, leave keys out or are read by one parser only.                    *)
EXTENDS Access

Choice(access, detected, origins, proxies, networks) ==
    [access |-> access, detected |-> detected, origins |-> origins, proxies |-> proxies,
     networks |-> networks]

MCChoices == {Default,
              Choice("lan", {"http"}, {}, {}, {"subnet"}),
              Choice("lan", {}, {"broken"}, {}, {}),
              Choice("tailscale", {}, {"https"}, {}, {}),
              Choice("tailscale", {}, {"wildcard"}, {"wide"}, {}),
              Choice("local", {}, {"wildcard"}, {"narrow"}, {"lan"})}

Lan == [Empty EXCEPT !.host = "unspecified", !.origins = {"here", "http"}, !.networks = {"lan"}]

MCHand == {Empty,
           Lan,                                                     \* as before access modes
           [Lan EXCEPT !.security = TRUE, !.cookie = "secure", !.port = 808],
           [Lan EXCEPT !.security = TRUE, !.cookie = "yes"],
           [Empty EXCEPT !.mode = "lan"],                           \* the server infers the host
           [Empty EXCEPT !.mode = "proxy", !.security = TRUE, !.cookie = "insecure"],
           [Empty EXCEPT !.mode = "proxy", !.origins = {"https"}, !.proxies = {"loopback"}],
           [Lan EXCEPT !.hidden = {"host"}],                        \* [server] # comment
           [Lan EXCEPT !.port = 808, !.security = TRUE, !.cookie = "insecure",
                       !.hidden = {"cookie", "networks"}],
           [Empty EXCEPT !.port = 808, !.odd = TRUE],
           [Empty EXCEPT !.host = "name"],
           [Empty EXCEPT !.port = 0, !.origins = {"broken"}]}

Rule(lo, hi, source) ==
    [action |-> "ALLOW", form |-> "range", lo |-> lo, hi |-> hi, source |-> source]

Limit(r) == [r EXCEPT !.action = "LIMIT"]
List(r)  == [r EXCEPT !.form = "list"]

MCFirewalls == {[status |-> s, rules |-> {}] : s \in {"missing", "unreadable", "inactive"}}
         \cup  {[status |-> "active", rules |-> r] :
                    r \in {{Rule(8080, 8080, "lan"), Rule(808, 808, "name")},
                           {Rule(8080, 8080, "lan"), Rule(8000, 8080, "anywhere")},
                           {Rule(808, 8080, "subnet"), Limit(Rule(808, 808, "anywhere"))},
                           {Rule(808, 808, "lan"), List(Rule(22, 8080, "anywhere"))}}}

=============================================================================

------------------------------- MODULE MCAuditLog --------------------------------
(* The two event kinds that only their reason tells apart.                    *)
EXTENDS AuditLog

Kind(area, verb, target, result, reason) ==
    [area |-> area, verb |-> verb, target |-> target, result |-> result, reason |-> reason]

MCKinds == {Kind("auth", "login", "authentication", "failure", "rate_limited"),
            Kind("auth", "login", "authentication", "failure", "invalid_credentials")}

MCFilters == {NoFilter,
              [NoFilter EXCEPT !.category = "authentication", !.action = "LOGIN_FAILED",
                               !.result = "failure"],
              [NoFilter EXCEPT !.start = 1, !.end = 0]}

=============================================================================

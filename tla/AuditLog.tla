-------------------------------- MODULE AuditLog ---------------------------------
(***************************************************************************)
(* The audit log's filtered, cursor-paged list and the page that shows it.  *)
(*                                                                         *)
(* Events are appended while a list is being read; their times come from a  *)
(* clock that may repeat a value or be set back, their identifiers are      *)
(* random.  The page asks for a first list or for more, and an answer may   *)
(* arrive after the answer to a later request.                              *)
(*                                                                         *)
(* The names of the specification begin with Audit, so that one module can  *)
(* hold the proofs about this view and the dashboard's.                     *)
(***************************************************************************)
EXTENDS Naturals, Sequences, FiniteSets, SequencesExt

CONSTANTS
    Kinds,      \* events written: [area, verb, target, result, reason]
    Filters,    \* filters the page may set; an action is spelled as it is shown, so has no dot
    Unset,      \* a filter field that is not set, a cursor that is not there
    Limit,      \* rows of a page
    MaxEvents,  \* bound on the events, which take their identifiers from 1..MaxEvents
    MaxTime,    \* bound on time
    MaxAsked    \* bound on the requests under way

\* The events of setup, login and logout: a login fails for one of two reasons
AuthKind(k) ==
    /\ k.area = "auth" /\ k.target = "authentication" /\ k.verb \in {"setup", "login", "logout"}
    /\ k.verb = "login" => \/ k.result = "success"
                          \/ /\ k.result = "failure"
                             /\ k.reason \in {"rate_limited", "invalid_credentials"}

\* The events of the registry and of the lifecycle service
ApplicationKind(k) ==
    /\ k.area = "application" /\ k.target = "application"
    /\ k.verb \in {"create", "update", "delete", "start", "stop", "restart"}

\* A row of the table
Event == [id : 1..MaxEvents, at : 0..MaxTime, kind : Kinds]

ASSUME AuditAssumption ==
    /\ \A k \in Kinds : /\ DOMAIN k = {"area", "verb", "target", "result", "reason"}
                        /\ AuthKind(k) \/ ApplicationKind(k)
    /\ \A f \in Filters : DOMAIN f = {"category", "action", "result", "start", "end"}
    /\ {MaxEvents, MaxTime, MaxAsked} \subseteq Nat /\ Limit \in Nat \ {0}
    /\ Unset \notin Event

VARIABLES
    events,     \* the table: [id, at, kind]
    list,       \* state.auditEvents, newest first
    cursor,     \* state.auditCursor
    more,       \* the "more" button is shown
    busy,       \* ... and disabled
    asked,      \* requests under way, with the page the server has read for them
    basis,      \* history: the filter of the list's first page, and what it then asked for, if
                \* no other request was under way
    clean       \* history: since then no two requests were under way, nor was another filter used

auditVars == <<events, list, cursor, more, busy, asked, basis, clean>>

-----------------------------------------------------------------------------
(* What is shown of an event                                                *)

\* category_for
Category(k) ==
    IF k.area = "auth" \/ k.target = "authentication" THEN "authentication"
    ELSE IF k.area = "application" /\ k.verb \in {"create", "update", "delete"} THEN "registry"
    ELSE IF k.area = "application" /\ k.verb \in {"start", "stop", "restart"} THEN "lifecycle"
    ELSE IF k.area = "system" \/ k.target = "system" THEN "system"
    ELSE "other"

\* normalized_action
Action(k) ==
    IF k.area # "auth" \/ k.verb \notin {"setup", "login", "logout"} THEN k.verb
    ELSE IF k.verb = "setup" THEN "SETUP_COMPLETED"
    ELSE IF k.verb = "logout" THEN "LOGOUT"
    ELSE IF k.result = "success" THEN "LOGIN_SUCCEEDED"
    ELSE IF k.reason = "rate_limited" THEN "RATE_LIMITED"
    ELSE "LOGIN_FAILED"

-----------------------------------------------------------------------------
(* What a filter selects                                                    *)

\* _category_condition
InCategory(k, c) ==
    LET auth      == k.area = "auth"
        registry  == k.area = "application" /\ k.verb \in {"create", "update", "delete"}
        lifecycle == k.area = "application" /\ k.verb \in {"start", "stop", "restart"}
        system    == k.area = "system"
    IN  \/ c = "authentication" /\ (auth \/ k.target = "authentication")
        \/ c = "registry" /\ registry
        \/ c = "lifecycle" /\ lifecycle
        \/ c = "system" /\ (system \/ k.target = "system")
        \/ /\ c \notin {"authentication", "registry", "lifecycle", "system"}
           /\ ~(auth \/ registry \/ lifecycle \/ system)

AuthLabels == {"LOGIN_SUCCEEDED", "LOGIN_FAILED", "RATE_LIMITED", "SETUP_COMPLETED", "LOGOUT"}

Login(k, result) == k.area = "auth" /\ k.verb = "login" /\ k.result = result

\* Faulty variant of HasAction: every failed login is selected
HasActionFailure(k, a) ==
    \/ a = "LOGIN_SUCCEEDED" /\ Login(k, "success")
    \/ a \in {"LOGIN_FAILED", "RATE_LIMITED"} /\ Login(k, "failure")
    \/ a \notin AuthLabels /\ k.area = "application" /\ k.verb = a

\* The action filter: labels of authentication events, else an action of applications
HasAction(k, a) ==
    \/ a = "LOGIN_SUCCEEDED" /\ Login(k, "success")
    \/ a = "LOGIN_FAILED" /\ Login(k, "failure") /\ k.reason = "invalid_credentials"
    \/ a = "RATE_LIMITED" /\ Login(k, "failure") /\ k.reason = "rate_limited"
    \/ a = "SETUP_COMPLETED" /\ k.area = "auth" /\ k.verb = "setup"
    \/ a = "LOGOUT" /\ k.area = "auth" /\ k.verb = "logout"
    \/ a \notin AuthLabels /\ k.area = "application" /\ k.verb = a

\* The conditions of list, but the cursor's
Selected(e, f) ==
    /\ f.start # Unset => e.at >= f.start
    /\ f.end # Unset => e.at <= f.end
    /\ f.action # Unset => HasAction(e.kind, f.action)
    /\ f.result # Unset => e.kind.result = f.result
    /\ f.category # Unset => InCategory(e.kind, f.category)

\* TIME_INVALID
Refused(f) == f.start # Unset /\ f.end # Unset /\ f.start > f.end

-----------------------------------------------------------------------------
(* A page                                                                   *)

\* The order of the list: newer first, the identifier breaks ties
Before(d, e) == d.at > e.at \/ (d.at = e.at /\ d.id > e.id)

\* Faulty variant of Beyond: the cursor keeps only the time
BeyondTime(e, c) == e.at < c.at

\* What the cursor, a time and an identifier, leaves
Beyond(e, c) == Before(c, e)

InOrder(s) == \A i, j \in DOMAIN s : i < j => Before(s[i], s[j])

Rows(f, c) ==
    CHOOSE s \in SetToSeqs({e \in events : Selected(e, f) /\ (c # Unset => Beyond(e, c))}) :
        InOrder(s)

\* Faulty variant of Page: a cursor on the last page, too
PageCursor(f, c) ==
    LET rows  == Rows(f, c)
        shown == SubSeq(rows, 1, Min({Limit, Len(rows)}))
    IN  [events |-> shown, hasMore |-> Len(rows) > Limit,
         cursor |-> IF rows # <<>> THEN Last(shown) ELSE Unset]

\* list: a row beyond the limit tells that there is more
Page(f, c) ==
    LET rows    == Rows(f, c)
        hasMore == Len(rows) > Limit
    IN  [events |-> SubSeq(rows, 1, Min({Limit, Len(rows)})), hasMore |-> hasMore,
         cursor |-> IF hasMore THEN rows[Limit] ELSE Unset]

\* An event that the filter's fields, compared with what is shown of the event, ask for
Wanted(e, f) ==
    /\ f.start # Unset => e.at >= f.start
    /\ f.end # Unset => e.at <= f.end
    /\ f.action # Unset => Action(e.kind) = f.action
    /\ f.result # Unset => e.kind.result = f.result
    /\ f.category # Unset => Category(e.kind) = f.category

-----------------------------------------------------------------------------
(* Writers, and the page                                                    *)

Write(id, at, kind) ==
    /\ \A e \in events : e.id # id
    /\ events' = events \cup {[id |-> id, at |-> at, kind |-> kind]}
    /\ UNCHANGED <<list, cursor, more, busy, asked, basis, clean>>

\* loadAudit: the fields, which the user edits at any time, are read; the server reads a page; the
\* answer is awaited
Ask(reset, f) ==
    /\ Len(asked) < MaxAsked
    /\ busy' = TRUE
    /\ asked' = Append(asked,
         [reset |-> reset,
          page  |-> IF Refused(f) THEN Unset
                    ELSE Page(f, IF reset THEN Unset ELSE cursor),
          basis |-> IF reset /\ ~Refused(f) /\ asked = <<>>
                    THEN [filter |-> f, wanted |-> {e \in events : Wanted(e, f)}]
                    ELSE Unset])
    /\ UNCHANGED <<events, list, more, basis>>

\* The form is submitted or cleared: the cursor is given up before the new list is there, and the
\* button stays shown
Reload(f) ==
    /\ Ask(TRUE, f)
    /\ cursor' = Unset
    /\ clean' = (asked = <<>>)

\* The view is opened with an empty list
SwitchView(f) ==
    /\ list = <<>>
    /\ Ask(TRUE, f)
    /\ clean' = (asked = <<>>)
    /\ UNCHANGED cursor

\* MaxEvents bounds the list, too
More(f) ==
    /\ more /\ ~busy /\ Len(list) < MaxEvents
    /\ Ask(FALSE, f)
    /\ clean' = (clean /\ asked = <<>> /\ f = basis.filter)
    /\ UNCHANGED cursor

\* The answer replaces the list or is appended to it
Arrive(i) ==
    LET r == asked[i]
    IN  /\ r.page # Unset
        /\ asked' = RemoveAt(asked, i)
        /\ list' = IF r.reset THEN r.page.events ELSE list \o r.page.events
        /\ cursor' = r.page.cursor /\ more' = r.page.hasMore /\ busy' = FALSE
        /\ basis' = IF r.reset THEN r.basis ELSE basis
        /\ UNCHANGED <<events, clean>>

\* The request fails, and the button is enabled again; list and cursor stay, but a form's request
\* has given up the cursor, so that the button then asks for the first page, to append it
Fail(i) ==
    /\ asked' = RemoveAt(asked, i)
    /\ busy' = FALSE
    /\ clean' = (clean /\ ~asked[i].reset)
    /\ UNCHANGED <<events, list, cursor, more, basis>>

\* logout: list and cursor go, the button stays
Logout ==
    /\ list' = <<>> /\ cursor' = Unset
    /\ basis' = Unset /\ clean' = FALSE
    /\ UNCHANGED <<events, more, busy, asked>>

NoFilter == [category |-> Unset, action |-> Unset, result |-> Unset, start |-> Unset, end |-> Unset]

AuditInit ==
    /\ events = {} /\ list = <<>> /\ cursor = Unset /\ more = FALSE /\ busy = FALSE /\ asked = <<>>
    /\ basis = [filter |-> NoFilter, wanted |-> {}] /\ clean = TRUE

AuditNext ==
    \/ \E id \in 1..MaxEvents, at \in 0..MaxTime, kind \in Kinds : Write(id, at, kind)
    \/ \E f \in Filters : Reload(f)
    \/ \E f \in Filters : SwitchView(f)
    \/ \E f \in Filters : More(f)
    \/ \E i \in DOMAIN asked : Arrive(i)
    \/ \E i \in DOMAIN asked : Fail(i)
    \/ Logout

AuditSpec == AuditInit /\ [][AuditNext]_auditVars

-----------------------------------------------------------------------------
(* Properties                                                               *)

\* Types, and loadAudit: while there is a cursor the button that asks for more is shown; and if
\* requests are made one at a time and no new list has failed, it is shown only then (without a
\* cursor the request would be for the first page)
AuditTypeOK ==
    /\ events \subseteq Event
    /\ ToSet(list) \subseteq events
    /\ cursor \in events \cup {Unset} /\ more \in BOOLEAN
    /\ cursor # Unset => more
    /\ (clean /\ asked = <<>> /\ more) => cursor # Unset
    /\ Len(asked) <= MaxAsked /\ {busy, clean} \subseteq BOOLEAN

\* list and its cursor: while events are being appended, also with equal or earlier times, every
\* event that was there when the first page was read is shown as soon as the list has passed its
\* place, and all of them at the end; and the list is in strict order, so none is shown twice
NothingSkipped ==
    (clean /\ asked = <<>>) =>
        /\ \A i \in 1..(Len(list) - 1) : Before(list[i], list[i + 1])
        /\ \A e \in basis.wanted : (more => ~Before(cursor, e)) => e \in ToSet(list)

\* _category_condition and the action conditions against category_for and normalized_action: what
\* a filter selects is then shown under the label asked for
FilterMatchesLabel ==
    (clean /\ asked = <<>>) => \A e \in ToSet(list) : Wanted(e, basis.filter)

=============================================================================

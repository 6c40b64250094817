--------------------------- MODULE SerialOperations ---------------------------
(***************************************************************************)
(* What the registry and the lifecycle service promise together: operations *)
(* on one application happen one after the other; an application is neither *)
(* reconfigured nor removed while an operation on it is under way; and an   *)
(* operation ends with a result, once, unless it is interrupted.            *)
(***************************************************************************)
CONSTANTS
    Apps,       \* applications
    Operations, \* operations, each attempted at most once
    None        \* no row, no operation

VARIABLES
    row,        \* row[a]: identity of the registered application, or None
    on,         \* on[a]: the application is enabled
    busy,       \* busy[a]: the operation under way on a, or None
    result      \* result[o]: how far operation o got

vars == <<row, on, busy, result>>

\* Any registry to begin with
Init ==
    /\ \A a \in Apps : on[a] \in BOOLEAN
    /\ busy = [a \in Apps |-> None]
    /\ result = [o \in Operations |-> "none"]

\* Register, remove, enable or disable an application on which nothing happens
Reconfigure(a) ==
    /\ busy[a] = None
    /\ \E id \in {None, row[a]} \cup Operations : row' = [row EXCEPT ![a] = id]
    /\ \E b \in BOOLEAN : on' = [on EXCEPT ![a] = b]
    /\ UNCHANGED <<busy, result>>

Begin(o, a) ==
    /\ busy[a] = None /\ result[o] = "none"
    /\ row[a] # None /\ on[a]
    /\ busy' = [busy EXCEPT ![a] = o]
    /\ result' = [result EXCEPT ![o] = "RUNNING"]
    /\ UNCHANGED <<row, on>>

End(o, a) ==
    /\ busy[a] = o
    /\ busy' = [busy EXCEPT ![a] = None]
    /\ \E outcome \in {"SUCCEEDED", "FAILED"} : result' = [result EXCEPT ![o] = outcome]
    /\ UNCHANGED <<row, on>>

\* The operations on some applications stop without a result
Interrupt(stopped) ==
    /\ busy' = [a \in Apps |-> IF a \in stopped THEN None ELSE busy[a]]
    /\ UNCHANGED <<row, on, result>>

Next ==
    \/ \E a \in Apps : Reconfigure(a) \/ \E o \in Operations : Begin(o, a) \/ End(o, a)
    \/ \E stopped \in SUBSET Apps : Interrupt(stopped)

Spec == Init /\ [][Next]_vars
=============================================================================

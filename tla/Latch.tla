-------------------------------- MODULE Latch --------------------------------
(***************************************************************************)
(* What a non-recursive shared-update-exclusive latch promises: any number *)
(* of S holders beside at most one U holder, or one X holder alone.  U and *)
(* X may be exchanged for each other, S may be joined by U, and U may be   *)
(* exchanged for S.  This is the contract of ssux_lock_impl on which       *)
(* sux_lock and the rest of InnoDB are built.                              *)
(***************************************************************************)
CONSTANT Thread

VARIABLES
    holdS,  \* the threads that hold a shared latch
    holdW   \* what else each thread holds: "none", "U" or "X"

vars == <<holdS, holdW>>

Init ==
    /\ holdS = {}
    /\ holdW = [t \in Thread |-> "none"]

GrantS(t) ==
    /\ t \notin holdS
    /\ \A u \in Thread : holdW[u] # "X"
    /\ holdS' = holdS \cup {t}
    /\ UNCHANGED holdW

GrantU(t) ==
    /\ \A u \in Thread : holdW[u] = "none"
    /\ holdW' = [holdW EXCEPT ![t] = "U"]
    /\ UNCHANGED holdS

GrantX(t) ==
    /\ holdS = {}
    /\ \A u \in Thread : holdW[u] = "none"
    /\ holdW' = [holdW EXCEPT ![t] = "X"]
    /\ UNCHANGED holdS

\* U is kept while the S holders leave; then it becomes X.
UpgradeU(t) ==
    /\ holdW[t] = "U"
    /\ holdS = {}
    /\ holdW' = [holdW EXCEPT ![t] = "X"]
    /\ UNCHANGED holdS

DowngradeX(t) ==
    /\ holdW[t] = "X"
    /\ holdW' = [holdW EXCEPT ![t] = "U"]
    /\ UNCHANGED holdS

DowngradeU(t) ==
    /\ holdW[t] = "U" /\ t \notin holdS
    /\ holdS' = holdS \cup {t}
    /\ holdW' = [holdW EXCEPT ![t] = "none"]

ReleaseS(t) ==
    /\ t \in holdS
    /\ holdS' = holdS \ {t}
    /\ UNCHANGED holdW

ReleaseW(t) ==
    /\ holdW[t] # "none"
    /\ holdW' = [holdW EXCEPT ![t] = "none"]
    /\ UNCHANGED holdS

Next ==
    \E t \in Thread :
        \/ GrantS(t) \/ GrantU(t) \/ GrantX(t) \/ UpgradeU(t)
        \/ DowngradeX(t) \/ DowngradeU(t) \/ ReleaseS(t) \/ ReleaseW(t)

Spec == Init /\ [][Next]_vars

\* The latch protects: X excludes everybody else, U excludes U and X.
Exclusion ==
    /\ \A t, u \in Thread : holdW[t] # "none" /\ holdW[u] # "none" => t = u
    /\ \A t \in Thread : holdW[t] = "X" => holdS = {}
=============================================================================

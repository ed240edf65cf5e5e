------------------------ MODULE MCDesktopApplication ------------------------
(* An instance of DesktopApplication for TLC.                               *)
EXTENDS DesktopApplication

CONSTANTS f1, f2, p1, p2

TwoFiles == {f1, f2}
TwoConfigs == {p1, p2}
OneNamed == [f \in File |-> IF f = f1 THEN p1 ELSE None]

\* Up to four of what overtakes each other, or two of the rest, or one of each.
Core == {"start", "resolve", "reload", "shutdown", "failure"}
Few == [kind \in Kind |-> IF kind \in {"open", "resolve", "edit", "failure", "shutdown"} THEN 2 ELSE 1]
Weights == [kind \in Kind |-> IF kind = "open" THEN 0 ELSE IF kind \in Core THEN 1 ELSE 2]
=============================================================================

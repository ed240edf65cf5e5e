---------------------------- MODULE Installation ----------------------------
(***************************************************************************)
(* What replacing the application promises its user, told without the      *)
(* processes that do it: the installation directory may be empty or        *)
(* damaged for a while, but only as long as a copy that can be started is  *)
(* kept beside it, and a kept copy is given up only when another copy can  *)
(* be started.  ApplicationUpdate implements this specification.           *)
(***************************************************************************)
CONSTANT Attempts       \* the update attempts; each keeps its own copy aside

VARIABLES installed,    \* the unit in the installation directory
          backup        \* backup[a]: the unit attempt a has set aside

vars == <<installed, backup>>

Usable == {"Old", "New"}             \* complete units, of either version
Units == Usable \cup {"None", "Partial"}

TypeOK == /\ installed \in Units
          /\ backup \in [Attempts -> Units]

Init == /\ installed = "Old"
        /\ backup = [a \in Attempts |-> "None"]

(* The installed unit is renamed to the backup path of the attempt. *)
SetAside(a) ==
  /\ installed # "None"
  /\ backup[a] = "None"
  /\ backup' = [backup EXCEPT ![a] = installed]
  /\ installed' = "None"

(* A complete unit is put in the empty installation directory. *)
Place ==
  /\ installed = "None"
  /\ installed' \in Usable
  /\ UNCHANGED backup

(* The installed unit is removed, entirely or in part, over a usable backup. *)
Withdraw(a) ==
  /\ backup[a] \in Usable
  /\ installed' \in {"None", "Partial"}
  /\ UNCHANGED backup

(* The backup returns to the empty installation directory. *)
Restore(a) ==
  /\ installed = "None"
  /\ installed' = backup[a]
  /\ backup' = [backup EXCEPT ![a] = "None"]

(* The backup is given up, entirely or in part, while another unit is usable. *)
Discard(a) ==
  /\ \/ installed \in Usable
     \/ \E b \in Attempts \ {a} : backup[b] \in Usable
  /\ \E left \in {"None", "Partial"} : backup' = [backup EXCEPT ![a] = left]
  /\ UNCHANGED installed

Next == \/ Place
        \/ \E a \in Attempts : \/ SetAside(a) \/ Withdraw(a)
                               \/ Restore(a) \/ Discard(a)

Spec == Init /\ [][Next]_vars

(* The promise itself: an application that can be started is always there. *)
ApplicationSurvives ==
  \/ installed \in Usable
  \/ \E a \in Attempts : backup[a] \in Usable
=============================================================================

------------------------- MODULE MCTerminalControl -------------------------
(* Small instances of TerminalControl.                                     *)
EXTENDS TerminalControl

CONSTANTS t1, t2, t3, g1, g2

Plain(link) == [command |-> 1, stateful |-> FALSE, link |-> link]
Stateful(link) == [command |-> 1, stateful |-> TRUE, link |-> link]

\* Two terminals of one group: a locked one, and one with a state-changing command
\* that may be reworded or deleted.
PairDraft ==
  [t \in Terminal |->
     IF t = t1 THEN {Plain(t2)}
     ELSE {Stateful(t1), [Stateful(None) EXCEPT !.command = 2]}]

PairLayout ==
  [t \in Terminal |-> [group |-> g1, position |-> IF t = t1 THEN 0 ELSE 1]]

\* Three terminals in one group, linked in a ring that may be rewired.
RingDraft ==
  [t \in Terminal |->
     CASE t = t1 -> {[command |-> 0, stateful |-> FALSE, link |-> t2]}
       [] t = t2 -> {[command |-> 0, stateful |-> FALSE, link |-> l] : l \in {t3, None}}
       [] OTHER -> {[command |-> 0, stateful |-> FALSE, link |-> l] : l \in {t1}}]

RingLayout ==
  [t \in Terminal |-> [group |-> g1, position |-> CASE t = t1 -> 0 [] t = t2 -> 1 [] OTHER -> 2]]

=============================================================================

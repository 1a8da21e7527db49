--------------------------- MODULE MCActionServer ---------------------------
(* Two goals whose ids may be equal; a goal with a cancel and a result     *)
(* request, where the client of one may go away; two goals and a cancel    *)
(* request for one or both.                                                *)
EXTENDS ActionServer

CONSTANTS g1, g2, c1, q1, i1, i2

Duplicates == inbox = {g1, g2} /\ gone = {} /\ group = "reentrant"
AskOne ==
  /\ inbox = {g1, c1, q1}
  /\ gone \in {{}, {g1}, {q1}}
  /\ gone # {} => group = "exclusive"
CancelMany == inbox = {g1, g2, c1} /\ gone = {} /\ group = "exclusive" /\ idOf[g2] = i2

Canonical ==
  /\ idOf[g1] = i1
  /\ g2 \notin inbox => idOf[g2] = i1
  /\ \A r \in {c1, q1} \ inbox : targets[r] = {i1}
  /\ i2 \in targets[c1] \cup targets[q1] => g2 \in inbox

MCInit == Init /\ (Duplicates \/ AskOne) /\ Canonical
MCSpec == MCInit /\ [][Next]_vars /\ Fairness

ManyInit == Init /\ CancelMany /\ Canonical
ManySpec == ManyInit /\ [][Next]_vars
=============================================================================

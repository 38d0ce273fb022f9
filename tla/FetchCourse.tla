---------------------------- MODULE FetchCourse -----------------------------
(***************************************************************************)
(* What the HIST promises the L1 caches, with no table, queue or network:  *)
(* a fetch asks the home of its block; the home grants it, parks it or     *)
(* sends it to memory; a parked fetch is granted; a grant is answered or,  *)
(* when the block is gone, sent to memory; memory answers.  A fetch never  *)
(* goes back: it asks once, goes to memory at most once and is answered.   *)
(***************************************************************************)
CONSTANTS Cores, Blocks

VARIABLE stage

Stages == {"idle", "asking", "granted", "parked", "memory", "answered"}

Successors ==
  [idle     |-> {"asking"},
   asking   |-> {"granted", "parked", "memory"},
   parked   |-> {"granted"},
   granted  |-> {"answered", "memory"},
   memory   |-> {"answered"},
   answered |-> {"idle"}]

Init == stage = [c \in Cores |-> [b \in Blocks |-> "idle"]]

Move(c, b) ==
  \E next \in Successors[stage[c][b]] : stage' = [stage EXCEPT ![c][b] = next]

(* A fill answers one fetch and grants, in the same step, every fetch      *)
(* parked for the block.                                                   *)
FillAndGrant(c, b) ==
  /\ stage[c][b] = "answered"
  /\ stage' = [d \in Cores |-> [a \in Blocks |->
                 IF d = c /\ a = b THEN "idle"
                 ELSE IF a = b /\ stage[d][a] = "parked" THEN "granted"
                 ELSE stage[d][a]]]

(* Fetches of one core may end their trip to the home together, which is   *)
(* no change of stage.                                                     *)
Next == \E c \in Cores, b \in Blocks : Move(c, b) \/ FillAndGrant(c, b)

(* Every fetch that has left the idle stage moves on; nothing forces a     *)
(* core to ask.                                                            *)
Progress(c, b) == stage[c][b] # "idle" /\ (Move(c, b) \/ FillAndGrant(c, b))

Steps == Init /\ [][Next]_stage

Spec == Steps /\ \A c \in Cores, b \in Blocks : WF_stage(Progress(c, b))

=============================================================================

---------------------------- MODULE MCDailyPicks ----------------------------
(* DailyPicks from a Friday on which a workflow has ended its Stage 4, so  *)
(* that a few more runs are enough for picks to overlap and be replaced.   *)
EXTENDS DailyPicks

Ended(n) ==
  [stage |-> n, scoreDate |-> 0, status |-> "complete", error |-> "none",
   input |-> n - 1, previous |-> n - 1, beside |-> {}]

BeforeStage5 ==
  /\ today = 0
  /\ runs = <<Ended(Ranking), Ended(Shortlist)>>
  /\ rows = [n \in Stages |-> [d \in Dates |-> IF n < Picks /\ d = 0 THEN {n} ELSE {}]]
  /\ \E w \in Workflows \ Scripts :
       /\ stage = [v \in Workflows |-> IF v = w THEN Picks ELSE 0]
       /\ run = [v \in Workflows |-> IF v = w THEN 2 ELSE 0]
  /\ step = [w \in Workflows |-> "start"]
  /\ given = [w \in Workflows |-> NoDate]
  /\ deleted = [w \in Workflows |-> {}]

SpecFromStage5 == BeforeStage5 /\ [][Next]_vars
=============================================================================

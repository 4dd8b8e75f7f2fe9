----------------------------- MODULE MCMeters -----------------------------
(* Files and rates for the runs of Meters.                                *)
EXTENDS Meters, TLC

SlowRate == [cir |-> 1, cbs |-> 1]
NoBurst == [cir |-> 1, cbs |-> 0]
MCRates == {SlowRate, NoBurst}

Rule(id, rate) == [ok |-> TRUE, id |-> id, rate |-> rate]
BadRule == [ok |-> FALSE, id |-> 0, rate |-> NoRate]

File(policy, rules) ==
  [json |-> TRUE, mode |-> TRUE, wan |-> TRUE, policy |-> policy, ddos |-> Absent, rules |-> rules]

MCFiles ==
  { File("accept", << Rule(1, NoRate), Rule(0, NoBurst) >>),
    [File(Absent, << Rule(0, SlowRate) >>) EXCEPT !.ddos = "thresholds"],
    File("drop", << Rule(1, NoBurst), Rule(2, SlowRate), Rule(3, NoRate) >>),
    File("accept", << Rule(0, SlowRate), BadRule >>),
    File(Bad, << >>) }

Symmetry == Permutations(Lcores)
=============================================================================

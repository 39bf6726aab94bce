----------------------------- MODULE MCCampaign -----------------------------
(* Instances of Campaign for TLC.                                          *)
EXTENDS Campaign, TLC

(* Plans 1 and 2 differ but produce the same image, plan 3 another one.    *)
MCOutput == [p \in Plan |-> IF p = 3 THEN "b" ELSE "a"]

V(status) == [status |-> status, signature |-> "s"]

(* One verdict of each kind the funnel tells apart.                        *)
MCVerdicts == {V("accepted"), V("rejected"), V("crashed")}
MCOneVerdict == {V("accepted")}

MCAllSpecs == [funnel : FunnelPolicy, maxOracleRuns : {0, 1, 5}]
MCNovelty1 == [funnel : {"Novelty"}, maxOracleRuns : {1}]
=============================================================================

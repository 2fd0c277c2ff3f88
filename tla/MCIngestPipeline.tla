-------------------------- MODULE MCIngestPipeline --------------------------
(* Instances of IngestPipeline for TLC.                                    *)
EXTENDS IngestPipeline, TLC

CONSTANTS w1, w2, c1, c2

MCTypes == {"PAGE", "FILE"}

(* One item: two workers meet on every row.                                *)
OneRef == {1}
OneRefOf == [r \in OneRef |-> "PAGE"]
OneTypeJobs == [j \in Jobs |-> <<"PAGE">>]

(* Two source types, asked for in opposite orders; one has two items.      *)
ThreeRefs == {1, 2, 3}
ThreeOf == [r \in ThreeRefs |-> IF r = 2 THEN "FILE" ELSE "PAGE"]
CrossedJobs == [j \in Jobs |-> IF j % 2 = 1 THEN <<"PAGE", "FILE">>
                                            ELSE <<"FILE", "PAGE">>]

Symmetry == Permutations({w1, w2}) \cup Permutations({c1, c2})
=============================================================================

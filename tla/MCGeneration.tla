---------------------------- MODULE MCGeneration ----------------------------
(* Small instances of Generation and Edits: two generators and the editor's,  *)
(* whose providers retry different errors; two people who edit by hand.       *)
EXTENDS Edits

CONSTANTS g1, g2, ann, ben

MCConfigs == {<<g1, g2>>, <<g2>>}
MCSources == 1..4
MCStratum == <<"g1 correct", "g1 correct", "g1 weak", "rewrite">>
MCProvider == (g1 :> "anthropic") @@ (g2 :> "google")
MCDeals == <<[editors |-> <<ann>>, each |-> 1], [editors |-> <<ben, ann>>, each |-> 1]>>
MCQueues == <<<<1, 2>>, <<3>>>>
MCPassing == <<{1, 3}, {2}>>
=============================================================================

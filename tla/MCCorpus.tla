------------------------------ MODULE MCCorpus ------------------------------
(* One dataset of four questions, two of one text.  In the next sources a    *)
(* question comes back under another id, as the listed twin of another one,  *)
(* and a question is replaced.  In one shuffle its text then moves from test *)
(* to train, where the splices of the first build still hold it for test.    *)
EXTENDS Evaluation, TLC

MCTextOf == <<2, 2, 3, 4, 4, 6>>
All == {Raw(q, m) : q \in 1..6, m \in {"g1", "g2"}}
Earlier == {2, 3, 4, 5}
Later == {1, 3, 4, 6}
MCRevisions == <<
    [questions |-> Earlier, twins |-> <<>>, ais |-> {a \in All : a[1] \in Earlier}],
    [questions |-> Later, twins |-> <<<<1, 4>>>>, ais |-> {a \in All : a[1] \in Later}]>>
MCTier == [a \in All |-> IF a[1] \in {4, 5} /\ a[2] = "g1" THEN "wrong" ELSE "good"]
MCKeep == "wrong" :> 60
MCShort == {Raw(4, "g2"), Raw(3, "h2")}
MCBrief == {Raw(3, "h1")}
MCEdited == [a \in All |-> CASE a[2] = "g1" /\ a[1] \in {3, 4} -> "genuine"
                              [] a[2] = "g2" /\ a[1] \notin {1, 6} -> "simulated"
                              [] OTHER -> "none"]
MCRewrites == {<<a, s>> : a \in {x \in All : x[1] \notin {1, 6}}, s \in {"light", "heavy"}}
MCReaches == ("b25" :> ({"h1", "h2", "h3"} \X {"g1", "g2"}))
             @@ ("b50" :> {<<"h1", "g1">>, <<"h1", "g2">>, <<"h2", "g1">>, <<"h3", "g1">>})
MCAnswersPerBand == [p \in {"train", "val", "test"} |-> 2]
MCSeeds ==
    {({2, 3, 4} :> <<2, 3, 4>>) @@ ({2, 3, 6} :> <<6, 3, 2>>) @@ ({2, 3, 4, 6} :> <<2, 3, 4, 6>>),
     ({2, 3, 4} :> <<3, 4, 2>>) @@ ({2, 3, 6} :> <<3, 6, 2>>) @@ ({2, 3, 4, 6} :> <<2, 3, 4, 6>>)}
=============================================================================

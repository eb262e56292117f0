------------------------------ MODULE MCScoring ------------------------------
(* Six answers, four of them by students (one too short once it is cleaned),  *)
(* two by models; two desklib versions and RADAR after up to three epochs.    *)
EXTENDS Scoring

McAi == [a \in Answers |-> a > 4]
McWords == [a \in Answers |-> IF a = 4 THEN 9 ELSE 12]
McRawWords == [a \in Answers |-> IF a = 3 THEN 9 ELSE 12]
McScoreOf ==
    [v \in Versions |-> [w \in 1..MaxEpochs |->
        
        IF v = 1 THEN <<10, 9, 4, 16, 14, (9 + w) % 12>> ELSE <<13, 13, 2, 4, 15, 4 + w>>]]
McScores == 0..18
McRow(id, actor, created) ==
    [id |-> id, actor |-> actor, created |-> created, answer |-> 0, verdict |-> "uncertain", threshold |-> 0,
     by |-> [desklib |-> 0, radar |-> 0, settings |-> [desklib |-> 0, radar |-> 1, threshold |-> 0]]]
McEarlierRows ==
    {McRow(2, "ada", 0), McRow(3, "ada", 1), McRow(5, "ada", 1), McRow(6, "eve", 1), McRow(7, "ada", 1)}
McWalks ==
    {[actor |-> "ada", of |-> Everybody, limit |-> 2], [actor |-> "eve", of |-> "ada", limit |-> 1],
     [actor |-> "eve", of |-> Everybody, limit |-> 2]}
McSubmission == [c \in Callers |-> [actor |-> "ada", answer |-> c]]
McSince == [p \in People |-> IF p = "ada" THEN 1 ELSE 0]
=============================================================================

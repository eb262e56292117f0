----------------------------- MODULE Generation -----------------------------
(* The three tools of the data pipeline that pay for model answers and can   *)
(* be stopped and started again in one run folder: harness/generate.py       *)
(* ("generate"), paraphrase/generate.py ("paraphrase") and                   *)
(* human_edit/simulate.py ("simulate").  A run reads the folder, skips what  *)
(* it holds, and appends one line an answer; the report is written by a      *)
(* `finally`.  A process may be interrupted (the `finally` runs) or killed   *)
(* (it does not, and what Python still buffered is lost, perhaps inside a    *)
(* line).  An operator X_Slip is X with a plausible slip.                    *)
EXTENDS Integers, Sequences, FiniteSets

CONSTANTS
    Tools,          \* the tools looked at: one folder of one of them
    Generators,     \* names in harness configurations
    Configs,        \* the lists of names a run may be configured with
    Editor,         \* the one of them the other two tools call
    Provider,       \* whose client answers for a name
    Sources,        \* 1..n: questions, or answers to reword or edit, in plan order
    Pilots,         \* how many questions a harness run may be limited to
    Stratum,        \* answer -> its generator and tier, or "rewrite"
    Share,          \* percentage of a stratum that is reworded or edited
    Prompts,        \* what an answer is made with: template and course
    MaxAttempts,    \* clients.MAX_ATTEMPTS
    MaxStreak,      \* failures in a row that end a generator's turn
    MinGenuine,     \* simulate.MIN_GENUINE
    MaxRuns, MaxStops   \* bounds: runs started, runs stopped from outside

ASSUME GenerationAssumption ==
    /\ Tools \subseteq {"generate", "paraphrase", "simulate"}
    /\ Editor \in Generators /\ Configs \subseteq Seq(Generators)
    /\ \A c \in Configs : \A i, j \in DOMAIN c : c[i] = c[j] => i = j    \* "duplicate generator names" are refused
    /\ IsFiniteSet(Sources) /\ Sources = 1..Cardinality(Sources) /\ Pilots \subseteq Sources
    /\ Share \in 1..100
    /\ {MaxAttempts, MaxStreak} \subseteq Nat \ {0}
    /\ {MinGenuine, MaxRuns, MaxStops} \subseteq Nat

VARIABLES
    tool,
    folder,     \* on disk: lines, a half-written last line, the report
    proc,       \* the running process
    genuine,    \* answers edited by hand (data/human_edit/genuine.jsonl)
    bill        \* history: what the providers charged, what was lost, stops

vars == <<tool, folder, proc, genuine, bill>>

Ids == Generators \X Sources
Zero == [requested |-> 0, succeeded |-> 0, failed |-> 0, tokens |-> 0]
None == [requested |-> 0, succeeded |-> -1, failed |-> 0, tokens |-> 0]
Resting == [on |-> FALSE, todo |-> <<>>, done |-> {}, at |-> <<Editor, 0>>,
            phase |-> "next", attempt |-> 0, streak |-> 0, drawn |-> 0,
            report |-> [g \in Generators |-> None], buffer |-> <<>>, how |-> <<>>]

IdsOf(lines) == {lines[i].id : i \in DOMAIN lines}
RecordsOf(g, lines) == Cardinality({i \in DOMAIN lines : lines[i].id[1] = g})

-----------------------------------------------------------------------------
(* Which errors a client tries again.  A google transport error carries no   *)
(* APIError, and an exhausted openai quota is not a matter of load.          *)
Anthropic == {"rate", "connection", "server"}
OpenAI == {"rate", "connection", "server"}
Google == {"rate", "quota", "server"}
Errors == {"rate", "quota", "connection", "server", "refused"}
Retryable(g) ==
    CASE Provider[g] = "anthropic" -> Anthropic
      [] Provider[g] = "google" -> Google
      [] OTHER -> OpenAI

(* The calls of a plan, in order: every question with the first name of the  *)
(* configuration, then with the second ...                                   *)
Nth(S, k) == CHOOSE s \in S : Cardinality({r \in S : r <= s}) = k
PlanOf(config, S) ==
    LET n == Cardinality(S)
    IN  [k \in 1..(Len(config) * n) |-> <<config[((k - 1) \div n) + 1], Nth(S, ((k - 1) % n) + 1)>>]

(* Reading the file back: every line must parse.                             *)
Readable == ~folder.torn

(* Lines made with other prompts, or for another dataset, stop the run.      *)
Stale(prompt) == {i \in DOMAIN folder.lines : folder.lines[i].how # <<prompt>>}

(* The report a harness run starts from: an earlier entry that still counts  *)
(* the records carries on, failures and empty answers with it; any other is  *)
(* counted anew from the records.  Names not configured keep their entry.    *)
Counted(g) ==
    LET n == RecordsOf(g, folder.lines)
    IN  [requested |-> n, succeeded |-> n, failed |-> 0, tokens |-> n]
Rebuilt_Slip(config) ==
    [g \in Generators |->
        IF \E i \in DOMAIN config : config[i] = g THEN Counted(g) ELSE folder.report[g]]
Rebuilt(config) ==
    [g \in Generators |->
        IF /\ \E i \in DOMAIN config : config[i] = g
           /\ folder.report[g].succeeded # RecordsOf(g, folder.lines)
        THEN Counted(g)
        ELSE folder.report[g]]

Begin(todo, report, how) ==
    /\ ~proc.on /\ bill.runs < MaxRuns
    /\ proc' = [Resting EXCEPT !.on = TRUE, !.todo = todo, !.done = IdsOf(folder.lines),
                               !.report = report, !.how = how]
    /\ bill' = [bill EXCEPT !.runs = @ + 1]
    /\ UNCHANGED <<tool, folder, genuine>>

(* load_answers leaves out rewrites of student answers; of the others a share *)
(* of every generator and tier is drawn, at least one, the same every time.   *)
LoadAnswers == {s \in Sources : Stratum[s] # "rewrite"}
SampleSize(T) ==
    LET down == (Cardinality(T) * Share) \div 100  rest == (Cardinality(T) * Share) % 100
    IN  IF down = 0 \/ rest > 50 \/ (rest = 50 /\ down % 2 = 1) THEN down + 1 ELSE down
Drawn(T) == CHOOSE D \in SUBSET T : Cardinality(D) = SampleSize(T)
StratifiedSample(S) == UNION {Drawn({s \in S : Stratum[s] = Stratum[r]}) : r \in S}

StartGenerate(config, n, prompt) ==
    /\ tool = "generate" /\ Readable
    /\ Stale(prompt) = {}
    /\ Begin(PlanOf(config, 1..n), Rebuilt(config), <<prompt>>)

(* A resumed paraphrase run does not ask what the lines were made with.      *)
StartParaphrase ==
    /\ tool = "paraphrase" /\ Readable
    /\ Begin(PlanOf(<<Editor>>, StratifiedSample(LoadAnswers)), [Resting.report EXCEPT ![Editor] = Zero], <<>>)

(* Answers edited by hand stay out.                                          *)
Selected(byHand) == StratifiedSample(LoadAnswers \ byHand)
StartSimulate ==
    /\ tool = "simulate" /\ Readable
    /\ Cardinality(genuine) >= MinGenuine
    /\ Begin(PlanOf(<<Editor>>, Selected(genuine)), [Resting.report EXCEPT ![Editor] = Zero], <<genuine>>)

-----------------------------------------------------------------------------
(* The next call of the plan; what the folder holds is passed over.  The     *)
(* edit types are drawn before that is looked at.                            *)
NextCall_Slip ==
    /\ proc.on /\ proc.phase = "next" /\ proc.todo # <<>>
    /\ LET id == Head(proc.todo)
           skip == id \in proc.done
           turn == [proc EXCEPT !.todo = Tail(@), !.at = id,
                                !.drawn = IF skip THEN @ ELSE @ + 1,
                                !.streak = IF id[1] = proc.at[1] THEN @ ELSE 0]
       IN  proc' = IF skip THEN turn
                   ELSE [turn EXCEPT !.phase = "calling", !.attempt = 1,
                                     !.report[id[1]].requested = @ + 1]
    /\ UNCHANGED <<tool, folder, genuine, bill>>
NextCall ==
    /\ proc.on /\ proc.phase = "next" /\ proc.todo # <<>>
    /\ LET id == Head(proc.todo)
           turn == [proc EXCEPT !.todo = Tail(@), !.at = id, !.drawn = @ + 1,
                                !.streak = IF id[1] = proc.at[1] THEN @ ELSE 0]
       IN  proc' = IF id \in proc.done THEN turn
                   ELSE [turn EXCEPT !.phase = "calling", !.attempt = 1,
                                     !.report[id[1]].requested = @ + 1]
    /\ UNCHANGED <<tool, folder, genuine, bill>>

(* The call failed for good, or what was charged is an empty text.  The      *)
(* third failure in a row ends this generator's turn, which for the other    *)
(* two tools is the run: what is left are the calls of the generators after  *)
(* it.                                                                       *)
AfterTurn(g) ==
    LET later == {k \in DOMAIN proc.todo : proc.todo[k][1] # g}
    IN  SubSeq(proc.todo, Len(proc.todo) - Cardinality(later) + 1, Len(proc.todo))
Failed(tokens) ==
    LET g == proc.at[1]
        over == proc.streak + 1 >= MaxStreak
    IN  [proc EXCEPT !.phase = "next", !.attempt = 0, !.streak = @ + 1,
                     !.todo = IF over THEN AfterTurn(g) ELSE @,
                     !.report[g] = [proc.report[g] EXCEPT !.failed = @ + 1, !.tokens = @ + tokens]]

Retry_Slip(error) == error \in Retryable(proc.at[1])
Retry(error) == error \in Retryable(proc.at[1]) /\ proc.attempt < MaxAttempts

CallFails(error) ==
    /\ proc.phase = "calling"
    /\ proc' = IF Retry(error)
               THEN [proc EXCEPT !.attempt = (@ % MaxAttempts) + 1]
               ELSE Failed(0)
    /\ UNCHANGED <<tool, folder, genuine, bill>>

CallReturnsNothing ==
    /\ proc.phase = "calling"
    /\ proc' = [proc EXCEPT !.phase = "empty"]
    /\ bill' = [bill EXCEPT !.spent[proc.at[1]] = @ + 1]
    /\ UNCHANGED <<tool, folder, genuine>>

(* An empty text is counted for what it cost.                                *)
CountEmpty ==
    /\ proc.phase = "empty"
    /\ proc' = Failed(1)
    /\ UNCHANGED <<tool, folder, genuine, bill>>

(* The other two tools count the tokens of a text before they write it.      *)
CallReturnsText ==
    /\ proc.phase = "calling"
    /\ proc' = [proc EXCEPT !.phase = "holding", !.attempt = 0, !.streak = 0,
                            !.report[proc.at[1]].tokens = IF tool = "generate" THEN @ ELSE @ + 1]
    /\ bill' = [bill EXCEPT !.spent[proc.at[1]] = @ + 1, !.bought = @ + 1]
    /\ UNCHANGED <<tool, folder, genuine>>

(* One line; the harness flushes it, the other two leave it to the buffer ... *)
Flushed_Slip == FALSE
Flushed == tool = "generate"
Line == [id |-> proc.at,
         how |-> IF tool = "simulate" THEN <<proc.drawn, proc.how[1]>> ELSE proc.how]
WriteRecord ==
    /\ proc.phase = "holding"
    /\ folder' = [folder EXCEPT !.lines = IF Flushed THEN Append(@, Line) ELSE @]
    /\ proc' = [proc EXCEPT !.phase = "written", !.buffer = IF Flushed THEN @ ELSE Append(@, Line)]
    /\ UNCHANGED <<tool, genuine, bill>>

(* ... which is then counted, and in a harness run after it the tokens.      *)
CountRecord ==
    /\ proc.phase = "written"
    /\ proc' = [proc EXCEPT !.phase = IF tool = "generate" THEN "billing" ELSE "next",
                            !.report[proc.at[1]].succeeded = @ + 1]
    /\ UNCHANGED <<tool, folder, genuine, bill>>
CountTokens ==
    /\ proc.phase = "billing"
    /\ proc' = [proc EXCEPT !.phase = "next", !.report[proc.at[1]].tokens = @ + 1]
    /\ UNCHANGED <<tool, folder, genuine, bill>>

(* Closing the file writes the buffer out; the `finally` writes the report.  *)
Close ==
    /\ folder' = [folder EXCEPT !.lines = @ \o proc.buffer, !.report = proc.report]
    /\ proc' = Resting
    /\ UNCHANGED <<tool, genuine>>

Finish ==
    /\ proc.on /\ proc.phase = "next" /\ proc.todo = <<>>
    /\ Close /\ UNCHANGED bill

Interrupt ==
    /\ proc.on /\ bill.stops < MaxStops
    /\ Close
    /\ bill' = [bill EXCEPT !.stops = @ + 1,
                            !.lost = @ + (IF proc.phase = "holding" THEN 1 ELSE 0),
                            !.dropped[proc.at[1]] = @ + (IF proc.phase \in {"empty", "holding", "billing"} THEN 1 ELSE 0),
                            !.cuts[proc.at[1]] = @ + (IF proc.phase = "written" THEN 1 ELSE 0)]

Kill ==
    /\ proc.on /\ bill.stops < MaxStops
    /\ \E kept \in 0..Len(proc.buffer), torn \in BOOLEAN :
        LET held == IF proc.phase = "holding" THEN 1 ELSE 0
            lost == Len(proc.buffer) - kept + held
        IN  /\ torn => kept < Len(proc.buffer)
            /\ folder' = [folder EXCEPT !.lines = @ \o SubSeq(proc.buffer, 1, kept),
                                        !.torn = torn]
            /\ bill' = [bill EXCEPT !.stops = @ + 1, !.kills = @ + 1, !.lost = @ + lost]
    /\ proc' = Resting
    /\ UNCHANGED <<tool, genuine>>

-----------------------------------------------------------------------------
Init ==
    /\ tool \in Tools
    /\ folder = [lines |-> <<>>, torn |-> FALSE, report |-> [g \in Generators |-> None]]
    /\ proc = Resting
    /\ genuine = {}
    /\ bill = [runs |-> 0, spent |-> [g \in Generators |-> 0], dropped |-> [g \in Generators |-> 0],
               cuts |-> [g \in Generators |-> 0], bought |-> 0, lost |-> 0, stops |-> 0, kills |-> 0]

(* What the process does by itself, and how a call may end.                  *)
Steps == NextCall \/ CountEmpty \/ WriteRecord \/ CountRecord \/ CountTokens \/ Finish
CallEnds == (\E e \in Errors : CallFails(e)) \/ CallReturnsNothing \/ CallReturnsText

Next ==
    \/ \E c \in Configs, n \in Pilots, p \in Prompts : StartGenerate(c, n, p)
    \/ StartParaphrase
    \/ StartSimulate
    \/ Steps
    \/ CallEnds
    \/ Interrupt
    \/ Kill

Spec == Init /\ [][Next]_vars

(* Which clients give up on a call by themselves: anthropic's and openai's    *)
(* after ten minutes, which is their default; google's has none, and none is *)
(* set.                                                                      *)
TimesOut(g) == Provider[g] # "google"
FairSpec == Spec /\ WF_vars(Steps) /\ WF_vars(CallEnds /\ TimesOut(proc.at[1]))

-----------------------------------------------------------------------------
Entry == [requested : Nat, succeeded : Nat \cup {-1}, failed : Nat, tokens : Nat]
Lines(lines) == \A i \in DOMAIN lines : lines[i].id \in Ids

(* Types of the variables.                                                   *)
TypeOK ==
    /\ tool \in Tools
    /\ Lines(folder.lines) /\ folder.torn \in BOOLEAN
    /\ folder.report \in [Generators -> Entry]
    /\ proc.on \in BOOLEAN /\ proc.phase \in {"next", "calling", "empty", "holding", "written", "billing"}
    /\ proc.attempt \in 0..MaxAttempts /\ proc.streak \in 0..MaxStreak
    /\ \A i \in DOMAIN proc.todo : proc.todo[i] \in Ids
    /\ Lines(proc.buffer) /\ proc.report \in [Generators -> Entry]
    /\ genuine \subseteq Sources
    /\ bill \in [runs : Nat, spent : [Generators -> Nat], dropped : [Generators -> Nat],
                 cuts : [Generators -> Nat], bought : Nat, lost : Nat, stops : Nat, kills : Nat]

(* An answer is paid for once, over all the runs of a folder: everything     *)
(* bought is a line of its own, or is in the running process, or was lost    *)
(* when a process was stopped; and a stop loses a harness run the answer in  *)
(* its hand at most ("a killed run keeps every answer it paid for").         *)
PaidOnce ==
    LET kept == IdsOf(folder.lines) \cup IdsOf(proc.buffer)
        held == IF proc.phase = "holding" THEN 1 ELSE 0
    IN  /\ bill.bought = Cardinality(kept) + held + bill.lost
        /\ Len(folder.lines) + Len(proc.buffer) = Cardinality(kept)
        /\ tool = "generate" => bill.lost <= bill.stops

(* The report in a harness folder claims no record and no charge that there   *)
(* was not.  If no run was killed it is one record of a generator short at    *)
(* most; and short of nothing, of records and of all that was charged, empty  *)
(* answers and earlier runs included and whichever generators later runs      *)
(* name, unless an interrupt fell between a line and its count (cuts) or      *)
(* between an answer and the count of its tokens (dropped).                   *)
ReportAddsUp ==
    tool = "generate" /\ ~proc.on =>
        \A g \in Generators :
            LET entry == folder.report[g] n == RecordsOf(g, folder.lines)
            IN  /\ entry.succeeded <= n /\ entry.tokens <= bill.spent[g]
                /\ bill.kills = 0 => n <= entry.succeeded + 1
                /\ bill.kills = 0 /\ bill.cuts[g] = 0 =>
                      /\ entry.succeeded = n \/ (entry.succeeded = -1 /\ n = 0)
                      /\ entry.tokens + bill.dropped[g] = bill.spent[g]

(* A harness folder holds answers of one prompt and course only, so it can   *)
(* become one corpus source.  A simulated edit's draws depend on its place   *)
(* in the selection alone: a resumed run gives every answer the edit types   *)
(* the first attempt gave it.                                                *)
MadeAsPlanned ==
    /\ tool = "generate" =>
        \A i, j \in DOMAIN folder.lines : folder.lines[i].how = folder.lines[j].how
    /\ tool = "simulate" =>
        \A i \in DOMAIN folder.lines :
            LET source == folder.lines[i].id[2] how == folder.lines[i].how IN
            how[1] = Cardinality({s \in Selected(how[2]) : s <= source})

(* Every run comes to an end, unless it is left waiting for a call that has   *)
(* no time limit: retries are counted, a generator that only fails is         *)
(* abandoned, and nothing is asked for twice.                                 *)
Waiting == proc.phase = "calling" /\ ~TimesOut(proc.at[1])
RunEnds == (proc.on ~> ~proc.on) \/ <>[]Waiting

(* "A crash mid-run must not lose the bookkeeping for paid calls"             *)
(* (harness/generate.py): what an interrupted run was charged is in its       *)
(* report.  It is not so between an answer and its count, and a count of      *)
(* lines that is one short is made anew without the empty answers.            *)
NothingIsUncounted ==
    tool = "generate" /\ ~proc.on /\ bill.kills = 0 =>
        \A g \in Generators : folder.report[g].tokens = bill.spent[g]

(* A run stopped in any way can be taken up again: "a rerun into the same    *)
(* folder skips paid work instead of repeating it".                          *)
CanBeTakenUp == ~proc.on => Readable

=============================================================================

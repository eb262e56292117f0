-------------------------------- MODULE Edits --------------------------------
(* The human-edited and the paraphrased answers, around the paid runs of      *)
(* Generation: human_edit/assign.py hands answers to people on sheets,        *)
(* collect.py reads the sheets that come back, simulate.py (Generation) lets  *)
(* a model edit other answers, build.py joins both; paraphrase/filter.py      *)
(* sorts what paraphrase/generate.py has made.  The tools are run by hand, in *)
(* any order, also while a paid run is going on.                              *)
EXTENDS Generation, SequencesExt

CONSTANTS
    Deals,      \* configurations of assign: [editors, each]
    Queues,     \* the shuffled groups answers are taken from in turn
    Unmoved,    \* answers that the model gives back as they were
    Passing,    \* threshold setting -> the answers whose paraphrase passes it
    MaxAssigns, MaxFilters  \* bounds

VARIABLES
    sheets,     \* what assign wrote, what came back
    sets        \* human_edited.jsonl and the three files of the filter
editVars == <<sheets, sets>>
allVars == <<vars, editVars>>

Editors == UNION {{d.editors[i] : i \in DOMAIN d.editors} : d \in {Deals[k] : k \in DOMAIN Deals}}

-----------------------------------------------------------------------------
(* pick_for_editors: answers are taken from the groups in turn until there    *)
(* are enough, and dealt out group by group.  A result is a function from     *)
(* editors to sets of answers; nobody gets any when there are too few.        *)
Rounds == FoldLeft(LAMBDA most, q : IF Len(q) > most THEN Len(q) ELSE most, 0, Queues)
InTurn ==
    SelectSeq([k \in 1..(Rounds * Len(Queues)) |->
                  <<((k - 1) % Len(Queues)) + 1, ((k - 1) \div Len(Queues)) + 1>>],
              LAMBDA x : x[2] <= Len(Queues[x[1]]))
PickForEditors(deal) ==
    LET needed == Len(deal.editors) * deal.each
        picked == SubSeq(InTurn, 1, needed)
        byGroup == SortSeq(picked, LAMBDA x, y : x[1] < y[1] \/ (x[1] = y[1] /\ x[2] < y[2]))
        of(i) == {Queues[byGroup[k][1]][byGroup[k][2]] : k \in {k \in DOMAIN byGroup : (k - i) % Len(deal.editors) = 0}}
    IN  [e \in Editors |-> UNION {of(i) : i \in {i \in DOMAIN deal.editors : deal.editors[i] = e /\ needed <= Len(InTurn)}}]

Dealt(k) == IF k = 0 THEN [e \in Editors |-> {}] ELSE PickForEditors(Deals[k])
EnoughAnswers(k) == Len(Deals[k].editors) * Deals[k].each <= Len(InTurn)
HasSheet(k, e) == \E i \in DOMAIN Deals[k].editors : Deals[k].editors[i] = e

(* write_sheets: a sheet for each editor, then the manifest that says whose a *)
(* row is; it may die in between.                                             *)
Assign(k, dies) ==
    /\ tool = "simulate" /\ sheets.assigns < MaxAssigns
    /\ EnoughAnswers(k)
    /\ sheets' = [sheets EXCEPT !.assigns = @ + 1,
                                !.written = [e \in Editors |-> IF HasSheet(k, e) THEN k ELSE @[e]],
                                !.manifest = IF dies THEN @ ELSE k]
    /\ UNCHANGED <<vars, sets>>

(* An editor sends the sheet back (bound: once), with some rows changed.      *)
Return(e, changed) ==
    /\ tool = "simulate" /\ sheets.written[e] # 0
    /\ changed \subseteq Dealt(sheets.written[e])[e]
    /\ sheets.back[e].of # sheets.written[e]
    /\ sheets' = [sheets EXCEPT !.back[e] = [of |-> sheets.written[e], changed |-> changed]]
    /\ UNCHANGED <<vars, sets>>

(* collect reads the sheets of the editors configured now.  One row that is   *)
(* not in the manifest, or is somebody else's there, refuses all; an          *)
(* unchanged row is dropped.  genuine.jsonl is written anew.                  *)
Rows(e) == Dealt(sheets.back[e].of)[e]
Acceptable(e) == Rows(e) \subseteq Dealt(sheets.manifest)[e]
Collect(k) ==
    LET returned == {e \in Editors : HasSheet(k, e) /\ sheets.back[e].of # 0}
    IN  /\ tool = "simulate" /\ sheets.manifest # 0
        /\ returned # {} /\ \A e \in returned : Acceptable(e)
        /\ genuine' = UNION {sheets.back[e].changed : e \in returned}
        /\ UNCHANGED <<tool, folder, proc, bill, editVars>>

-----------------------------------------------------------------------------
(* What a reader of the folder sees while a run is going on: Python writes    *)
(* its buffer out when it likes; half a line stops the reader.                *)
Visible == {folder.lines \o SubSeq(proc.buffer, 1, k) : k \in 0..Len(proc.buffer)}

(* build: a source edited by hand and by the model stops it; what the model   *)
(* left as it was is dropped.                                                 *)
BothKinds_Slip(lines) == FALSE
BothKinds(lines) == \E i \in DOMAIN lines : lines[i].id[2] \in genuine
Build(lines) ==
    /\ tool = "simulate" /\ Readable
    /\ ~BothKinds(lines)
    /\ sets' = [sets EXCEPT !.edited =
                    {<<s, "genuine", 1>> : s \in genuine} \cup
                    {<<lines[i].id[2], "simulated", i>> : i \in {i \in DOMAIN lines : lines[i].id[2] \notin Unmoved}}]
    /\ UNCHANGED <<vars, sheets>>

(* filter: every candidate is scored and kept or excluded under the settings  *)
(* of the moment; three files are written one after another.                  *)
ExclusionReason(id, setting) == id[2] \notin Passing[setting]
RunFilter(lines, setting, files) ==
    LET n == sets.filters + 1
        passed == {i \in DOMAIN lines : ~ExclusionReason(lines[i].id, setting)}
        file(k, ids, old) == IF k <= files THEN [run |-> n, ids |-> ids] ELSE old
    IN  /\ tool = "paraphrase" /\ Readable /\ lines # <<>> /\ sets.filters < MaxFilters
        /\ sets' = [sets EXCEPT !.filters = n,
                        !.kept = file(1, {<<lines[i].id, i>> : i \in passed}, @),
                        !.excluded = file(2, {<<lines[i].id, i>> : i \in DOMAIN lines \ passed}, @),
                        !.report = file(3, {<<lines[i].id, i>> : i \in passed}, @)]
        /\ UNCHANGED <<vars, sheets>>

-----------------------------------------------------------------------------
NoFile == [run |-> 0, ids |-> {}]
EditsInit ==
    /\ Init
    /\ sheets = [written |-> [e \in Editors |-> 0], manifest |-> 0, assigns |-> 0,
                 back |-> [e \in Editors |-> [of |-> 0, changed |-> {}]]]
    /\ sets = [edited |-> {}, kept |-> NoFile, excluded |-> NoFile, report |-> NoFile, filters |-> 0]

EditsNext ==
    \/ Next /\ UNCHANGED editVars
    \/ \E k \in DOMAIN Deals, dies \in BOOLEAN : Assign(k, dies)
    \/ \E e \in Editors : \E changed \in SUBSET Dealt(sheets.written[e])[e] : Return(e, changed)
    \/ \E k \in DOMAIN Deals : Collect(k)
    \/ \E lines \in Visible : Build(lines)
    \/ \E lines \in Visible, setting \in DOMAIN Passing, files \in 1..3 : RunFilter(lines, setting, files)

EditsSpec == EditsInit /\ [][EditsNext]_allVars
FairEditsSpec ==
    /\ EditsSpec
    /\ WF_allVars(Steps /\ UNCHANGED editVars)
    /\ WF_allVars(CallEnds /\ TimesOut(proc.at[1]) /\ UNCHANGED editVars)

(* Whatever the tools were run on and whenever they died: the edited set      *)
(* holds an answer once, edited by a person or by the model ("so one source   *)
(* never carries both", human_edit/simulate.py); the kept paraphrases hold    *)
(* each once, none of which the same run of the filter excluded; the excluded *)
(* and the report are never of a later run than the kept, which are written   *)
(* first; and a report of the run that wrote the kept is about them.          *)
EachAnswerOnce ==
    /\ \A x, y \in sets.edited : x[1] = y[1] => x = y
    /\ \A x, y \in sets.kept.ids : x[1] = y[1] => x = y
    /\ sets.kept.run = sets.excluded.run =>
        {x[1] : x \in sets.kept.ids} \cap {x[1] : x \in sets.excluded.ids} = {}
    /\ sets.report.run <= sets.excluded.run /\ sets.excluded.run <= sets.kept.run
    /\ sets.report.run = sets.kept.run => sets.report.ids = sets.kept.ids
=============================================================================

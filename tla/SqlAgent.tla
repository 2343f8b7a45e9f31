------------------------------ MODULE SqlAgent ------------------------------
(***************************************************************************)
(* agents/sql_agent: the graph that answers one question with SQL.  Its    *)
(* retrieval part (agentic_rag.py) grades what it finds and rewrites the   *)
(* query until the evidence suffices or the rounds are used up; its        *)
(* generation part (sql_generator.py, parallel_generator.py) writes SQL,   *)
(* runs it and repairs it a bounded number of times.  Answers feed the     *)
(* experience store (experience_store.py), which outlives the turn.        *)
(*                                                                         *)
(* A node of the graph is an action.  Model answers, retrieval and the     *)
(* database are nondeterministic; scores are in tenths.                    *)
(***************************************************************************)
EXTENDS Integers, Sequences, FiniteSets, FiniteSetsExt

CONSTANTS Question,       \* normalised questions
          MaxRewrite,     \* rag_max_rewrite_rounds
          MaxRepair,      \* sql_max_repair_rounds
          CorrectAt, AmbiguousAt,   \* crag_correct_threshold, crag_ambiguous_threshold
          MemorySize,     \* MAX_MEMORY_SIZE
          MaxHits, MaxTurns

VARIABLES node,     \* the node that runs next, or how the turn ended
          turn,     \* the state of the two sub-graphs
          memory,   \* _success_memories: hit_count and created_at by question and tables
          repairs,  \* _repair_pairs: how many have been recorded
          turns     \* how many questions were asked

agentVars == <<node, turn, memory, repairs, turns>>

Over == {"answered", "fallback", "failed"}
Score == {0, 5, 10}
TopK == 3

\* _DEEP_* and _FAST_* thresholds: the signals of a question and its path.
Signals == [entities : {1, 2, 4}, comparison : BOOLEAN, temporal : BOOLEAN,
            computation : BOOLEAN, tables : BOOLEAN, predicates : {1, 2, 3},
            length : {39, 79, 80}]

AdaptiveRoute(s) ==
    IF \/ s.entities >= 4 \/ s.tables \/ s.predicates >= 3
       \/ s.comparison /\ s.temporal
       \/ s.length >= 80 /\ s.computation
    THEN "deep"
    ELSE IF s.entities <= 1 /\ ~s.comparison /\ ~s.computation /\ ~s.tables
            /\ s.predicates <= 1 /\ s.length < 40
    THEN "fast" ELSE "standard"

Paths == {AdaptiveRoute(s) : s \in Signals}

\* A statement is known by where it came from: 0 is none, 1 .. 3 the strategy
\* that wrote it, 3 + n the n-th repair.  explored tells whether there is an
\* ExplorationResult, with that many tables and hints longer than 200.
Fresh == [question |-> "none", rewrites |-> 0, explored |-> FALSE, tables |-> 0,
          hints |-> FALSE, candidates |-> <<>>, sql |-> 0, result |-> 0,
          error |-> FALSE, repairs |-> 0]

SqlAgentInit ==
    /\ node = "answered" /\ turn = Fresh
    /\ memory = <<>> /\ repairs = 0 /\ turns = 0

\* search_similar_queries: every memory returned counts a hit (saturating).
Hit(m, found) ==
    [q \in DOMAIN m |-> IF q \in found /\ m[q].hits < MaxHits
                        THEN [m[q] EXCEPT !.hits = @ + 1] ELSE m[q]]
Similar == {found \in SUBSET DOMAIN memory : Cardinality(found) <= TopK}

\* A question arrives.  With retrieval enabled route_node looks for the closest
\* memory and, when there is one, for TopK of them; the complexity of the
\* question then decides the path.  Without retrieval the generator starts.
Ask(q) ==
    /\ node \in Over /\ turns < MaxTurns
    /\ turns' = turns + 1 /\ turn' = [Fresh EXCEPT !.question = q]
    /\ \/ node' = "hypothesis" /\ UNCHANGED memory
       \/ \E found \in Similar, path \in Paths :
            /\ \/ found = {} /\ UNCHANGED memory
               \/ \E closest \in found : memory' = Hit(Hit(memory, {closest}), found)
            /\ node' = IF path = "fast" THEN "fast_finalize" ELSE "inject"
    /\ UNCHANGED repairs

\* An ExplorationResult as the model fills it in, or the empty one of an
\* answer that could not be parsed.
Explored(t) ==
    {[t EXCEPT !.explored = TRUE, !.tables = n, !.hints = long] :
        n \in 0 .. 2, long \in BOOLEAN}

\* fast_finalize: one retrieval, straight to the structured result.
FastFinalize ==
    /\ node = "fast_finalize" /\ node' = "hypothesis"
    /\ turn' \in Explored(turn)
    /\ UNCHANGED <<memory, repairs, turns>>

\* inject and re_retrieve: both retrievers are queried at once.
Retrieve ==
    /\ node \in {"inject", "re_retrieve"} /\ node' = "grade"
    /\ UNCHANGED <<turn, memory, repairs, turns>>

\* agentic_rag_node_wrapper: an exception in a retriever, or in getting a model,
\* drops all that the sub-graph found; the generator goes on without it.
RagFails ==
    /\ node \in {"fast_finalize", "inject", "re_retrieve", "grade", "rewrite", "finalize"}
    /\ node' = "hypothesis"
    /\ turn' = [Fresh EXCEPT !.question = turn.question]
    /\ UNCHANGED <<memory, repairs, turns>>

Total(scores) == FoldSet(LAMBDA i, t : t + scores[i], 0, DOMAIN scores)
\* The average of no scores is 0.0.
AtLeast(scores, threshold) ==
    Total(scores) >= threshold * (IF scores = <<>> THEN 1 ELSE Len(scores))
Tier(scores) ==
    CASE AtLeast(scores, CorrectAt) -> "correct"
      [] AtLeast(scores, AmbiguousAt) -> "ambiguous"
      [] OTHER -> "incorrect"

\* Mutant: a query that was rewritten is graded again without counting.
AfterGradeLoose(tier, rewrites) ==
    CASE tier = "correct" -> "finalize"
      [] tier = "ambiguous" -> "refine"
      [] OTHER -> "rewrite"

\* after_grade_router
AfterGrade(tier, rewrites) ==
    CASE tier = "correct" -> "finalize"
      [] tier = "ambiguous" -> "refine"
      [] rewrites < MaxRewrite -> "rewrite"
      [] OTHER -> "degrade"

\* grade: the model scores the evidence; without evidence the tier is incorrect,
\* and an unusable answer counts as no scores.
Grade ==
    /\ node = "grade"
    /\ \/ node' = AfterGrade("incorrect", turn.rewrites)
       \/ \E scores \in {<<>>} \cup [1 .. 1 -> Score] \cup [1 .. 2 -> Score] :
            node' = AfterGrade(Tier(scores), turn.rewrites)
    /\ UNCHANGED <<turn, memory, repairs, turns>>

\* rewrite: a failed rewriting counts as a round as well.
Rewrite ==
    /\ node = "rewrite" /\ node' = "re_retrieve"
    /\ turn' = [turn EXCEPT !.rewrites = IF @ <= MaxRewrite THEN @ + 1 ELSE @]
    /\ UNCHANGED <<memory, repairs, turns>>

\* refine: weak evidence is pruned and related tables are added to the messages,
\* which only the model reads.
Refine ==
    /\ node = "refine" /\ node' = "finalize"
    /\ UNCHANGED <<turn, memory, repairs, turns>>

Degrade ==
    /\ node = "degrade" /\ node' = "finalize"
    /\ turn' = [turn EXCEPT !.explored = TRUE]
    /\ UNCHANGED <<memory, repairs, turns>>

\* finalize keeps a result that is there already, the degraded one included.
Finalize ==
    /\ node = "finalize" /\ node' = "hypothesis"
    /\ IF turn.explored THEN UNCHANGED turn ELSE turn' \in Explored(turn)
    /\ UNCHANGED <<memory, repairs, turns>>

\* hypothesis: candidate tables are probed; two tables, a warning or long hints
\* lead to parallel generation.
Hypothesis ==
    /\ node = "hypothesis"
    /\ \E warned \in (IF turn.tables = 0 THEN {FALSE} ELSE BOOLEAN) :
        node' = IF turn.tables >= 2 \/ warned \/ turn.hints
                THEN "generate_parallel" ELSE "generate"
    /\ UNCHANGED <<turn, memory, repairs, turns>>

\* generate: one completion, with similar experience in the prompt.
Generate ==
    /\ node = "generate" /\ node' = "execute"
    /\ \E found \in Similar, sql \in {0, 1} :
        /\ memory' = Hit(memory, found)
        /\ turn' = [turn EXCEPT !.sql = sql]
    /\ UNCHANGED <<repairs, turns>>

\* _tournament_select: among the candidates that ran, the first of the largest
\* group with one result; when none ran, the first that was written.
Votes(cs, i) == Cardinality({j \in DOMAIN cs : cs[j].ok /\ cs[j].hash = cs[i].hash})
Ran(cs) == {i \in DOMAIN cs : cs[i].ok}

\* Mutant: the first candidate that ran wins.
WinnerFirst(cs) == IF Ran(cs) = {} THEN 1 ELSE Min(Ran(cs))

Winner(cs) ==
    IF Ran(cs) = {} THEN 1
    ELSE Min({i \in Ran(cs) : \A j \in Ran(cs) : Votes(cs, j) <= Votes(cs, i)})

\* generate_parallel: two strategies, or three with experience, of which some
\* write nothing; a winner that ran is formatted without running it again.
GenerateParallel ==
    /\ node = "generate_parallel"
    /\ \E found \in Similar :
        /\ memory' = Hit(memory, found)
        /\ \/ node' = "fallback" /\ UNCHANGED turn
           \/ \E n \in 1 .. (IF found = {} THEN 2 ELSE 3) :
              \E cs \in [1 .. n -> [ok : BOOLEAN, hash : {"h1", "h2"}]] :
                LET w == Winner(cs)
                IN /\ turn' = [turn EXCEPT !.candidates = cs, !.sql = w,
                                           !.result = IF cs[w].ok THEN w ELSE @]
                   /\ node' = IF cs[w].ok THEN "format" ELSE "execute"
    /\ UNCHANGED <<repairs, turns>>

\* after_execute_router
AfterExecute(ok, n) ==
    IF ok THEN "format" ELSE IF n < MaxRepair THEN "diagnose_repair" ELSE "fallback"

\* execute
Execute ==
    /\ node = "execute"
    /\ \E ok \in (IF turn.sql = 0 THEN {FALSE} ELSE BOOLEAN) :
        /\ turn' = [turn EXCEPT !.result = IF ok THEN turn.sql ELSE 0, !.error = ~ok]
        /\ node' = AfterExecute(ok, turn.repairs)
    /\ UNCHANGED <<memory, repairs, turns>>

\* diagnose_repair (the count saturates past its limit)
DiagnoseAndRepair ==
    /\ node = "diagnose_repair" /\ node' = "execute"
    /\ \E written \in BOOLEAN :
        turn' = [turn EXCEPT !.sql = IF written THEN 4 + turn.repairs ELSE 0,
                             !.repairs = IF @ <= MaxRepair THEN @ + 1 ELSE @]
    /\ UNCHANGED <<memory, repairs, turns>>

\* record_success and _evict_if_needed: the least used memory goes, the oldest
\* of them first; the new one has no hits yet.
Evict(m) ==
    IF Cardinality(DOMAIN m) <= MemorySize THEN m
    ELSE LET worst == CHOOSE q \in DOMAIN m : \A r \in DOMAIN m \ {q} :
                          \/ m[q].hits < m[r].hits
                          \/ m[q].hits = m[r].hits /\ m[q].created < m[r].created
         IN [q \in DOMAIN m \ {worst} |-> m[q]]

RecordSuccess(m, k) ==
    Evict([r \in DOMAIN m \cup {k} |-> IF r = k THEN [hits |-> 0, created |-> turns] ELSE m[r]])
Key(t) == <<t.question, t.tables>>

\* format: the answer, a success memory, and a repair pair for a turn that was
\* repaired and still has an error.  The state of the graph ends with it.
Format ==
    /\ node = "format" /\ node' = "answered" /\ turn' = Fresh
    /\ memory' = RecordSuccess(memory, Key(turn))
    /\ repairs' = IF turn.repairs > 0 /\ turn.error THEN repairs + 1 ELSE repairs
    /\ UNCHANGED turns

\* _invoke_sql_runnable of the supervisor: its timeout, a slot that cannot be
\* had, or an exception of a model, which the generator never catches, ends the
\* turn with a message.
TurnFails ==
    /\ node \notin Over /\ node' = "failed" /\ turn' = Fresh
    /\ UNCHANGED <<memory, repairs, turns>>

GraphStep ==
    \/ FastFinalize \/ Retrieve \/ RagFails \/ Grade \/ Rewrite \/ Refine \/ Degrade \/ Finalize
    \/ Hypothesis \/ Generate \/ GenerateParallel \/ Execute \/ DiagnoseAndRepair \/ Format

SqlAgentNext == GraphStep \/ TurnFails \/ \E q \in Question : Ask(q)

\* LangGraph keeps running the nodes of a turn that was started.
SqlAgentFairness == WF_agentVars(GraphStep)

\* Every question ends in an answer, a fallback or an error, however the models
\* grade, rewrite and repair: the two loops cannot keep a turn for ever.
TurnsEnd == node \notin Over ~> node \in Over

\* An answer is formatted from the result of the very statement it is recorded
\* with, and a tournament's answer is backed by at least as many candidates as
\* any other result; a turn that gives up has no result to show.
AnswersBacked ==
    /\ node = "format" => turn.sql # 0 /\ turn.result = turn.sql
    /\ node = "format" /\ Ran(turn.candidates) # {} =>
        /\ turn.sql \in Ran(turn.candidates)
        /\ \A i \in Ran(turn.candidates) :
            Votes(turn.candidates, i) <= Votes(turn.candidates, turn.sql)
    /\ node = "fallback" => turn.result = 0

=============================================================================

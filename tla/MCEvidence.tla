----------------------------- MODULE MCEvidence -----------------------------
(***************************************************************************)
(* Model-checking instance of what an answer rests on: the definitions     *)
(* that are published, the approved schema snapshot, a calculation over    *)
(* published facts, and the evidence of the answer.  They share no         *)
(* variable, so one behaviour exercises one of them, chosen in the initial *)
(* state.                                                                  *)
(***************************************************************************)
EXTENDS MCDefinitions, SchemaSnapshots, CalculationRun, AnswerEvidence

VARIABLE subject

mcEvidenceVars == <<subject, vars, snapshotVars, runVars, evidenceVars>>

-----------------------------------------------------------------------------
(* Snapshots: a relation f that refers to one in its schema and to one     *)
(* outside it; statistics change, a column goes, a relation goes.          *)

Fct == <<"s", "f">>
Dim == <<"s", "d">>
Ext == <<"t", "x">>
Relation(columns) ==
    [columns |-> columns, layout |-> 1, rows |-> 1, foreign |-> {}, parent |-> NoRelation]
Key(target) == [name |-> 1, target |-> target]
Wide ==
    [Relation(<<"text", "integer", "other">>) EXCEPT !.foreign = {Key(Dim), Key(Ext)}, !.parent = Ext]
Database(f) == (Fct :> f) @@ (Dim :> Relation(<<"text">>)) @@ (Ext :> Relation(<<"text">>))
MCCatalogs ==
    {Database(Wide), Database([Wide EXCEPT !.rows = 2]),
     Database([Wide EXCEPT !.columns = <<"text", "other">>]),
     (Fct :> Wide) @@ (Ext :> Relation(<<"text">>))}

Covers(level, field, type) == [level |-> level, field |-> field, type |-> type]
City == Covers("city_company", NoColumn, "none")
Area == Covers("area", 1, "text")
Team == Covers("team", 2, "integer")
Policy(coverage) ==
    [sensitivity |-> "internal", sensitive |-> {1}, freshness |-> 60, coverage |-> coverage]
Arguments(policy) ==
    [source |-> "src", schemas |-> {"s"}, relations |-> {}, policies |-> (<<"f">> :> policy),
     named |-> FALSE, policyFileReads |-> TRUE]
Usual == Arguments(Policy(<<Team, City, Area>>))
Narrower == Arguments(Policy(<<City, Area>>))
MCRunArguments ==
    {Usual, Narrower, [Usual EXCEPT !.named = TRUE],
     Arguments(Policy(<<City, Area, Covers("team", 1, "text")>>)),
     Arguments([Policy(<<>>) EXCEPT !.sensitive = {3}]),
     [Arguments(Policy(<<Area>>)) EXCEPT !.relations = {<<"f">>, Dim}],
     [Usual EXCEPT !.schemas = {"s", "t"}, !.policies = Fct :> Policy(<<>>)],
     [Usual EXCEPT !.policyFileReads = FALSE]}

\* Snapshots of the format without coverage.
OldRelation(relation, policy) ==
    [columns |-> relation.columns, layout |-> 1, rows |-> 1, foreign |-> relation.foreign \ {Key(Ext)},
     parent |-> NoRelation, sensitivity |-> policy.sensitivity, sensitive |-> policy.sensitive,
     freshness |-> policy.freshness, coverage |-> <<>>]
Old ==
    [source |-> "src", schemas |-> {"s"}, parser |-> CurrentParser, format |-> Legacy,
     relations |-> (Fct :> OldRelation(Wide, Policy(<<>>))) @@ (Dim :> OldRelation(Relation(<<"text">>), NoPolicy))]
RowOf(candidate, state) ==
    Payload(candidate) :> [state |-> state,
        report |-> [ok |-> TRUE, of |-> Payload(candidate), structure |-> SchemaChecksum(candidate), count |-> 2]]
MCStored ==
    {<<>>, RowOf(Old, "validated"), RowOf(Old, "retired"), RowOf([Old EXCEPT !.parser = "older"], "validated")}

-----------------------------------------------------------------------------
(* Calculations: nine expressions under every rounding, parameters of each *)
(* type, and specifications that the validation refuses.                   *)

Lit(n) == [op |-> "literal", value |-> <<n, 1>>]
Input(r) == [op |-> "input", role |-> r]
Bin(o, a, b) == [op |-> o, left |-> a, right |-> b]
NullLit == [op |-> "null"]
Parameter == [op |-> "parameter", name |-> "p"]
Branch(c, t) == [condition |-> c, then |-> t]
Case(c, t, e) == [op |-> "case", whens |-> <<Branch(c, t)>>, otherwise |-> e]
Join(o, cs) == [op |-> o, conditions |-> cs]
Ratio == Bin("divide", Input("a"), Input("b"))
Guarded == Case(Bin("gt", Input("b"), Lit(0)), Ratio, <<>>)
Over == Bin("gt", Ratio, Lit(1))
Uncertain == Bin("le", NullLit, Lit(0))
Expressions ==
    <<Ratio,
      Bin("subtract", Guarded, Parameter),
      [op |-> "coalesce", operand |-> Guarded, default |-> Lit(0)],
      Case(Join("all", <<Uncertain, Bin("gt", Input("b"), Lit(0)), Over>>), Lit(1), <<NullLit>>),
      Case(Join("any", <<Uncertain, Bin("le", Input("a"), Input("b")), Over>>), Lit(1), <<Lit(0)>>),
      Join("all", <<[op |-> "is_not_null", operand |-> Guarded], Bin("gt", Parameter, Lit(1))>>),
      [op |-> "round", operand |-> Bin("multiply", Ratio, Lit(-1)), digits |-> 1],
      Bin("add", [op |-> "aggregate", role |-> "a"], Input("b")),
      Join("any", <<[op |-> "is_null", operand |-> Guarded], Uncertain>>)>>
Needs(r, m, p) == [role |-> r, metric |-> m, provenance |-> p]
Gold == <<Needs("a", "m1", "published_gold"), Needs("b", "m1", "published_gold")>>
ParamSpec(t, needed, allowed) == [p |-> [type |-> t, required |-> needed, allowed |-> allowed]]
SpecOf(i, e, inputs, pars, prec, mode) ==
    [id |-> i, expression |-> e, inputs |-> inputs, parameters |-> pars, precision |-> prec, rounding |-> mode]
Modes == <<"none", "half_even", "half_down", "floor", "ceil", "half_up">>
Decimal == ParamSpec("decimal", TRUE, {})
TooDeep == Join("all", <<Bin("gt", Bin("add", Bin("add", Ratio, Ratio), Ratio), Lit(0))>>)
MCDrafts ==
    {SpecOf(10 * i + m, Expressions[i], Gold, Decimal, 1, Modes[m]) : i \in 1..9, m \in 1..6}
    \cup {SpecOf(100 + i, Expressions[i], Gold, ParamSpec("string", FALSE, {<<2, 1>>}), -1, "none") : i \in {2, 6}}
    \cup {SpecOf(110 + i, Expressions[i], Gold, ParamSpec("boolean", FALSE, {}), -1, "none") : i \in {2, 6}}
    \cup {SpecOf(121, Ratio, <<Gold[1], Needs("b", "m2", "published_gold")>>, Decimal, -1, "none"),
          SpecOf(122, Ratio, <<Gold[1], Needs("b", "none", "ad_hoc_metric")>>, Decimal, -1, "none"),
          SpecOf(123, Ratio, <<Gold[1], Needs("b", "none", "published_gold")>>, Decimal, -1, "none"),
          SpecOf(124, Ratio, Gold, Decimal, -1, "floor"),
          SpecOf(125, TooDeep, Gold, Decimal, -1, "none"),
          SpecOf(126, Ratio, <<Gold[1]>>, Decimal, -1, "none")}
MCEdits == {SpecOf(11, Expressions[1], Gold, Decimal, 1, "none")}
Scalar(k, n) == [kind |-> k, num |-> n]
MCBindings ==
    {[spec |-> n, values |-> v] :
        n \in {0} \cup {d.id : d \in MCDrafts},
        v \in {[x \in {} |-> 0], [q |-> Scalar("int", <<1, 1>>)]}
              \cup {[p |-> Scalar(k, <<2, 1>>)] : k \in {"int", "bool", "float", "str"}}}
Dated(v, d) == [value |-> v, asOf |-> d]
Readings ==
    {Scalar("int", <<0, 1>>), Scalar("int", <<3, 1>>), Scalar("str", <<25, 4>>), Scalar("float", <<1, 2>>),
     Scalar("str", NaN)}
MCPublished ==
    {[m \in {"m1", "m2"} |-> <<Dated(x, 1), Dated(y, d)>>] :
        x \in {Scalar("int", <<3, 1>>), Scalar("float", <<1, 2>>)}, y \in Readings, d \in {0, 2}}
MCAdHoc == [{"a", "b"} -> Readings \cup {Scalar("bool", <<1, 1>>)}]

-----------------------------------------------------------------------------
(* Evidence: one metric, two, a calculation, and an ad hoc calculation     *)
(* next to its own input asked for by name.                                *)

PlanStep(id, kind, key, role) == [id |-> id, kind |-> kind, key |-> key, role |-> role]
Fetches(id, metric) == PlanStep(id, "fetch", metric, "none")
MCPlans ==
    {<<Fetches("s1", "m1"), PlanStep("s2", "verify", "none", "none")>>,
     <<Fetches("s1", "m1"), Fetches("s2", "m2")>>,
     <<PlanStep("s1", "fetch", "m1", "num"), PlanStep("s2", "fetch", "m2", "den"),
       PlanStep("s3", "calculation", "m3", "none")>>,
     <<PlanStep("s1", "fetch", "m1", "a"), PlanStep("s2", "adhoc", "d1", "none")>>,
     <<Fetches("s1", "m1"), PlanStep("s2", "fetch", "m1", "a"), PlanStep("s3", "adhoc", "d1", "none")>>}
MCReceipts ==
    {[asOf |-> 1, fresh |-> "fresh", degraded |-> {}, source |-> 1],
     [asOf |-> 2, fresh |-> "stale", degraded |-> {"lag"}, source |-> 2],
     [asOf |-> 0, fresh |-> "unknown", degraded |-> {}, source |-> 1]}
MCDay(d) == 10 + d

-----------------------------------------------------------------------------
\* The parts that a behaviour leaves alone start in one state.
DefinitionsIdle == draft = [version |-> 1, content |-> CHOOSE c \in Content : TRUE, closed |-> FALSE]
SnapshotsIdle == catalog = Database(Wide) /\ snapshots = <<>>
CalculationIdle ==
    /\ stored = CHOOSE d \in MCDrafts : SpecValid(d)
    /\ world = CHOOSE w \in MCPublished : TRUE
    /\ call = [phase |-> "asked", date |-> 0, binding |-> CHOOSE b \in MCBindings : TRUE,
               spec |-> NoSpec, got |-> <<>>, result |-> NoResult]
EvidenceIdle == steps = (CHOOSE p \in MCPlans : TRUE) /\ intent = "metric"

\* A binding is made for the calculation it comes with or for none of these;
\* an ad hoc calculation neither names a day nor reads the published facts.
\* Parameters of other types than int meet one choice of those facts.
IntParameter == [p |-> Scalar("int", <<2, 1>>)]
CallsOfInterest ==
    /\ call.binding.spec \in {0, stored.id}
    /\ call.phase = "adhoc" => call.date = 0
    /\ call.phase = "adhoc" \/ call.binding.values # IntParameter => world = CHOOSE w \in MCPublished : TRUE

MCEvidenceInit ==
    /\ subject \in {"definitions", "snapshots", "calculation", "evidence"}
    /\ subject = "snapshots" \/ SnapshotsIdle
    /\ SnapshotsInit
    /\ subject = "calculation" \/ CalculationIdle
    /\ RunInit
    /\ subject = "calculation" => CallsOfInterest
    /\ subject = "evidence" \/ EvidenceIdle
    /\ EvidenceInit
    /\ subject = "definitions" \/ DefinitionsIdle
    /\ Init

MCEvidenceNext ==
    /\ UNCHANGED subject
    /\ \/ subject = "definitions" /\ Next /\ UNCHANGED <<snapshotVars, runVars, evidenceVars>>
       \/ subject = "snapshots" /\ SnapshotsNext /\ UNCHANGED <<vars, runVars, evidenceVars>>
       \/ subject = "calculation" /\ RunNext /\ UNCHANGED <<vars, snapshotVars, evidenceVars>>
       \/ subject = "evidence" /\ EvidenceNext /\ UNCHANGED <<vars, snapshotVars, runVars>>

MCEvidenceSpec == MCEvidenceInit /\ [][MCEvidenceNext]_mcEvidenceVars

\* Nothing tells two snapshotters, or two requests, apart.
MCEvidenceSymmetry == Permutations(Snapshotters) \cup RequestSymmetry
=============================================================================

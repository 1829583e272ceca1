----------------------------- MODULE RuleAgents -----------------------------
(***************************************************************************)
(* One decision from the inside: what DecisionRuntime takes as Decide and  *)
(* Voteless.  The two YAML files are checked (core/.../schemas/config.py), *)
(* the agents built (runtime/service.py), and the ScenarioRunner takes two *)
(* steps: in each it asks every agent (runtime/adapters.py, agents/) and   *)
(* hands the proposals to the resolver (runtime/scenario.py).              *)
(*                                                                         *)
(* Numbers are scaled to integers.  A vote is its label: its score and its *)
(* evidence are written down and never read again.  The row has its        *)
(* as_of_date, or service.py would have refused it (DecisionRuntime).      *)
(***************************************************************************)
EXTENDS Integers, Sequences, FiniteSets, FiniteSetsExt

CONSTANTS
    Inputs,      \* what the two YAML files and the feature row may be
    Values,      \* the finite values of a feature, scaled
    FullWeight,  \* 1.0, scaled
    NaN,         \* not finite: NaN or, in a feature, an infinity
    Text,        \* a string where a number belongs
    Null         \* null, a missing key or column, no value yet

Labels == {"up", "down", "skip"}
Sign == [up |-> 1, down |-> -1, skip |-> 0]

RuleAgentIds == {"technical", "domestic_macro", "flow", "valuation", "volatility"}
KnownAgentIds == RuleAgentIds \cup {"decision"}

\* The order in which _build_agents hands them to the runner.
Agents == <<"technical", "domestic_macro", "flow", "valuation", "volatility", "decision">>

InputWhitelist ==
    [technical |-> {"kospi_return_1d", "kospi_return_5d", "kospi_ma5_gap",
                    "kospi_close_position"},
     domestic_macro |-> {"bok_base_rate_change_30d", "usd_krw_return_5d",
                         "kr_bond_yield_change_30d"},
     flow |-> {"foreign_net_buy_krw_5d_sum", "institution_net_buy_krw_5d_sum",
               "individual_net_buy_krw_5d_sum", "foreign_net_buy_5d_pct_of_turnover"},
     valuation |-> {"kospi_per", "kospi_pbr", "kospi_per_percentile_252d",
                    "kospi_pbr_percentile_252d"},
     volatility |-> {"kospi_realized_vol_20d", "kospi_realized_vol_20d_percentile_252d",
                     "kospi_atr_14d"}]

Columns == UNION {InputWhitelist[a] : a \in RuleAgentIds}

ThresholdKeys ==
    [technical |-> {"ma5_gap_up_min", "close_position_up_min", "return_5d_up_min",
                    "ma5_gap_down_max", "close_position_down_max", "return_5d_down_max"},
     domestic_macro |-> {"bok_rate_change_up_max", "usdkrw_return_5d_up_max",
                         "bond_yield_change_30d_up_max", "bok_rate_change_down_min",
                         "usdkrw_return_5d_down_min", "bond_yield_change_30d_down_min",
                         "usdkrw_return_5d_mixed_pos_min", "usdkrw_return_5d_mixed_neg_max",
                         "bond_yield_change_30d_mixed_pos_min",
                         "bond_yield_change_30d_mixed_neg_max"},
     flow |-> {"foreign_pct_up_min", "foreign_pct_down_max", "foreign_pct_neutral_abs_max"},
     valuation |-> {"per_percentile_up_max", "pbr_percentile_up_max",
                    "per_percentile_down_min", "pbr_percentile_down_min",
                    "fair_value_center", "fair_value_half_band"},
     volatility |-> {"realized_vol_20d_up_max", "realized_vol_pct_up_max", "atr_14d_up_max",
                     "realized_vol_pct_down_min", "realized_vol_20d_down_min",
                     "atr_14d_down_min", "realized_vol_pct_mid_low",
                     "realized_vol_pct_mid_high"}]

ASSUME AgentsAssumption ==
    /\ Values \subseteq Int /\ FullWeight \in Nat
    /\ NaN \notin Int /\ Text \notin Int /\ Null \notin Int /\ NaN \notin {Text, Null}
    /\ Null \notin [label : Labels, aggregate_score : Int, votes : [RuleAgentIds -> Labels]]
    /\ \A i \in Inputs : i.features_row \in [Columns -> Values \cup {NaN, Text, Null}]

VARIABLES
    input,            \* the files' contents and the row
    stage,            \* where the runtime is
    config,           \* the AgentsConfig that was loaded
    phase, votes,     \* the segment of the simulation state
    decision_result,
    step_index, asked, proposals   \* the runner: its step, the agents asked in it

segment == <<phase, votes, decision_result>>
runner == <<step_index, asked, proposals>>
vars == <<input, stage, config, segment, runner>>

Stages == {"load", "build", "ask", "resolve", "failed", "decided"}

-----------------------------------------------------------------------------
(* Reading the configuration. *)

Number(x) == x \in Int \/ x = NaN

\* Every comparison with a NaN is false.
AtMost(x, y) == x \in Int /\ y \in Int /\ x <= y
Below(x, y) == x \in Int /\ y \in Int /\ x < y

Total(w) == MapThenSumSet(LAMBDA a : w[a], DOMAIN w)

\* A known rule agent with the version this code expects, and exactly the thresholds of
\* that version, all of them numbers.
\* Mutant of RuleAccepted: the thresholds may be incomplete.
RuleAcceptedPartial(a, rule) ==
    /\ a \in RuleAgentIds
    /\ rule.rule_version = a
    /\ DOMAIN rule.thresholds \subseteq ThresholdKeys[a]
    /\ \A k \in DOMAIN rule.thresholds : Number(rule.thresholds[k])

\* Mutant of RuleAccepted: any version will do.
RuleAcceptedAnyVersion(a, rule) ==
    /\ a \in RuleAgentIds
    /\ DOMAIN rule.thresholds = ThresholdKeys[a]
    /\ \A k \in DOMAIN rule.thresholds : Number(rule.thresholds[k])

\* An expected version is named by its agent, another one by Null.
RuleAccepted(a, rule) ==
    /\ a \in RuleAgentIds
    /\ rule.rule_version = a
    /\ DOMAIN rule.thresholds = ThresholdKeys[a]
    /\ \A k \in DOMAIN rule.thresholds : Number(rule.thresholds[k])

\* The aggregate thresholds are refused when up <= down, which a NaN never is.
AgentsAccepted(p) ==
    /\ DOMAIN p.weights \subseteq RuleAgentIds
    /\ \A a \in DOMAIN p.weights : p.weights[a] \in Int
    /\ Total(p.weights) = FullWeight
    /\ DOMAIN p.weights = DOMAIN p.agents
    /\ Number(p.thresholds.up) /\ Number(p.thresholds.down)
    /\ ~AtMost(p.thresholds.up, p.thresholds.down)
    /\ \A a \in DOMAIN p.agents : RuleAccepted(a, p.agents[a])

ScenarioAccepted(s) ==
    /\ s.horizon = "next_day"
    /\ s.agents \subseteq KnownAgentIds
    /\ \A path \in s.runtime : path # ""

\* _build_agents looks up each of the five; VolatilityAgent checks its version again.
Buildable(p) ==
    /\ RuleAgentIds \subseteq DOMAIN p.agents
    /\ p.agents["volatility"].rule_version = "volatility"

-----------------------------------------------------------------------------
(* The rules; t holds an agent's thresholds, f the feature row. *)

Finite(f, cols) == \A c \in cols : f[c] \in Int

TechnicalUp(t, f) ==
    /\ AtMost(t.ma5_gap_up_min, f.kospi_ma5_gap)
    /\ AtMost(t.close_position_up_min, f.kospi_close_position)
    /\ AtMost(t.return_5d_up_min, f.kospi_return_5d)

TechnicalDown(t, f) ==
    /\ AtMost(f.kospi_ma5_gap, t.ma5_gap_down_max)
    /\ AtMost(f.kospi_close_position, t.close_position_down_max)
    /\ AtMost(f.kospi_return_5d, t.return_5d_down_max)

MacroUp(t, f) ==
    /\ AtMost(f.bok_base_rate_change_30d, t.bok_rate_change_up_max)
    /\ AtMost(f.usd_krw_return_5d, t.usdkrw_return_5d_up_max)
    /\ AtMost(f.kr_bond_yield_change_30d, t.bond_yield_change_30d_up_max)

\* Mutant of MacroDown: a weak won alone is compared with <=.
MacroDownSwapped(t, f) ==
    /\ Finite(f, InputWhitelist["domestic_macro"])
    /\ \/ AtMost(t.bok_rate_change_down_min, f.bok_base_rate_change_30d)
       \/ /\ AtMost(f.usd_krw_return_5d, t.usdkrw_return_5d_down_min)
          /\ AtMost(t.bond_yield_change_30d_down_min, f.kr_bond_yield_change_30d)

MacroDown(t, f) ==
    /\ Finite(f, InputWhitelist["domestic_macro"])
    /\ \/ AtMost(t.bok_rate_change_down_min, f.bok_base_rate_change_30d)
       \/ /\ AtMost(t.usdkrw_return_5d_down_min, f.usd_krw_return_5d)
          /\ AtMost(t.bond_yield_change_30d_down_min, f.kr_bond_yield_change_30d)

FlowUp(t, f) ==
    /\ Below(0, f.foreign_net_buy_krw_5d_sum)
    /\ AtMost(0, f.institution_net_buy_krw_5d_sum)
    /\ AtMost(f.individual_net_buy_krw_5d_sum, 0)
    /\ AtMost(t.foreign_pct_up_min, f.foreign_net_buy_5d_pct_of_turnover)

FlowDown(t, f) ==
    /\ Below(f.foreign_net_buy_krw_5d_sum, 0)
    /\ AtMost(f.institution_net_buy_krw_5d_sum, 0)
    /\ AtMost(0, f.individual_net_buy_krw_5d_sum)
    /\ AtMost(f.foreign_net_buy_5d_pct_of_turnover, t.foreign_pct_down_max)

ValuationUp(t, f) ==
    /\ Below(0, f.kospi_per) /\ Below(0, f.kospi_pbr)
    /\ AtMost(f.kospi_per_percentile_252d, t.per_percentile_up_max)
    /\ AtMost(f.kospi_pbr_percentile_252d, t.pbr_percentile_up_max)

ValuationDown(t, f) ==
    /\ Below(0, f.kospi_per) /\ Below(0, f.kospi_pbr)
    /\ AtMost(t.per_percentile_down_min, f.kospi_per_percentile_252d)
    /\ AtMost(t.pbr_percentile_down_min, f.kospi_pbr_percentile_252d)

VolatilityUp(t, f) ==
    /\ AtMost(f.kospi_realized_vol_20d, t.realized_vol_20d_up_max)
    /\ AtMost(f.kospi_realized_vol_20d_percentile_252d, t.realized_vol_pct_up_max)
    /\ AtMost(f.kospi_atr_14d, t.atr_14d_up_max)

VolatilityDown(t, f) ==
    /\ Finite(f, InputWhitelist["volatility"])
    /\ AtMost(t.realized_vol_pct_down_min, f.kospi_realized_vol_20d_percentile_252d)
    /\ \/ AtMost(t.realized_vol_20d_down_min, f.kospi_realized_vol_20d)
       \/ AtMost(t.atr_14d_down_min, f.kospi_atr_14d)

UpRule(a, t, f) ==
    CASE a = "technical"      -> TechnicalUp(t, f)
      [] a = "domestic_macro" -> MacroUp(t, f)
      [] a = "flow"           -> FlowUp(t, f)
      [] a = "valuation"      -> ValuationUp(t, f)
      [] a = "volatility"     -> VolatilityUp(t, f)

DownRule(a, t, f) ==
    CASE a = "technical"      -> TechnicalDown(t, f)
      [] a = "domestic_macro" -> MacroDown(t, f)
      [] a = "flow"           -> FlowDown(t, f)
      [] a = "valuation"      -> ValuationDown(t, f)
      [] a = "volatility"     -> VolatilityDown(t, f)

\* The up branch comes first; the branches that say skip say what the fallback says.
Vote(a, p, f) ==
    LET t == p.agents[a].thresholds
    IN  IF UpRule(a, t, f) THEN "up" ELSE IF DownRule(a, t, f) THEN "down" ELSE "skip"

\* What an agent or its adapter raises on: technical takes text for no value,
\* volatility takes null for NaN, the others want numbers.
Refused ==
    [technical |-> {Null}, domestic_macro |-> {Null, Text}, flow |-> {Null, Text},
     valuation |-> {Null, Text}, volatility |-> {Text}]

Refuses(a, f) == \E c \in InputWhitelist[a] : f[c] \in Refused[a]

\* The scores of the votes do not count, only their signs.
AggregateScore(w, v) == MapThenSumSet(LAMBDA a : w[a] * Sign[v[a]], DOMAIN v)

\* Mutant of DecisionLabel: a score that only reaches a threshold decides.
DecisionLabelReached(score, thresholds) ==
    IF AtMost(thresholds.up, score) THEN "up"
    ELSE IF AtMost(score, thresholds.down) THEN "down" ELSE "skip"

DecisionLabel(score, thresholds) ==
    IF Below(thresholds.up, score) THEN "up"
    ELSE IF Below(score, thresholds.down) THEN "down" ELSE "skip"

Decision(p, v) ==
    LET score == AggregateScore(p.weights, v)
    IN  [label |-> DecisionLabel(score, p.thresholds), aggregate_score |-> score, votes |-> v]

-----------------------------------------------------------------------------

Init ==
    /\ input \in Inputs
    /\ stage = "load" /\ config = Null
    /\ phase = "vote" /\ votes = Null /\ decision_result = Null
    /\ step_index = 0 /\ asked = 0 /\ proposals = {}

Accepted == ScenarioAccepted(input.scenario) /\ AgentsAccepted(input.agents_yaml)

Load ==
    /\ stage = "load" /\ Accepted
    /\ config' = input.agents_yaml
    /\ stage' = "build"
    /\ UNCHANGED <<input, segment, runner>>

LoadFails ==
    /\ stage = "load" /\ ~Accepted
    /\ stage' = "failed"
    /\ UNCHANGED <<input, config, segment, runner>>

Build ==
    /\ stage = "build" /\ Buildable(config)
    /\ stage' = "ask"
    /\ UNCHANGED <<input, config, segment, runner>>

BuildFails ==
    /\ stage = "build" /\ ~Buildable(config)
    /\ stage' = "failed"
    /\ UNCHANGED <<input, config, segment, runner>>

\* What agent a proposes in the current phase.
Proposed(a) ==
    CASE phase = "vote" /\ a \in RuleAgentIds ->
            {[actor_id |-> a, vote |-> Vote(a, config, input.features_row)]}
      [] phase = "decide" /\ a = "decision" ->
            {[actor_id |-> a, decision_result |-> Decision(config, votes)]}
      [] OTHER -> {}

Raises(a) == phase = "vote" /\ a \in RuleAgentIds /\ Refuses(a, input.features_row)

Ask ==
    /\ stage = "ask" /\ ~Raises(Agents[asked + 1])
    /\ proposals' = proposals \cup Proposed(Agents[asked + 1])
    /\ asked' = asked + 1
    /\ stage' = IF asked' = Len(Agents) THEN "resolve" ELSE "ask"
    /\ UNCHANGED <<input, config, segment, step_index>>

AskFails ==
    /\ stage = "ask" /\ Raises(Agents[asked + 1])
    /\ stage' = "failed"
    /\ UNCHANGED <<input, config, segment, runner>>

VoteOf(a) == (CHOOSE p \in proposals : p.actor_id = a).vote

\* Five votes, one of each agent, and nothing else that decides.
ResolveVotes ==
    /\ stage = "resolve" /\ phase = "vote"
    /\ Cardinality(proposals) = 5 /\ {p.actor_id : p \in proposals} = RuleAgentIds
    /\ votes' = [a \in RuleAgentIds |-> VoteOf(a)]
    /\ phase' = "decide"
    /\ step_index' = step_index + 1 /\ asked' = 0 /\ proposals' = {}
    /\ stage' = "ask"
    /\ UNCHANGED <<input, config, decision_result>>

\* The decision alone; it is the second step, and the runner takes no more than two.
ResolveDecision ==
    /\ stage = "resolve" /\ phase = "decide"
    /\ Cardinality(proposals) = 1
    /\ \E p \in proposals : p.actor_id = "decision" /\ decision_result' = p.decision_result
    /\ phase' = "done"
    /\ step_index' = step_index + 1 /\ asked' = 0 /\ proposals' = {}
    /\ stage' = "decided"
    /\ UNCHANGED <<input, config, votes>>

Next ==
    \/ Load \/ LoadFails \/ Build \/ BuildFails
    \/ Ask \/ AskFails \/ ResolveVotes \/ ResolveDecision

Spec == Init /\ [][Next]_vars

\* The process goes on.
FairSpec == Spec /\ WF_vars(Next)

-----------------------------------------------------------------------------

\* A loaded configuration has exactly the keys of its versions, and the segment
\* moves from five votes to a decision (config.py:278-297, scenario.py:103-158).
TypeOK ==
    /\ stage \in Stages
    /\ config = Null \/ \A a \in DOMAIN config.agents :
            a \in RuleAgentIds /\ DOMAIN config.agents[a].thresholds = ThresholdKeys[a]
    /\ phase \in {"vote", "decide", "done"}
    /\ IF phase = "vote" THEN votes = Null ELSE votes \in [RuleAgentIds -> Labels]
    /\ (phase = "done") = (decision_result # Null)
    /\ (stage = "decided") = (phase = "done")
    /\ step_index \in 0 .. 2 /\ asked \in 0 .. Len(Agents)
    /\ Cardinality(proposals) <= 5

\* The direction in which a feature speaks for a rise; the other columns have none.
HigherIsBullish ==
    {"kospi_return_5d", "kospi_ma5_gap", "kospi_close_position", "foreign_net_buy_krw_5d_sum",
     "institution_net_buy_krw_5d_sum", "foreign_net_buy_5d_pct_of_turnover"}
LowerIsBullish ==
    Columns \ (HigherIsBullish \cup {"kospi_return_1d", "kospi_per", "kospi_pbr"})

MoreBullish(c, old, new) ==
    \/ c \in HigherIsBullish /\ Below(old, new)
    \/ c \in LowerIsBullish /\ Below(new, old)

LabelOn(f) == Decision(config, [a \in RuleAgentIds |-> Vote(a, config, f)]).label

\* Better news never turns a decision for the worse: had one feature of the decided row
\* been more bullish, the label would be no lower, wherever the thresholds lie, even
\* where the up and the down branch of an agent overlap, as long as no weight is
\* negative (technical.py:38-84, domestic_macro.py:36-72, flow.py:74-132,
\* valuation.py:40-102, volatility.py:85-115, decision.py:71-89).
Monotone ==
    stage = "decided" /\ (\A a \in RuleAgentIds : config.weights[a] >= 0) =>
        \A c \in Columns, v \in Values : MoreBullish(c, input.features_row[c], v) =>
            Sign[LabelOn([input.features_row EXCEPT ![c] = v])] >= Sign[decision_result.label]

\* The weight of the agents that voted for label.
WeightFor(label) ==
    MapThenSumSet(LAMBDA a : config.weights[a],
                  {a \in RuleAgentIds : decision_result.votes[a] = label})

\* A decision is never taken against the weight of the votes, nor on a tie or on a day
\* when every agent abstains, also where a threshold is zero and the score just reaches
\* it; only thresholds that leave zero outside could do that (decision.py:31, 71-89).
HeavierSideDecides ==
    stage = "decided" /\ ~Below(config.thresholds.up, 0) /\ ~Below(0, config.thresholds.down) =>
        /\ decision_result.label = "up" => WeightFor("down") < WeightFor("up")
        /\ decision_result.label = "down" => WeightFor("up") < WeightFor("down")

\* The columns an agent's up and down branches read.
Decisive(a) == InputWhitelist[a] \ {"kospi_return_1d"}

\* Once a configuration of all five agents is loaded, a row of numbers is decided:
\* nothing the loader lets through fails later (config.py:278-297 against
\* service.py:178-223 and volatility.py:42-47); an agent that is missing a number it reads
\* abstains rather than fail or guess (spec.md:120).  A configuration of fewer agents,
\* which the loader lets through as well, is given up before anyone votes.
AcceptedIsDecided ==
    /\ (/\ stage = "build" /\ DOMAIN config.weights = RuleAgentIds
        /\ \A c \in Columns : Number(input.features_row[c]))
           ~> (/\ stage = "decided"
               /\ \A a \in RuleAgentIds : ~Finite(input.features_row, Decisive(a)) =>
                       decision_result.votes[a] = "skip")
    /\ (stage = "build" /\ DOMAIN config.weights # RuleAgentIds)
           ~> (stage = "failed" /\ votes = Null)

=============================================================================

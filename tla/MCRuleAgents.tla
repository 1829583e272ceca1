---------------------------- MODULE MCRuleAgents ----------------------------
(* Configurations with separate, touching, overlapping and NaN thresholds, and ones
   the loader must refuse; rows that make each agent say up, down and skip. *)
EXTENDS RuleAgents, TLC

\* The thresholds of all agents: those that end the up branches and the down branches
\* lie u and d from the middle, in the bullish direction of their feature.
UpMin == {"ma5_gap_up_min", "close_position_up_min", "return_5d_up_min", "foreign_pct_up_min"}
DownMax == {"ma5_gap_down_max", "close_position_down_max", "return_5d_down_max",
            "foreign_pct_down_max"}
UpMax == {"bok_rate_change_up_max", "usdkrw_return_5d_up_max", "bond_yield_change_30d_up_max",
          "per_percentile_up_max", "pbr_percentile_up_max", "realized_vol_20d_up_max",
          "realized_vol_pct_up_max", "atr_14d_up_max"}
DownMin == {"bok_rate_change_down_min", "usdkrw_return_5d_down_min",
            "bond_yield_change_30d_down_min", "per_percentile_down_min",
            "pbr_percentile_down_min", "realized_vol_pct_down_min",
            "realized_vol_20d_down_min", "atr_14d_down_min"}

Threshold(k, u, d) ==
    CASE k \in UpMin -> u [] k \in UpMax -> -u [] k \in DownMin -> d [] k \in DownMax -> -d
      [] OTHER -> 0

Rules(u, d) ==
    [a \in RuleAgentIds |->
        [rule_version |-> a, thresholds |-> [k \in ThresholdKeys[a] |-> Threshold(k, u, d)]]]

Yaml(w, up, down, rules) ==
    [weights |-> w, thresholds |-> [up |-> up, down |-> down], agents |-> rules]

Weights == [technical |-> 30, domestic_macro |-> 20, flow |-> 25, valuation |-> 10,
            volatility |-> 15]
Pinned == Yaml(Weights, 25, -25, Rules(1, 1))

\* The branches of a rule apart, touching, and overlapping.
PlainlyAccepted == {Yaml(Weights, 25, -25, Rules(i[1], i[2])) : i \in {<<1, 1>>, <<0, 0>>, <<0, -1>>}}

Accepting ==
    PlainlyAccepted
    \cup {Yaml([Weights EXCEPT !.technical = 70, !.flow = -15], 0, -10, Rules(1, 1)),
          Yaml(Weights, 0, -25, Rules(1, 1)), Yaml(Weights, 25, 0, Rules(1, 1)),
          Yaml(Weights, NaN, -25, Rules(1, 1)),
          Yaml(Weights, 25, -25, [Rules(1, 1) EXCEPT !.flow.thresholds.foreign_pct_up_min = NaN])}

Others ==
    {Yaml([technical |-> 60, flow |-> 40], 25, -25,
          [a \in {"technical", "flow"} |-> Rules(1, 1)[a]]),
     Yaml([Weights EXCEPT !.flow = 26], 25, -25, Rules(1, 1)),
     Yaml([technical |-> 100], 25, -25, Rules(1, 1)),
     Yaml(Weights, -25, 25, Rules(1, 1)),
     Yaml(Weights, Text, -25, Rules(1, 1)),
     Yaml(Weights, 25, -25, [Rules(1, 1) EXCEPT !.volatility.rule_version = Null]),
     Yaml(Weights, 25, -25, [Rules(1, 1) EXCEPT !.flow.thresholds =
            [k \in {"foreign_pct_up_min", "foreign_pct_down_max"} |-> 0]])}

Scenario == [horizon |-> "next_day", agents |-> KnownAgentIds, runtime |-> {"a", "b", "c"}]
Scenarios ==
    {[Scenario EXCEPT !.agents = {"technical"}], [Scenario EXCEPT !.agents = {"fx"}],
     [Scenario EXCEPT !.horizon = "next_week"], [Scenario EXCEPT !.runtime = {"a", "", "c"}]}

\* A row in which the features of agent a all speak with strength s[a] for a rise; PER
\* and PBR are positive.
Bullish(c, x) == IF c \in {"kospi_per", "kospi_pbr"} THEN 1
                 ELSE IF c \in LowerIsBullish /\ x \in Int THEN -x ELSE x
AgentOf(c) == CHOOSE a \in RuleAgentIds : c \in InputWhitelist[a]
Row(s) == [c \in Columns |-> Bullish(c, s[AgentOf(c)])]

Rows == {Row(s) : s \in [RuleAgentIds -> {-1, 0, 1}]}

\* Any features of one agent, where its vote decides: the others abstain, but technical.
Around(a, x) == Row([b \in RuleAgentIds |-> IF b = "technical" /\ a # b THEN x ELSE NaN])
AgentRows ==
    UNION {{[c \in Columns |-> IF c \in InputWhitelist[a] THEN g[c] ELSE Around(a, x)[c]] :
                g \in [InputWhitelist[a] -> {-1, 0, 1}], x \in {-1, 1}} : a \in RuleAgentIds}

OddRows ==
    {[Row([a \in RuleAgentIds |-> x]) EXCEPT ![c] = v] :
        c \in Columns, x \in {-1, 1}, v \in {NaN, Text, Null, -1, 0}}

Given(s, p, f) == [scenario |-> s, agents_yaml |-> p, features_row |-> f]

MCInputs ==
    {Given(Scenario, p, f) : p \in Accepting, f \in Rows}
    \cup {Given(Scenario, p, f) : p \in PlainlyAccepted, f \in AgentRows}
    \cup {Given(Scenario, p, f) : p \in {Pinned, Yaml(Weights, NaN, -25, Rules(1, 1))},
                                 f \in OddRows}
    \cup {Given(s, p, Row([a \in RuleAgentIds |-> 1])) :
            s \in Scenarios \cup {Scenario}, p \in Others \cup {Pinned}}

MCValues == -2 .. 2

=============================================================================

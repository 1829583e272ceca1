--------------------------- MODULE RuleAgentsProofs ---------------------------
(***************************************************************************)
(* A decision is a function of the configuration and the row, and that     *)
(* function never falls when a feature gets better.                        *)
(***************************************************************************)
EXTENDS RuleAgents, Counting

Row == input.features_row
VoteProposal(a) == [actor_id |-> a, vote |-> Vote(a, config, Row)]
AskedAgents == {Agents[i] : i \in 1 .. asked}
AllVotes == [a \in RuleAgentIds |-> Vote(a, config, Row)]

\* What was loaded is what the file said, and was accepted; each of the five is built.
ConfigInv ==
    /\ input \in Inputs
    /\ config = Null \/ (config = input.agents_yaml /\ AgentsAccepted(config))
    /\ stage = "load" => config = Null
    /\ stage \in {"build", "ask", "resolve", "decided"} =>
          config = input.agents_yaml /\ AgentsAccepted(config)
    /\ stage \in {"ask", "resolve", "decided"} => Buildable(config)

StepInv ==
    /\ stage \in Stages
    /\ phase \in {"vote", "decide", "done"}
    /\ (stage = "decided") = (phase = "done")
    /\ stage \in {"load", "build"} => phase = "vote"
    /\ step_index = IF phase = "vote" THEN 0 ELSE IF phase = "decide" THEN 1 ELSE 2
    /\ asked \in 0 .. 6
    /\ stage = "ask" => asked < 6
    /\ stage = "resolve" => asked = 6
    /\ stage \in {"load", "build", "decided"} => asked = 0
    /\ phase = "decide" => stage \in {"ask", "resolve", "failed"}

\* The runner holds the votes of the rule agents it has asked, then the decision alone.
ProposalsInv ==
    proposals =
        IF phase = "vote" THEN {VoteProposal(a) : a \in AskedAgents \cap RuleAgentIds}
        ELSE {[actor_id |-> a, decision_result |-> Decision(config, AllVotes)] :
                 a \in AskedAgents \ RuleAgentIds}

SegmentInv ==
    /\ votes = IF phase = "vote" THEN Null ELSE AllVotes
    /\ decision_result = IF phase = "done" THEN Decision(config, AllVotes) ELSE Null
    /\ phase # "vote" => AgentsAccepted(config) /\ Buildable(config)

\* Who was asked did not refuse the row, and only who refuses it stops a built run.
RefusalInv ==
    /\ stage # "failed" =>
          \A a \in RuleAgentIds : a \in AskedAgents \/ phase # "vote" => ~Refuses(a, Row)
    /\ stage = "failed" /\ config # Null /\ Buildable(config) =>
          \E a \in RuleAgentIds : Refuses(a, Row)

\* After the load, only an agent that is not configured or a row of other things than
\* numbers stops a run.
FailsFor ==
    stage = "failed" /\ config # Null =>
        \/ DOMAIN config.weights # RuleAgentIds
        \/ \E c \in Columns : ~Number(Row[c])

IInv == ConfigInv /\ StepInv /\ ProposalsInv /\ SegmentInv /\ RefusalInv /\ FailsFor

-----------------------------------------------------------------------------
(* The rules. *)

LEMMA VoteLabel == \A a, p, f : Vote(a, p, f) \in Labels
BY DEF Vote, Labels

LEMMA AgentOrder ==
    /\ Len(Agents) = 6
    /\ {Agents[i] : i \in 1 .. 6} = KnownAgentIds
    /\ \A i \in 1 .. 5 : Agents[i] \in RuleAgentIds
    /\ Agents[6] = "decision" /\ "decision" \notin RuleAgentIds
    /\ \A i \in 1 .. 6 : Agents[i] \in KnownAgentIds
<1>1. /\ Agents[1] = "technical" /\ Agents[2] = "domestic_macro" /\ Agents[3] = "flow"
      /\ Agents[4] = "valuation" /\ Agents[5] = "volatility" /\ Agents[6] = "decision"
      /\ Len(Agents) = 6
  BY DEF Agents
<1>2. \A i \in 1 .. 6 : i = 1 \/ i = 2 \/ i = 3 \/ i = 4 \/ i = 5 \/ i = 6
  OBVIOUS
<1>3. \A i \in 1 .. 5 : i = 1 \/ i = 2 \/ i = 3 \/ i = 4 \/ i = 5
  OBVIOUS
<1> QED
  BY <1>1, <1>2, <1>3 DEF KnownAgentIds, RuleAgentIds

LEMMA FiveAgents == IsFiniteSet(RuleAgentIds) /\ Cardinality(RuleAgentIds) = 5
<1>1. RuleAgentIds = ((({"technical"} \cup {"domestic_macro"}) \cup {"flow"}) \cup {"valuation"})
                        \cup {"volatility"}
  BY DEF RuleAgentIds
<1>2. \A x : IsFiniteSet({x}) /\ Cardinality({x}) = 1
  BY FS_Singleton
<1> DEFINE A == {"technical"} \cup {"domestic_macro"}
           B == A \cup {"flow"}
           C == B \cup {"valuation"}
<1>3. IsFiniteSet(A) /\ Cardinality(A) = 2
  <2>1. "domestic_macro" \notin {"technical"}
    OBVIOUS
  <2>2. IsFiniteSet(A) /\ Cardinality(A) = Cardinality({"technical"}) + 1
    BY <1>2, <2>1, FS_AddElement
  <2> QED
    BY <1>2, <2>2
<1>4. IsFiniteSet(B) /\ Cardinality(B) = 3
  BY <1>3, FS_AddElement
<1>5. IsFiniteSet(C) /\ Cardinality(C) = 4
  BY <1>4, FS_AddElement
<1>6. IsFiniteSet(C \cup {"volatility"}) /\ Cardinality(C \cup {"volatility"}) = 5
  BY <1>5, FS_AddElement
<1> QED
  BY <1>1, <1>6

\* The columns that the rules read, each in the direction in which it speaks for a rise.
LEMMA ColumnNames ==
    /\ \A a \in RuleAgentIds : InputWhitelist[a] \subseteq Columns
    /\ HigherIsBullish \cup LowerIsBullish \cup {"kospi_per", "kospi_pbr"} \subseteq Columns
    /\ {"bok_base_rate_change_30d", "usd_krw_return_5d", "kr_bond_yield_change_30d",
        "individual_net_buy_krw_5d_sum", "kospi_per_percentile_252d",
        "kospi_pbr_percentile_252d", "kospi_realized_vol_20d",
        "kospi_realized_vol_20d_percentile_252d", "kospi_atr_14d"} \subseteq LowerIsBullish
    /\ HigherIsBullish \cap LowerIsBullish = {}
    /\ {"kospi_per", "kospi_pbr"} \cap (HigherIsBullish \cup LowerIsBullish) = {}
<1>1. \A a \in RuleAgentIds : InputWhitelist[a] \subseteq Columns
  BY DEF Columns
<1>2. /\ "technical" \in RuleAgentIds /\ "domestic_macro" \in RuleAgentIds
      /\ "flow" \in RuleAgentIds /\ "valuation" \in RuleAgentIds
      /\ "volatility" \in RuleAgentIds
  BY DEF RuleAgentIds
<1>3. /\ {"kospi_return_5d", "kospi_ma5_gap", "kospi_close_position"} \subseteq InputWhitelist["technical"]
      /\ {"bok_base_rate_change_30d", "usd_krw_return_5d", "kr_bond_yield_change_30d"}
            \subseteq InputWhitelist["domestic_macro"]
      /\ {"foreign_net_buy_krw_5d_sum", "institution_net_buy_krw_5d_sum",
          "individual_net_buy_krw_5d_sum", "foreign_net_buy_5d_pct_of_turnover"}
            \subseteq InputWhitelist["flow"]
      /\ {"kospi_per", "kospi_pbr", "kospi_per_percentile_252d", "kospi_pbr_percentile_252d"}
            \subseteq InputWhitelist["valuation"]
      /\ {"kospi_realized_vol_20d", "kospi_realized_vol_20d_percentile_252d", "kospi_atr_14d"}
            \subseteq InputWhitelist["volatility"]
  BY DEF InputWhitelist
<1>4. /\ {"kospi_return_5d", "kospi_ma5_gap", "kospi_close_position"} \subseteq Columns
      /\ {"bok_base_rate_change_30d", "usd_krw_return_5d", "kr_bond_yield_change_30d"}
            \subseteq Columns
      /\ {"foreign_net_buy_krw_5d_sum", "institution_net_buy_krw_5d_sum",
          "individual_net_buy_krw_5d_sum", "foreign_net_buy_5d_pct_of_turnover"} \subseteq Columns
      /\ {"kospi_per", "kospi_pbr", "kospi_per_percentile_252d", "kospi_pbr_percentile_252d"}
            \subseteq Columns
      /\ {"kospi_realized_vol_20d", "kospi_realized_vol_20d_percentile_252d", "kospi_atr_14d"}
            \subseteq Columns
  BY <1>1, <1>2, <1>3
<1> QED
  BY <1>1, <1>4 DEF HigherIsBullish, LowerIsBullish

\* What one better feature does to every comparison with it.
Better(f, g) ==
    /\ \A c \in HigherIsBullish : \A x :
          /\ (AtMost(x, f[c]) => AtMost(x, g[c])) /\ (Below(x, f[c]) => Below(x, g[c]))
          /\ (AtMost(g[c], x) => AtMost(f[c], x)) /\ (Below(g[c], x) => Below(f[c], x))
    /\ \A c \in LowerIsBullish : \A x :
          /\ (AtMost(f[c], x) => AtMost(g[c], x)) /\ (Below(f[c], x) => Below(g[c], x))
          /\ (AtMost(x, g[c]) => AtMost(x, f[c])) /\ (Below(x, g[c]) => Below(x, f[c]))
    /\ f.kospi_per = g.kospi_per /\ f.kospi_pbr = g.kospi_pbr
    /\ \A c \in Columns : g[c] \in Int => f[c] \in Int

LEMMA OneFeatureBetter ==
    ASSUME NEW f, DOMAIN f = Columns, NEW c \in Columns, NEW v \in Int,
           MoreBullish(c, f[c], v)
    PROVE  Better(f, [f EXCEPT ![c] = v])
<1> DEFINE g == [f EXCEPT ![c] = v]
<1>1. g[c] = v /\ \A x \in Columns : x # c => g[x] = f[x]
  OBVIOUS
<1> HIDE DEF g
<1>2. f[c] \in Int /\ v \in Int
  BY DEF MoreBullish, Below
<1>3. \/ c \in HigherIsBullish /\ f[c] < v
      \/ c \in LowerIsBullish /\ v < f[c]
  BY DEF MoreBullish, Below
<1>4. ASSUME NEW d \in HigherIsBullish
      PROVE  g[d] = f[d] \/ (d = c /\ f[d] \in Int /\ g[d] \in Int /\ f[d] < g[d])
  BY <1>1, <1>2, <1>3, ColumnNames
<1>5. ASSUME NEW d \in LowerIsBullish
      PROVE  g[d] = f[d] \/ (d = c /\ f[d] \in Int /\ g[d] \in Int /\ g[d] < f[d])
  BY <1>1, <1>2, <1>3, ColumnNames
<1>6. ASSUME NEW d \in HigherIsBullish, NEW x
      PROVE  /\ (AtMost(x, f[d]) => AtMost(x, g[d])) /\ (Below(x, f[d]) => Below(x, g[d]))
             /\ (AtMost(g[d], x) => AtMost(f[d], x)) /\ (Below(g[d], x) => Below(f[d], x))
  BY <1>4 DEF AtMost, Below
<1>7. ASSUME NEW d \in LowerIsBullish, NEW x
      PROVE  /\ (AtMost(f[d], x) => AtMost(g[d], x)) /\ (Below(f[d], x) => Below(g[d], x))
             /\ (AtMost(x, g[d]) => AtMost(x, f[d])) /\ (Below(x, g[d]) => Below(x, f[d]))
  BY <1>5 DEF AtMost, Below
<1>8. f.kospi_per = g.kospi_per /\ f.kospi_pbr = g.kospi_pbr
  BY <1>1, <1>3, ColumnNames
<1>9. \A d \in Columns : g[d] \in Int => f[d] \in Int
  BY <1>1, <1>2
<1> QED
  BY <1>6, <1>7, <1>8, <1>9 DEF Better, g

\* A better feature keeps the up branch of an agent, and a down branch was there before.
LEMMA RulesFollow ==
    ASSUME NEW a \in RuleAgentIds, NEW t, NEW f, NEW g, Better(f, g)
    PROVE  /\ UpRule(a, t, f) => UpRule(a, t, g)
           /\ DownRule(a, t, g) => DownRule(a, t, f)
<1>1. ASSUME NEW b \in RuleAgentIds PROVE Finite(g, InputWhitelist[b]) => Finite(f, InputWhitelist[b])
  BY ColumnNames DEF Finite, Better
<1>2. CASE a = "technical"
  <2>1. {"kospi_ma5_gap", "kospi_close_position", "kospi_return_5d"} \subseteq HigherIsBullish
    BY DEF HigherIsBullish
  <2>2. TechnicalUp(t, f) => TechnicalUp(t, g)
    BY <2>1 DEF Better, TechnicalUp
  <2>3. TechnicalDown(t, g) => TechnicalDown(t, f)
    BY <2>1 DEF Better, TechnicalDown
  <2> QED
    BY <1>2, <2>2, <2>3 DEF UpRule, DownRule
<1>3. CASE a = "domestic_macro"
  <2>1. MacroUp(t, f) => MacroUp(t, g)
    BY ColumnNames DEF Better, MacroUp
  <2>2. MacroDown(t, g) => MacroDown(t, f)
    BY <1>1, <1>3, ColumnNames DEF Better, MacroDown
  <2> QED
    BY <1>3, <2>1, <2>2 DEF UpRule, DownRule
<1>4. CASE a = "flow"
  <2>1. {"foreign_net_buy_krw_5d_sum", "institution_net_buy_krw_5d_sum",
         "foreign_net_buy_5d_pct_of_turnover"} \subseteq HigherIsBullish
    BY DEF HigherIsBullish
  <2>2. FlowUp(t, f) => FlowUp(t, g)
    BY <2>1, ColumnNames DEF Better, FlowUp
  <2>3. FlowDown(t, g) => FlowDown(t, f)
    BY <2>1, ColumnNames DEF Better, FlowDown
  <2> QED
    BY <1>4, <2>2, <2>3 DEF UpRule, DownRule
<1>5. CASE a = "valuation"
  <2>1. ValuationUp(t, f) => ValuationUp(t, g)
    BY ColumnNames DEF Better, ValuationUp
  <2>2. ValuationDown(t, g) => ValuationDown(t, f)
    BY ColumnNames DEF Better, ValuationDown
  <2> QED
    BY <1>5, <2>1, <2>2 DEF UpRule, DownRule
<1>6. CASE a = "volatility"
  <2>1. VolatilityUp(t, f) => VolatilityUp(t, g)
    BY ColumnNames DEF Better, VolatilityUp
  <2>2. VolatilityDown(t, g) => VolatilityDown(t, f)
    BY <1>1, <1>6, ColumnNames DEF Better, VolatilityDown
  <2> QED
    BY <1>6, <2>1, <2>2 DEF UpRule, DownRule
<1> QED
  BY <1>2, <1>3, <1>4, <1>5, <1>6 DEF RuleAgentIds

LEMMA VotesFollow ==
    ASSUME NEW a \in RuleAgentIds, NEW p, NEW f, NEW g, Better(f, g)
    PROVE  Sign[Vote(a, p, f)] <= Sign[Vote(a, p, g)]
<1>1. /\ UpRule(a, p.agents[a].thresholds, f) => UpRule(a, p.agents[a].thresholds, g)
      /\ DownRule(a, p.agents[a].thresholds, g) => DownRule(a, p.agents[a].thresholds, f)
  BY RulesFollow
<1>2. Sign["up"] = 1 /\ Sign["down"] = -1 /\ Sign["skip"] = 0
  BY DEF Sign
<1> QED
  BY <1>1, <1>2 DEF Vote

Terms(w, v) == [a \in RuleAgentIds |-> w[a] * Sign[v[a]]]

LEMMA TermType ==
    ASSUME NEW w, \A a \in RuleAgentIds : w[a] \in Int, NEW v \in [RuleAgentIds -> Labels]
    PROVE  \A a \in RuleAgentIds : Terms(w, v)[a] \in Int /\ Terms(w, v)[a] = w[a] * Sign[v[a]]
<1>1. \A l \in Labels : Sign[l] \in {-1, 0, 1}
  BY DEF Labels, Sign
<1>2. ASSUME NEW a \in RuleAgentIds
      PROVE  Terms(w, v)[a] \in Int /\ Terms(w, v)[a] = w[a] * Sign[v[a]]
  <2>1. Sign[v[a]] \in {-1, 0, 1} /\ w[a] \in Int
    BY <1>1
  <2>2. w[a] * Sign[v[a]] \in Int
    BY <2>1
  <2> QED
    BY <2>2 DEF Terms
<1> QED
  BY <1>2

\* The score is the sum of the weighted signs, in whatever order they are added.
LEMMA ScoreIsSum ==
    ASSUME NEW w, \A a \in RuleAgentIds : w[a] \in Int, NEW v \in [RuleAgentIds -> Labels]
    PROVE  /\ AggregateScore(w, v) = Sum(Terms(w, v), RuleAgentIds)
           /\ AggregateScore(w, v) \in Int
<1> DEFINE K == RuleAgentIds
           x == Terms(w, v)
           AddsUp(f) ==
             f = [T \in SUBSET K |->
                     IF T = {} THEN 0 ELSE w[Pick(T)] * Sign[v[Pick(T)]] + f[T \ {Pick(T)}]]
<1>1. AggregateScore(w, v) = (CHOOSE f : AddsUp(f))[K]
  <2>1. DOMAIN v = K
    OBVIOUS
  <2> QED
    BY <2>1 DEF AggregateScore, MapThenSumSet, MapThenFoldSet, Pick
<1>2. IsFiniteSet(K)
  BY FiveAgents
<1>3. \A a \in K : x[a] \in Int /\ x[a] = w[a] * Sign[v[a]]
  BY TermType
<1> HIDE DEF K, x
<1>4. ASSUME NEW f PROVE AddsUp(f) <=> Sums(f, x, K)
  <2>1. \A T \in SUBSET K : T # {} => w[Pick(T)] * Sign[v[Pick(T)]] = x[Pick(T)]
    BY <1>3 DEF Pick
  <2>2. [T \in SUBSET K |->
            IF T = {} THEN 0 ELSE w[Pick(T)] * Sign[v[Pick(T)]] + f[T \ {Pick(T)}]]
         = [T \in SUBSET K |-> SumStep(f, x, T)]
    BY <2>1 DEF SumStep
  <2> QED
    BY <2>2 DEF Sums
<1> HIDE DEF AddsUp
<1>5. PICK h : h = CHOOSE f : AddsUp(f)
  OBVIOUS
<1>6. Sums(h, x, K)
  <2>1. \E f : Sums(f, x, K)
    BY <1>2, <1>3, SumsExist
  <2> QED
    BY <1>4, <1>5, <2>1
<1>7. h[K] = Sum(x, K) /\ Sum(x, K) \in Int
  <2>1. K \in SUBSET K /\ \A k \in K : x[k] = x[k] /\ x[k] \in Int
    BY <1>3
  <2> QED
    BY <1>2, <1>6, <2>1, SumValue
<1>8. AggregateScore(w, v) = Sum(x, K) /\ Sum(x, K) \in Int
  BY <1>1, <1>5, <1>7
<1> QED
  BY <1>8 DEF K, x

\* The score is the weight of the votes for a rise less that of the votes for a fall.
Camp(v, label) == {a \in RuleAgentIds : v[a] = label}

LEMMA ScoreOfSides ==
    ASSUME NEW w, \A a \in RuleAgentIds : w[a] \in Int, NEW v \in [RuleAgentIds -> Labels]
    PROVE  /\ AggregateScore(w, v) = Sum(w, Camp(v, "up")) - Sum(w, Camp(v, "down"))
           /\ Sum(w, Camp(v, "up")) \in Int /\ Sum(w, Camp(v, "down")) \in Int
<1> DEFINE A == Camp(v, "up")
           B == Camp(v, "down")
           x == Terms(w, v)
<1>1. A \in SUBSET RuleAgentIds /\ B \in SUBSET RuleAgentIds /\ A \cap B = {}
  BY DEF Camp
<1>2. Sign["up"] = 1 /\ Sign["down"] = -1 /\ Sign["skip"] = 0
  BY DEF Sign
<1>3. ASSUME NEW a \in RuleAgentIds
      PROVE  x[a] = IF a \in A THEN w[a] ELSE IF a \in B THEN -w[a] ELSE 0
  <2>1. x[a] = w[a] * Sign[v[a]] /\ w[a] \in Int
    BY TermType
  <2>2. v[a] \in {"up", "down", "skip"} /\ (a \in A <=> v[a] = "up") /\ (a \in B <=> v[a] = "down")
    BY DEF Camp, Labels
  <2> HIDE DEF A, B, x
  <2> QED
    BY <1>2, <2>1, <2>2
<1> HIDE DEF A, B, x
<1>4. Sum(x, RuleAgentIds) = Sum(w, A) - Sum(w, B) /\ Sum(w, A) \in Int /\ Sum(w, B) \in Int
  BY <1>1, <1>3, FiveAgents, SumOfSides
<1> QED
  BY <1>4, ScoreIsSum DEF A, B, x

LEMMA ScoreFollows ==
    ASSUME NEW w, \A a \in RuleAgentIds : w[a] \in Int /\ w[a] >= 0,
           NEW u \in [RuleAgentIds -> Labels], NEW v \in [RuleAgentIds -> Labels],
           \A a \in RuleAgentIds : Sign[u[a]] <= Sign[v[a]]
    PROVE  AggregateScore(w, u) <= AggregateScore(w, v)
<1>1. \A l \in Labels : Sign[l] \in {-1, 0, 1}
  BY DEF Labels, Sign
<1>2. ASSUME NEW a \in RuleAgentIds
      PROVE  w[a] * Sign[u[a]] <= w[a] * Sign[v[a]]
  <2>1. /\ Sign[u[a]] \in {-1, 0, 1} /\ Sign[v[a]] \in {-1, 0, 1}
        /\ w[a] \in Int /\ w[a] >= 0 /\ Sign[u[a]] <= Sign[v[a]]
    BY <1>1
  <2> QED
    BY <2>1
<1>3. \A a \in RuleAgentIds :
        /\ Terms(w, u)[a] \in Int /\ Terms(w, v)[a] \in Int
        /\ Terms(w, u)[a] <= Terms(w, v)[a]
  BY <1>2, TermType
<1>4. Sum(Terms(w, u), RuleAgentIds) <= Sum(Terms(w, v), RuleAgentIds)
  BY <1>3, FiveAgents, SumMonotone
<1> QED
  BY <1>4, ScoreIsSum

LEMMA LabelFollows ==
    ASSUME NEW thresholds, NEW x \in Int, NEW y \in Int, x <= y
    PROVE  /\ Sign[DecisionLabel(x, thresholds)] <= Sign[DecisionLabel(y, thresholds)]
           /\ DecisionLabel(x, thresholds) \in Labels
<1>1. Sign["up"] = 1 /\ Sign["down"] = -1 /\ Sign["skip"] = 0
  BY DEF Sign
<1>2. /\ Below(thresholds.up, x) => Below(thresholds.up, y)
      /\ Below(y, thresholds.down) => Below(x, thresholds.down)
  BY DEF Below
<1> QED
  BY <1>1, <1>2 DEF DecisionLabel, Labels

\* What a decision is, whichever row the votes are on.
LEMMA DecisionType ==
    ASSUME NEW p, AgentsAccepted(p), Buildable(p), NEW v \in [RuleAgentIds -> Labels]
    PROVE  /\ DOMAIN p.weights = RuleAgentIds
           /\ \A a \in RuleAgentIds : p.weights[a] \in Int
           /\ Decision(p, v).label = DecisionLabel(AggregateScore(p.weights, v), p.thresholds)
           /\ Decision(p, v) \in [label : Labels, aggregate_score : Int,
                                  votes : [RuleAgentIds -> Labels]]
<1>1. DOMAIN p.weights = RuleAgentIds /\ \A a \in RuleAgentIds : p.weights[a] \in Int
  BY DEF AgentsAccepted, Buildable
<1>2. AggregateScore(p.weights, v) \in Int
  BY <1>1, ScoreIsSum
<1>3. DecisionLabel(AggregateScore(p.weights, v), p.thresholds) \in Labels
  BY <1>2, LabelFollows
<1> QED
  BY <1>1, <1>2, <1>3 DEF Decision

\* No branch of a rule is taken on a row that lacks a number it reads.
LEMMA Abstains ==
    ASSUME NEW a \in RuleAgentIds, NEW p, NEW f, ~Finite(f, Decisive(a))
    PROVE  Vote(a, p, f) = "skip"
<1> DEFINE t == p.agents[a].thresholds
<1>1. ~UpRule(a, t, f) /\ ~DownRule(a, t, f)
  <2> HIDE DEF t
  <2>1. CASE a = "technical"
    BY <2>1 DEF UpRule, DownRule, TechnicalUp, TechnicalDown, AtMost, Finite, Decisive,
                InputWhitelist
  <2>2. CASE a = "domestic_macro"
    BY <2>2 DEF UpRule, DownRule, MacroUp, MacroDown, AtMost, Finite, Decisive, InputWhitelist
  <2>3. CASE a = "flow"
    BY <2>3 DEF UpRule, DownRule, FlowUp, FlowDown, AtMost, Below, Finite, Decisive,
                InputWhitelist
  <2>4. CASE a = "valuation"
    BY <2>4 DEF UpRule, DownRule, ValuationUp, ValuationDown, AtMost, Below, Finite, Decisive,
                InputWhitelist
  <2>5. CASE a = "volatility"
    BY <2>5 DEF UpRule, DownRule, VolatilityUp, VolatilityDown, AtMost, Finite, Decisive,
                InputWhitelist
  <2> QED
    BY <2>1, <2>2, <2>3, <2>4, <2>5 DEF RuleAgentIds
<1> QED
  BY <1>1 DEF Vote

-----------------------------------------------------------------------------
(* The run. *)

LEMMA VotesTyped == AllVotes \in [RuleAgentIds -> Labels]
BY VoteLabel DEF AllVotes

LEMMA InitIInv == Init => IInv
<1> SUFFICES ASSUME Init PROVE IInv
  OBVIOUS
<1>1. AskedAgents = {}
  BY DEF Init, AskedAgents
<1> QED
  BY <1>1 DEF Init, IInv, ConfigInv, StepInv, ProposalsInv, SegmentInv, RefusalInv, FailsFor,
              Stages

\* While the runner asks, the configuration and the row stay.
LEMMA SameVotes ==
    ASSUME UNCHANGED <<input, config>>
    PROVE  /\ AllVotes' = AllVotes /\ Row' = Row
           /\ \A a : VoteProposal(a)' = VoteProposal(a)
BY DEF AllVotes, Row, VoteProposal

\* Of several proposals that differ in their agent, VoteOf finds the one of an agent.
LEMMA VotesFound ==
    ASSUME ProposalsInv, StepInv, stage = "resolve", phase = "vote"
    PROVE  [a \in RuleAgentIds |-> VoteOf(a)] = AllVotes
<1>1. AskedAgents = KnownAgentIds
  BY AgentOrder DEF StepInv, AskedAgents
<1>2. proposals = {VoteProposal(a) : a \in RuleAgentIds}
  BY <1>1 DEF ProposalsInv, KnownAgentIds
<1>3. ASSUME NEW a \in RuleAgentIds
      PROVE  VoteOf(a) = AllVotes[a]
  <2>1. VoteProposal(a) \in proposals /\ VoteProposal(a).actor_id = a
    BY <1>2 DEF VoteProposal
  <2>2. \A p \in proposals : p.actor_id = a => p = VoteProposal(a)
    BY <1>2 DEF VoteProposal
  <2>3. (CHOOSE p \in proposals : p.actor_id = a) = VoteProposal(a)
    BY <2>1, <2>2
  <2>4. VoteOf(a) = VoteProposal(a).vote
    BY <2>3 DEF VoteOf
  <2>5. VoteProposal(a).vote = Vote(a, config, Row) /\ AllVotes[a] = Vote(a, config, Row)
    BY DEF VoteProposal, AllVotes
  <2> QED
    BY <2>4, <2>5
<1> QED
  BY <1>3 DEF AllVotes

LEMMA LoadStep == IInv /\ Load => IInv'
<1> SUFFICES ASSUME IInv, Load PROVE IInv'
  OBVIOUS
<1>1. /\ asked = 0 /\ asked' = 0 /\ phase = "vote" /\ phase' = "vote" /\ proposals' = {}
  BY DEF IInv, StepInv, ProposalsInv, AskedAgents, Load, runner, segment
<1>2. AskedAgents' = {}
  BY <1>1 DEF AskedAgents
<1> QED
  BY <1>1, <1>2 DEF IInv, ConfigInv, StepInv, ProposalsInv, SegmentInv, RefusalInv, FailsFor, Load,
                    Accepted, segment, runner, Stages

\* A step that ends the run or moves on, and leaves runner and segment alone.
LEMMA StageStep ==
    ASSUME IInv, UNCHANGED <<input, config, segment, runner>>,
           \/ stage = "load" /\ stage' = "failed" /\ config = Null
           \/ stage = "build" /\ stage' = "ask" /\ Buildable(config)
           \/ /\ stage \in {"build", "ask"} /\ stage' = "failed" /\ FailsFor'
              /\ Buildable(config) => \E a \in RuleAgentIds : Refuses(a, Row)
    PROVE  IInv'
<1>1. ConfigInv' /\ AskedAgents' = AskedAgents
  BY DEF IInv, ConfigInv, AskedAgents, runner
<1>2. StepInv' /\ FailsFor'
  BY DEF IInv, StepInv, FailsFor, segment, runner, Stages
<1>3. ProposalsInv' /\ SegmentInv'
  BY <1>1, SameVotes DEF IInv, ProposalsInv, SegmentInv, segment, runner
<1>4. RefusalInv'
  BY <1>1, SameVotes DEF IInv, RefusalInv, segment
<1> QED
  BY <1>1, <1>2, <1>3, <1>4 DEF IInv

LEMMA LoadFailsStep == IInv /\ LoadFails => IInv'
<1>1. IInv /\ stage = "load" => config = Null
  BY DEF IInv, ConfigInv
<1> QED
  BY <1>1, StageStep DEF LoadFails

LEMMA BuildFailsStep == IInv /\ BuildFails => IInv'
<1> SUFFICES ASSUME IInv, BuildFails PROVE IInv'
  OBVIOUS
<1>1. AgentsAccepted(config)
  BY DEF IInv, ConfigInv, BuildFails
<1>2. RuleAgentIds \subseteq DOMAIN config.agents => Buildable(config)
  BY <1>1 DEF AgentsAccepted, RuleAccepted, Buildable, RuleAgentIds
<1>3. DOMAIN config.weights # RuleAgentIds
  BY <1>1, <1>2 DEF AgentsAccepted, BuildFails
<1>4. FailsFor'
  BY <1>3 DEF FailsFor, BuildFails
<1> QED
  BY <1>4, StageStep DEF BuildFails

LEMMA AskFailsStep == IInv /\ AskFails => IInv'
<1> SUFFICES ASSUME IInv, AskFails PROVE IInv'
  OBVIOUS
<1>1. PICK c \in InputWhitelist[Agents[asked + 1]] :
        /\ Row[c] \in Refused[Agents[asked + 1]] /\ Agents[asked + 1] \in RuleAgentIds
  BY DEF AskFails, Raises, Refuses, Row
<1>2. c \in Columns
  BY <1>1, ColumnNames
<1>3. \A a \in RuleAgentIds : Refused[a] \subseteq {Null, Text}
  BY DEF Refused, RuleAgentIds
<1>4. ~Number(Row[c])
  BY <1>1, <1>3, AgentsAssumption DEF Number
<1>5. FailsFor'
  BY <1>2, <1>4 DEF FailsFor, AskFails, Row
<1>6. \E a \in RuleAgentIds : Refuses(a, Row)
  BY <1>1 DEF Refuses
<1> QED
  BY <1>5, <1>6, StageStep DEF AskFails

LEMMA AskStep == IInv /\ Ask => IInv'
<1> SUFFICES ASSUME IInv, Ask PROVE IInv'
  OBVIOUS
<1> DEFINE a == Agents[asked + 1]
<1>1. asked \in 0 .. 5 /\ asked' = asked + 1 /\ phase' = phase /\ phase \in {"vote", "decide"}
  BY DEF IInv, StepInv, Ask, segment
<1>2. AskedAgents' = AskedAgents \cup {a}
  <2>1. 1 .. asked' = (1 .. asked) \cup {asked + 1}
    BY <1>1
  <2> QED
    BY <2>1 DEF AskedAgents
<1>3. ConfigInv'
  BY SameVotes DEF IInv, ConfigInv, Ask
<1>4. StepInv' /\ FailsFor'
  BY <1>1, AgentOrder DEF IInv, StepInv, FailsFor, Ask, Stages
<1>5. SegmentInv'
  BY SameVotes DEF IInv, SegmentInv, Ask, segment
<1>6. ProposalsInv'
  <2>1. a \in RuleAgentIds \/ (a = "decision" /\ a \notin RuleAgentIds)
    BY <1>1, AgentOrder DEF KnownAgentIds
  <2> HIDE DEF a
  <2>2. CASE phase = "vote"
    <3>1. Proposed(a) = IF a \in RuleAgentIds THEN {VoteProposal(a)} ELSE {}
      BY <2>1, <2>2 DEF Proposed, VoteProposal, Row
    <3>2. proposals' = {VoteProposal(b) : b \in AskedAgents' \cap RuleAgentIds}
      BY <1>2, <2>2, <3>1 DEF IInv, ProposalsInv, Ask, a
    <3> QED
      BY <1>1, <2>2, <3>2, SameVotes DEF ProposalsInv, Ask
  <2>3. CASE phase = "decide"
    <3>1. votes = AllVotes
      BY <2>3 DEF IInv, SegmentInv
    <3>2. Proposed(a) = IF a \in RuleAgentIds THEN {}
                        ELSE {[actor_id |-> a, decision_result |-> Decision(config, AllVotes)]}
      BY <2>1, <2>3, <3>1, AgentOrder DEF Proposed
    <3>3. proposals' = {[actor_id |-> b, decision_result |-> Decision(config, AllVotes)] :
                          b \in AskedAgents' \ RuleAgentIds}
      BY <1>2, <2>3, <3>2 DEF IInv, ProposalsInv, Ask, a
    <3> QED
      BY <1>1, <2>3, <3>3, SameVotes DEF ProposalsInv, Ask
  <2> QED
    BY <1>1, <2>2, <2>3
<1>7. RefusalInv'
  <2>1. \A b \in RuleAgentIds : b \in AskedAgents' \/ phase # "vote" => ~Refuses(b, Row)
    BY <1>2 DEF IInv, RefusalInv, Ask, Raises, Row
  <2> QED
    BY <1>1, <2>1, SameVotes DEF RefusalInv, Ask
<1> QED
  BY <1>3, <1>4, <1>5, <1>6, <1>7 DEF IInv

LEMMA ResolveVotesStep == IInv /\ ResolveVotes => IInv'
<1> SUFFICES ASSUME IInv, ResolveVotes PROVE IInv'
  OBVIOUS
<1>1. votes' = AllVotes
  BY VotesFound DEF IInv, ResolveVotes
<1>2. AskedAgents' = {}
  BY DEF AskedAgents, ResolveVotes
<1>3. ConfigInv'
  BY SameVotes DEF IInv, ConfigInv, ResolveVotes
<1>4. StepInv' /\ FailsFor'
  BY DEF IInv, StepInv, FailsFor, ResolveVotes, Stages
<1>5. SegmentInv'
  BY <1>1, SameVotes DEF IInv, ConfigInv, SegmentInv, ResolveVotes
<1>6. ProposalsInv'
  BY <1>2 DEF ProposalsInv, ResolveVotes
<1>7. RefusalInv'
  <2>1. AskedAgents = KnownAgentIds
    BY AgentOrder DEF IInv, StepInv, AskedAgents, ResolveVotes
  <2> QED
    BY <2>1, SameVotes DEF IInv, RefusalInv, ResolveVotes, KnownAgentIds
<1> QED
  BY <1>3, <1>4, <1>5, <1>6, <1>7 DEF IInv

LEMMA ResolveDecisionStep == IInv /\ ResolveDecision => IInv'
<1> SUFFICES ASSUME IInv, ResolveDecision PROVE IInv'
  OBVIOUS
<1>1. decision_result' = Decision(config, AllVotes)
  BY DEF IInv, ProposalsInv, ResolveDecision
<1>2. AskedAgents' = {}
  BY DEF AskedAgents, ResolveDecision
<1>3. ConfigInv'
  BY SameVotes DEF IInv, ConfigInv, ResolveDecision
<1>4. StepInv' /\ FailsFor'
  BY DEF IInv, StepInv, FailsFor, ResolveDecision, Stages
<1>5. SegmentInv'
  BY <1>1, SameVotes DEF IInv, SegmentInv, ResolveDecision
<1>6. ProposalsInv'
  BY <1>2 DEF ProposalsInv, ResolveDecision
<1>7. RefusalInv'
  BY SameVotes DEF IInv, RefusalInv, ResolveDecision
<1> QED
  BY <1>3, <1>4, <1>5, <1>6, <1>7 DEF IInv

LEMMA StutterStep == IInv /\ UNCHANGED vars => IInv'
BY SameVotes DEF IInv, ConfigInv, StepInv, ProposalsInv, SegmentInv, RefusalInv, FailsFor,
                 vars, segment, runner, AskedAgents

LEMMA IInvariance == Spec => []IInv
<1>1. IInv /\ [Next]_vars => IInv'
  <2> SUFFICES ASSUME IInv, [Next]_vars PROVE IInv'
    OBVIOUS
  <2>1. CASE Build
    BY <2>1, StageStep DEF Build
  <2> QED
    BY <2>1, LoadStep, LoadFailsStep, BuildFailsStep, AskStep, AskFailsStep, ResolveVotesStep,
       ResolveDecisionStep, StutterStep DEF Next
<1> QED
  BY InitIInv, <1>1, PTL DEF Spec

-----------------------------------------------------------------------------

LEMMA FewProposals ==
    ASSUME IInv
    PROVE  Cardinality(proposals) <= 5
<1>1. CASE phase = "vote"
  <2> DEFINE A == AskedAgents \cap RuleAgentIds
             f == [a \in A |-> VoteProposal(a)]
  <2>1. IsFiniteSet(A) /\ Cardinality(A) <= 5
    BY FiveAgents, FS_Subset
  <2>2. \A a, b \in A : f[a] = f[b] => a = b
    BY DEF VoteProposal
  <2>3. proposals = {f[a] : a \in A}
    BY <1>1 DEF IInv, ProposalsInv
  <2> HIDE DEF A, f
  <2> QED
    BY <2>1, <2>2, <2>3, ImageSize
<1>2. CASE phase # "vote"
  <2> DEFINE p == [actor_id |-> "decision", decision_result |-> Decision(config, AllVotes)]
  <2>1. AskedAgents \subseteq KnownAgentIds
    BY AgentOrder DEF IInv, StepInv, AskedAgents
  <2>2. AskedAgents \ RuleAgentIds \subseteq {"decision"}
    BY <2>1 DEF KnownAgentIds
  <2>3. proposals \subseteq {p}
    BY <1>2, <2>2 DEF IInv, ProposalsInv
  <2> HIDE DEF p
  <2>4. IsFiniteSet({p}) /\ Cardinality({p}) = 1
    BY FS_Singleton
  <2>5. Cardinality(proposals) <= Cardinality({p}) /\ Cardinality(proposals) \in Nat
    BY <2>3, <2>4, FS_Subset, FS_CardinalityType
  <2> QED
    BY <2>4, <2>5
<1> QED
  BY <1>1, <1>2

\* The types of the runtime's state, and the one way through it: a configuration with
\* exactly its keys, five votes, one decision (config.py:278-297, scenario.py:103-158).
THEOREM TypeCorrect == Spec => []TypeOK
<1>1. IInv => TypeOK
  <2> SUFFICES ASSUME IInv PROVE TypeOK
    OBVIOUS
  <2>1. \/ config = Null
        \/ \A a \in DOMAIN config.agents :
              a \in RuleAgentIds /\ DOMAIN config.agents[a].thresholds = ThresholdKeys[a]
    BY DEF IInv, ConfigInv, AgentsAccepted, RuleAccepted
  <2>2. IF phase = "vote" THEN votes = Null ELSE votes \in [RuleAgentIds -> Labels]
    BY VotesTyped DEF IInv, SegmentInv
  <2>3. (phase = "done") = (decision_result # Null)
    <3>1. phase # "vote" => Decision(config, AllVotes) # Null
      BY VotesTyped, DecisionType, AgentsAssumption DEF IInv, SegmentInv
    <3> QED
      BY <3>1 DEF IInv, SegmentInv, StepInv
  <2>4. step_index \in 0 .. 2 /\ asked \in 0 .. Len(Agents)
    BY AgentOrder DEF IInv, StepInv
  <2> QED
    BY <2>1, <2>2, <2>3, <2>4, FewProposals DEF TypeOK, IInv, StepInv
<1> QED
  BY <1>1, IInvariance, PTL

\* For whatever thresholds and weights that are not negative, and for every row: had one
\* feature been more bullish, the decision would be no lower (technical.py:38-84,
\* domestic_macro.py:36-72, flow.py:74-132, valuation.py:40-102, volatility.py:85-115,
\* decision.py:71-89).
THEOREM NewsIsMonotone == Spec => []Monotone
<1>1. IInv => Monotone
  <2> SUFFICES ASSUME IInv, stage = "decided", \A a \in RuleAgentIds : config.weights[a] >= 0,
                      NEW c \in Columns, NEW v \in Values,
                      MoreBullish(c, input.features_row[c], v)
               PROVE  Sign[LabelOn([input.features_row EXCEPT ![c] = v])]
                        >= Sign[decision_result.label]
    BY DEF Monotone
  <2> DEFINE g == [Row EXCEPT ![c] = v]
             more == [a \in RuleAgentIds |-> Vote(a, config, g)]
  <2>1. DOMAIN Row = Columns /\ v \in Int
    BY AgentsAssumption DEF IInv, ConfigInv, Row
  <2>2. Better(Row, g)
    BY <2>1, OneFeatureBetter DEF Row
  <2>3. phase = "done" /\ AgentsAccepted(config) /\ Buildable(config)
    BY DEF IInv, StepInv, SegmentInv
  <2>4. decision_result = Decision(config, AllVotes)
    BY <2>3 DEF IInv, SegmentInv
  <2> HIDE DEF g
  <2>5. more \in [RuleAgentIds -> Labels]
    BY VoteLabel
  <2>6. \A a \in RuleAgentIds : Sign[AllVotes[a]] <= Sign[more[a]]
    BY <2>2, VotesFollow DEF AllVotes
  <2>7. LabelOn(g) = Decision(config, more).label
    BY DEF LabelOn
  <2> HIDE DEF more
  <2>8. /\ \A a \in RuleAgentIds : config.weights[a] \in Int
        /\ Decision(config, AllVotes).label
             = DecisionLabel(AggregateScore(config.weights, AllVotes), config.thresholds)
        /\ Decision(config, more).label
             = DecisionLabel(AggregateScore(config.weights, more), config.thresholds)
    BY <2>3, <2>5, VotesTyped, DecisionType
  <2>9. /\ AggregateScore(config.weights, AllVotes) \in Int
        /\ AggregateScore(config.weights, more) \in Int
        /\ AggregateScore(config.weights, AllVotes) <= AggregateScore(config.weights, more)
    BY <2>5, <2>6, <2>8, VotesTyped, ScoreIsSum, ScoreFollows
  <2>10. Sign[Decision(config, AllVotes).label] <= Sign[Decision(config, more).label]
    BY <2>8, <2>9, LabelFollows
  <2>11. \A l \in Labels : Sign[l] \in Int
    BY DEF Labels, Sign
  <2>12. Decision(config, AllVotes).label \in Labels /\ Decision(config, more).label \in Labels
    BY <2>8, <2>9, LabelFollows
  <2>13. Sign[LabelOn(g)] >= Sign[decision_result.label]
    BY <2>4, <2>7, <2>10, <2>11, <2>12
  <2> QED
    BY <2>13 DEF g, Row
<1> QED
  BY <1>1, IInvariance, PTL

\* For whatever weights, and thresholds that leave zero between them: no decision goes
\* against the weight of the votes, nor is one taken on a tie (decision.py:31, 71-89).
THEOREM HeavierSideWins == Spec => []HeavierSideDecides
<1>1. IInv => HeavierSideDecides
  <2> SUFFICES ASSUME IInv, stage = "decided",
                      ~Below(config.thresholds.up, 0), ~Below(0, config.thresholds.down)
               PROVE  /\ decision_result.label = "up" => WeightFor("down") < WeightFor("up")
                      /\ decision_result.label = "down" => WeightFor("up") < WeightFor("down")
    BY DEF HeavierSideDecides
  <2> DEFINE score == AggregateScore(config.weights, AllVotes)
             up == Sum(config.weights, Camp(AllVotes, "up"))
             down == Sum(config.weights, Camp(AllVotes, "down"))
  <2>1. phase = "done" /\ AgentsAccepted(config) /\ Buildable(config)
    BY DEF IInv, StepInv, SegmentInv
  <2>2. decision_result = Decision(config, AllVotes) /\ decision_result.votes = AllVotes
    BY <2>1 DEF IInv, SegmentInv, Decision
  <2>3. \A a \in RuleAgentIds : config.weights[a] \in Int
    BY <2>1, VotesTyped, DecisionType
  <2>4. score = up - down /\ up \in Int /\ down \in Int
    BY <2>3, VotesTyped, ScoreOfSides
  <2>5. WeightFor("up") = up /\ WeightFor("down") = down
    BY <2>2 DEF WeightFor, Sum, Camp
  <2>6. decision_result.label = DecisionLabel(score, config.thresholds)
    BY <2>2 DEF Decision
  <2> HIDE DEF score, up, down
  <2>7. decision_result.label = "up" => score > 0
    BY <2>4, <2>6 DEF DecisionLabel, Below
  <2>8. decision_result.label = "down" => score < 0
    BY <2>4, <2>6 DEF DecisionLabel, Below
  <2> QED
    BY <2>4, <2>5, <2>7, <2>8
<1> QED
  BY <1>1, IInvariance, PTL

\* What AcceptedIsDecided says of safety: once loaded, a configuration of all five agents
\* fails on no row of numbers, and an agent that lacks a number has abstained; one of
\* fewer agents decides nothing, and nobody has voted by it (config.py:278-297 against
\* service.py:178-223; spec.md:120).
FailsOnlyFor ==
    /\ stage = "failed" /\ config # Null =>
          DOMAIN config.weights # RuleAgentIds \/ \E c \in Columns : ~Number(input.features_row[c])
    /\ stage = "decided" =>
          \A a \in RuleAgentIds : ~Finite(input.features_row, Decisive(a)) =>
              decision_result.votes[a] = "skip"
    /\ config # Null /\ DOMAIN config.weights # RuleAgentIds =>
          stage \in {"build", "failed"} /\ votes = Null

\* An accepted configuration fails on no row of numbers and guesses on none, unless it
\* names fewer agents: then it is given up before a vote.
THEOREM AcceptedNeverFails == Spec => []FailsOnlyFor
<1>1. IInv => FailsOnlyFor
  <2> SUFFICES ASSUME IInv PROVE FailsOnlyFor
    OBVIOUS
  <2>1. stage = "decided" => decision_result.votes = AllVotes
    BY DEF IInv, StepInv, SegmentInv, Decision
  <2>2. \A a \in RuleAgentIds : ~Finite(Row, Decisive(a)) => AllVotes[a] = "skip"
    BY Abstains DEF AllVotes
  <2>3. ASSUME config # Null, DOMAIN config.weights # RuleAgentIds
        PROVE  stage \in {"build", "failed"} /\ votes = Null
    <3>1. ~(AgentsAccepted(config) /\ Buildable(config))
      BY <2>3, VotesTyped, DecisionType
    <3>2. phase = "vote" /\ stage \notin {"load", "ask", "resolve", "decided"}
      BY <2>3, <3>1 DEF IInv, ConfigInv, StepInv, SegmentInv
    <3> QED
      BY <3>2 DEF IInv, StepInv, SegmentInv, Stages
  <2> QED
    BY <2>1, <2>2, <2>3 DEF IInv, FailsFor, FailsOnlyFor, Row
<1> QED
  BY <1>1, IInvariance, PTL

\* What DecisionRuntime and CoreBacktest take for granted: the outcome, or that there is
\* none, is a function of the configuration and the row alone, whatever is asked when
\* (adapters.py, scenario.py:103-158).
FunctionOfRow ==
    /\ stage = "decided" =>
          /\ \A a \in RuleAgentIds : ~Refuses(a, input.features_row)
          /\ decision_result =
                Decision(input.agents_yaml,
                         [a \in RuleAgentIds |-> Vote(a, input.agents_yaml, input.features_row)])
    /\ stage = "failed" /\ config # Null /\ Buildable(config) =>
          \E a \in RuleAgentIds : Refuses(a, input.features_row)

\* The decision runtime and the backtests are right to take a decision as one function.
THEOREM DecidesByRowAlone == Spec => []FunctionOfRow
<1>1. IInv => FunctionOfRow
  <2> SUFFICES ASSUME IInv PROVE FunctionOfRow
    OBVIOUS
  <2>1. stage = "decided" => config = input.agents_yaml /\ phase = "done"
    BY DEF IInv, ConfigInv, StepInv
  <2>2. stage = "decided" => decision_result = Decision(config, AllVotes)
    BY <2>1 DEF IInv, SegmentInv
  <2> QED
    BY <2>1, <2>2 DEF IInv, RefusalInv, FunctionOfRow, AllVotes, Row
<1> QED
  BY <1>1, IInvariance, PTL

-----------------------------------------------------------------------------
(* A decision is reached, or given up, in so many steps. *)

\* What the resolver asks of the proposals before it takes them.
ResolverAccepts ==
    stage = "resolve" =>
        \/ /\ phase = "vote"
           /\ Cardinality(proposals) = 5 /\ {p.actor_id : p \in proposals} = RuleAgentIds
        \/ /\ phase = "decide"
           /\ Cardinality(proposals) = 1 /\ \A p \in proposals : p.actor_id = "decision"

\* The runner hands the resolver what it asks for, in both phases, so that none of its
\* errors is ever raised (scenario.py:124-158), whatever the row and the configuration.
THEOREM ResolverNeverRaises == Spec => []ResolverAccepts
<1>1. IInv => ResolverAccepts
  <2> SUFFICES ASSUME IInv, stage = "resolve"
               PROVE  \/ /\ phase = "vote" /\ Cardinality(proposals) = 5
                         /\ {p.actor_id : p \in proposals} = RuleAgentIds
                      \/ /\ phase = "decide" /\ Cardinality(proposals) = 1
                         /\ \A p \in proposals : p.actor_id = "decision"
    BY DEF ResolverAccepts
  <2>1. AskedAgents = KnownAgentIds /\ phase \in {"vote", "decide"}
    BY AgentOrder DEF IInv, StepInv, AskedAgents
  <2>2. /\ KnownAgentIds \cap RuleAgentIds = RuleAgentIds
        /\ KnownAgentIds \ RuleAgentIds = {"decision"}
    BY AgentOrder DEF KnownAgentIds
  <2>3. CASE phase = "vote"
    <3> DEFINE f == [a \in RuleAgentIds |-> VoteProposal(a)]
    <3>1. proposals = {VoteProposal(a) : a \in RuleAgentIds}
      BY <2>1, <2>2, <2>3 DEF IInv, ProposalsInv
    <3>2. {p.actor_id : p \in proposals} = RuleAgentIds
      <4>1. \A a \in RuleAgentIds : VoteProposal(a) \in proposals /\ VoteProposal(a).actor_id = a
        BY <3>1 DEF VoteProposal
      <4>2. \A p \in proposals : \E a \in RuleAgentIds : p.actor_id = a
        BY <3>1, <4>1
      <4> QED
        BY <4>1, <4>2
    <3>3. \A a, b \in RuleAgentIds : f[a] = f[b] => a = b
      BY DEF VoteProposal
    <3>4. proposals = {f[a] : a \in RuleAgentIds}
      BY <3>1
    <3> HIDE DEF f
    <3>5. Cardinality(proposals) = 5
      BY <3>3, <3>4, FiveAgents, ImageSize
    <3> QED
      BY <2>3, <3>2, <3>5
  <2>4. CASE phase = "decide"
    <3> DEFINE d == [actor_id |-> "decision", decision_result |-> Decision(config, AllVotes)]
    <3>1. proposals = {d} /\ d.actor_id = "decision"
      BY <2>1, <2>2, <2>4 DEF IInv, ProposalsInv
    <3> HIDE DEF d
    <3> QED
      BY <2>4, <3>1, FS_Singleton
  <2> QED
    BY <2>1, <2>3, <2>4
<1> QED
  BY <1>1, IInvariance, PTL

\* Two phases of six questions and a resolution, behind the load and the build.
StepsLeft ==
    CASE stage = "load" -> 16
      [] stage = "build" -> 15
      [] stage = "ask" -> (IF phase = "vote" THEN 14 ELSE 7) - asked
      [] stage = "resolve" -> IF phase = "vote" THEN 8 ELSE 1
      [] stage \in {"failed", "decided"} -> 0

Counted == StepsLeft \in 0 .. 16 /\ (StepsLeft = 0 <=> stage \in {"failed", "decided"})

\* Every step leaves fewer to take.
StepsCountDown == []Counted /\ [][StepsLeft' < StepsLeft]_vars

LEMMA StepsCounted == IInv => Counted
BY DEF IInv, StepInv, Stages, Counted, StepsLeft

LEMMA StepCounts ==
    ASSUME IInv, Next
    PROVE  StepsLeft' < StepsLeft
<1>1. /\ phase \in {"vote", "decide", "done"} /\ asked \in 0 .. 6
      /\ stage = "ask" => asked < 6 /\ phase \in {"vote", "decide"}
      /\ stage \in {"load", "build"} => asked = 0 /\ phase = "vote"
  BY DEF IInv, StepInv
<1>2. CASE Load \/ LoadFails \/ Build \/ BuildFails \/ AskFails
  BY <1>1, <1>2 DEF Load, LoadFails, Build, BuildFails, AskFails, segment, runner, StepsLeft
<1>3. CASE Ask
  <2>1. /\ stage = "ask" /\ asked' = asked + 1 /\ phase' = phase
        /\ stage' = IF asked' = 6 THEN "resolve" ELSE "ask"
    BY <1>3, AgentOrder DEF Ask, segment
  <2> QED
    BY <1>1, <2>1 DEF StepsLeft
<1>4. CASE ResolveVotes
  BY <1>4 DEF ResolveVotes, StepsLeft
<1>5. CASE ResolveDecision
  BY <1>5 DEF ResolveDecision, StepsLeft
<1> QED
  BY <1>2, <1>3, <1>4, <1>5 DEF Next

\* A decision ends after sixteen steps at most, decided or failed; with the theorem above,
\* which leaves no error of the resolver to stop it, nothing but fairness is missing
\* to the liveness of AcceptedIsDecided.
THEOREM DecisionCountsDown == Spec => StepsCountDown
<1>1. IInv => Counted
  BY StepsCounted
<1>2. IInv /\ [Next]_vars => [StepsLeft' < StepsLeft]_vars
  BY StepCounts
<1> QED
  BY <1>1, <1>2, IInvariance, PTL DEF Spec, StepsCountDown

=============================================================================

------------------------------- MODULE Analysis -------------------------------
(***************************************************************************)
(* What the nodes validate_data, analyze_with_pandas, build_evidence and    *)
(* determine_attribution compute from the data files and the problem        *)
(* definition.  A file is a table with a date, a dimension, the requested   *)
(* metric and a second number per row ("sold": orders in a market table,    *)
(* units sold in an inventory table).  A date is month * 100 + day, months   *)
(* being counted without gaps over the years.                               *)
(*   file:       [readable, dated, named, reorder, rows]                    *)
(*   row:        [date, dim, value, sold]                                   *)
(*   definition: [range: [kind, months], baseline, scenario]                *)
(***************************************************************************)
EXTENDS Integers, SequencesExt

CONSTANTS Null,               \* None, NaN, an empty cell or an unparsable date
          Inf,                \* an infinite number, which pandas reads from "inf"
          Text,               \* a cell of the metric that is not a number
          ItemsPerDimension,  \* 5: changes of one dimension that become evidence
          RisksCited,         \* 20: inventory risks that become evidence
          MetricsCited,       \* 5: metrics that become evidence if nothing else does
          DeclinesNamed,      \* 3: declines that become conclusions
          RisksNamed          \* 5: risks that become conclusions

ASSUME CitedAssumption ==
  {ItemsPerDimension, RisksCited, MetricsCited, DeclinesNamed, RisksNamed} \subseteq Nat

ASSUME NullAssumption == Null \notin Int

Row == [date : Int \cup {Null}, dim : Int, value : Int \cup {Null, Inf, Text}, sold : Int]

File == [readable : BOOLEAN, dated : BOOLEAN, named : BOOLEAN, reorder : Int, rows : Seq(Row)]

(* The elements of S in the order of the pairs: the i-th has i - 1 before it. *)
InOrder(S, pairs) ==
  [i \in 1..Cardinality(S) |->
     CHOOSE x \in S : Cardinality({y \in S : <<y, x>> \in pairs}) = i - 1]

Ascending(S) == InOrder(S, {p \in S \X S : p[1] < p[2]})

MonthOf(date) == date \div 100

Rows(f) == DOMAIN f.rows

Dated(f) == {i \in Rows(f) : f.rows[i].date # Null}

InMonth(f, m) == {i \in Dated(f) : MonthOf(f.rows[i].date) = m}

(* pd.to_numeric(errors="coerce").dropna(): text is dropped with the empty   *)
(* cells                                                                    *)
Numeric(f) == {i \in Rows(f) : f.rows[i].value \notin {Null, Text}}

Sum(g) == FoldFunction(+, 0, g)

(* a sum over rows; json_safe turns an infinite one into null *)
Total(f, I) ==
  IF \E i \in I \cap Numeric(f) : f.rows[i].value = Inf
  THEN Null
  ELSE Sum([i \in I \cap Numeric(f) |-> f.rows[i].value])

Minus(a, b) == IF Null \in {a, b} THEN Null ELSE a - b

------------------------------------------------------------------------------
(* validate_data *)

(* find_metric_column: the name matches and the column holds some number, or *)
(* nothing but empty cells                                                   *)
HasMetric(f) == /\ f.named
                /\ f.rows # <<>>
                /\ \/ Numeric(f) # {}
                   \/ \A i \in Rows(f) : f.rows[i].value = Null

Usable(f) == f.readable /\ f.rows # <<>>

DataUsable(files) == \E k \in DOMAIN files : Usable(files[k])

MetricFound(files) == \E k \in DOMAIN files : files[k].readable /\ HasMetric(files[k])

Defective(f) == \/ \E i \in Rows(f) : f.rows[i].value = Null
                \/ \E i, j \in Rows(f) : i < j /\ f.rows[i] = f.rows[j]
                \/ Len(f.rows) < 2
                \/ ~f.dated
                \/ Dated(f) = {}

(* Mutant: duplicate rows do not matter. *)
evidence_quality_IgnoresDuplicates(f) ==
  IF /\ Usable(f)
     /\ \A i \in Rows(f) : f.rows[i].value # Null
     /\ Len(f.rows) >= 2
     /\ f.dated
     /\ Dated(f) # {}
  THEN "verified" ELSE "limited"

evidence_quality(f) == IF Usable(f) /\ ~Defective(f) THEN "verified" ELSE "limited"

------------------------------------------------------------------------------
(* pandas_analyze *)

(* apply_time_scope understands months and spans of months ("quarter",      *)
(* "year", "a to b"); any other range leaves the whole file in scope.        *)
ScopeVerified(f, def) == f.dated /\ Dated(f) # {} /\ def.range.kind # "other"

Scoped(f, def) == IF ScopeVerified(f, def)
                  THEN UNION {InMonth(f, m) : m \in def.range.months}
                  ELSE Rows(f)

Analyzed(f, def) == HasMetric(f) /\ Scoped(f, def) \cap Numeric(f) # {}

AnalyzedFiles(files, def) ==
  Ascending({k \in DOMAIN files : Analyzed(files[k], def)})

(* build_trend: the monthly sums of the whole file *)
TrendMonths(f) == IF f.dated
                  THEN {MonthOf(f.rows[i].date) : i \in Dated(f) \cap Numeric(f)}
                  ELSE {}

(* build_comparison: the last month of the trend against the month before it *)
(* in the trend, or against the month a year earlier                         *)
ComparedMonths(f, def) ==
  LET current == Max(TrendMonths(f))
      earlier == TrendMonths(f) \ {current}
  IN  IF def.baseline = "previous_period" THEN <<current, Max(earlier)>>
                                          ELSE <<current, current - 12>>

HasComparison(f, def) ==
  /\ Cardinality(TrendMonths(f)) >= 2
  /\ \/ def.baseline = "previous_period"
     \/ /\ def.baseline = "year_over_year"
        /\ Max(TrendMonths(f)) - 12 \in TrendMonths(f)

Comparison(f, def) ==
  LET months == ComparedMonths(f, def)
      current == Total(f, InMonth(f, months[1]))
      baseline == Total(f, InMonth(f, months[2]))
  IN  [months |-> months, current |-> current, baseline |-> baseline,
       change |-> Minus(current, baseline)]

(* float(None) of a month whose sum is not finite leaves the tool            *)
PandasRaises(files, def) ==
  \E k \in DOMAIN files :
     /\ Analyzed(files[k], def)
     /\ HasComparison(files[k], def)
     /\ Comparison(files[k], def).change = Null

------------------------------------------------------------------------------
(* build_dimension_changes *)

TargetMonth(def) == CHOOSE m \in def.range.months : TRUE

(* Mutant: the year before is eleven months earlier. *)
BaselineMonth_Eleven(def) == IF def.baseline = "year_over_year"
                             THEN TargetMonth(def) - 11 ELSE TargetMonth(def) - 1

BaselineMonth(def) == IF def.baseline = "year_over_year"
                      THEN TargetMonth(def) - 12 ELSE TargetMonth(def) - 1

DimTotal(f, m, d) == Total(f, {i \in InMonth(f, m) : f.rows[i].dim = d})

DimensionsIn(f, m) == {f.rows[i].dim : i \in InMonth(f, m) \cap Numeric(f)}

HasChanges(f, def) ==
  /\ f.dated
  /\ def.range.kind = "month"
  /\ def.baseline \in {"previous_period", "year_over_year"}
  /\ DimensionsIn(f, TargetMonth(def)) # {}
  /\ DimensionsIn(f, BaselineMonth(def)) # {}

Size(x) == IF x = Null THEN 1000000 ELSE IF x < 0 THEN -x ELSE x

(* every dimension value of either month, a missing one counting as 0, the   *)
(* largest change first: the list whose total the tool reports before it      *)
(* cuts it to twenty, of which the evidence takes five                        *)
Changes(f, def) ==
  LET items == {[dim |-> d, change |-> Minus(DimTotal(f, TargetMonth(def), d),
                                             DimTotal(f, BaselineMonth(def), d))] :
                 d \in DimensionsIn(f, TargetMonth(def)) \cup DimensionsIn(f, BaselineMonth(def))}
      before(a, b) == \/ Size(a.change) > Size(b.change)
                      \/ Size(a.change) = Size(b.change) /\ a.dim < b.dim
  IN  InOrder(items, {p \in items \X items : before(p[1], p[2])})

------------------------------------------------------------------------------
(* analyze_scenario *)

ActiveDays(f, I) ==
  IF f.dated /\ I \cap Dated(f) # {}
  THEN Cardinality({f.rows[i].date : i \in I \cap Dated(f)})
  ELSE IF f.dated THEN 1 ELSE 30

Sold(f, I) == Sum([i \in I |-> f.rows[i].sold])

(* stock / (sold / days) compared with a number of days, without dividing;   *)
(* an infinite stock covers every number of days                             *)
CoversLess(stock, sold, days, n) == sold > 0 /\ stock # Null /\ stock * days < n * sold
CoversMore(stock, sold, days, n) == sold > 0 /\ (stock = Null \/ stock * days > n * sold)

RiskType(stock, sold, reorder, days) ==
  CASE \/ stock # Null /\ stock <= reorder
       \/ CoversLess(stock, sold, days, 7)    -> "stockout"
    [] CoversMore(stock, sold, days, 90)      -> "overstock"
    [] sold <= 0 /\ (stock = Null \/ stock > 0) -> "slow_moving"
    [] OTHER                                  -> "none"

(* groupby("item") iterates in the order of the items *)
Risks(f, def) ==
  LET I == Scoped(f, def)
      of(d) == {i \in I : f.rows[i].dim = d}
      risk(d) == RiskType(Total(f, of(d)), Sold(f, of(d)), f.reorder, ActiveDays(f, I))
      risky == {d \in {f.rows[i].dim : i \in I} : risk(d) # "none"}
  IN  IF def.scenario = "inventory_anomaly" THEN Ascending(risky) ELSE <<>>

(* The values of the scenario's own metrics, null where they are not finite: *)
(* the number of risks and the number of orders always are, and the average   *)
(* coverage is as finite as the stock of the items that sell.                 *)
ScenarioMetrics(f, def) ==
  LET I == Scoped(f, def)
      covered == {i \in I : Sold(f, {j \in I : f.rows[j].dim = f.rows[i].dim}) > 0}
  IN
  CASE def.scenario = "inventory_anomaly"  ->
         <<Total(f, I), Len(Risks(f, def))>>
           \o (IF covered = {} THEN <<>> ELSE <<Total(f, covered)>>)
    [] def.scenario = "market_performance" ->
         <<Sold(f, I)>> \o (IF Sold(f, I) = 0 THEN <<>> ELSE <<Total(f, I)>>)
    [] OTHER                               -> <<>>

------------------------------------------------------------------------------
(* build_evidence *)

Take(s, n) == SubSeq(s, 1, IF Len(s) < n THEN Len(s) ELSE n)

Concat(ks, Op(_)) == FlattenSeq([j \in DOMAIN ks |-> Op(ks[j])])

EvidenceOf(files, k, kind, change) ==
  [kind |-> kind, file |-> k, change |-> change, quality |-> evidence_quality(files[k])]

ComparisonEvidence(files, def, ks) ==
  Concat(ks, LAMBDA k : IF HasComparison(files[k], def)
                        THEN <<EvidenceOf(files, k, "comparison", Comparison(files[k], def).change)>>
                        ELSE <<>>)

ChangeEvidence(files, def, ks) ==
  LET items(k) == Take(Changes(files[k], def), ItemsPerDimension)
  IN  Concat(ks, LAMBDA k : IF HasChanges(files[k], def)
                            THEN [j \in DOMAIN items(k) |->
                                    EvidenceOf(files, k, "dimension_change", items(k)[j].change)]
                            ELSE <<>>)

RiskEvidence(files, def, ks) ==
  LET items(k) == [j \in DOMAIN Risks(files[k], def) |-> EvidenceOf(files, k, "inventory_risk", 0)]
  IN  Take(Concat(ks, items), RisksCited)

(* a metric whose time scope is not verified is limited evidence whatever    *)
(* its file is like                                                          *)
MetricEvidence(files, def, ks) ==
  LET item(k) == EvidenceOf(files, k, "metric", 0)
  IN  Take([j \in DOMAIN ks |-> IF ScopeVerified(files[ks[j]], def) THEN item(ks[j])
                                ELSE [item(ks[j]) EXCEPT !.quality = "limited"]],
           MetricsCited)

Evidence(files, def) ==
  LET ks == AnalyzedFiles(files, def)
      found == ComparisonEvidence(files, def, ks) \o ChangeEvidence(files, def, ks)
                 \o RiskEvidence(files, def, ks)
  IN  IF found = <<>> THEN MetricEvidence(files, def, ks) ELSE found

------------------------------------------------------------------------------
(* determine_attribution.  Confidence is in hundredths; evidence is cited by *)
(* its position, which is what its generated id counts.                       *)

(* Mutant: limited evidence confirms. *)
attribution_level_Limited(quality, confidence) ==
  [status |-> "confirmed", conf |-> confidence, needed |-> quality # "verified"]

attribution_level(quality, confidence) ==
  IF quality = "verified"
  THEN [status |-> "confirmed", conf |-> confidence, needed |-> FALSE]
  ELSE [status |-> "probable", conf |-> IF confidence < 70 THEN confidence ELSE 70,
        needed |-> TRUE]

Conclude(evidence, e, confidence) ==
  LET level == attribution_level(evidence[e].quality, confidence)
  IN  [status |-> level.status, conf |-> level.conf, needed |-> level.needed, cites |-> {e}]

OfKind(evidence, kind) == Ascending({e \in DOMAIN evidence : evidence[e].kind = kind})

(* the declining dimension values, the largest decline first *)
Declines(evidence) ==
  LET declining == {e \in DOMAIN evidence : /\ evidence[e].kind = "dimension_change"
                                            /\ evidence[e].change # Null
                                            /\ evidence[e].change < 0}
      before(d, e) == \/ evidence[d].change < evidence[e].change
                      \/ evidence[d].change = evidence[e].change /\ d < e
  IN  InOrder(declining, {p \in declining \X declining : before(p[1], p[2])})

Conclusions(evidence) ==
  LET conclude(es, confidence) ==
        [j \in DOMAIN es |-> Conclude(evidence, es[j], confidence)]
      found == conclude(Take(OfKind(evidence, "comparison"), 1), 98)
                 \o conclude(Take(Declines(evidence), DeclinesNamed), 95)
                 \o conclude(Take(OfKind(evidence, "inventory_risk"), RisksNamed), 90)
  IN  IF found # <<>> THEN found
      ELSE <<[status |-> "to_verify", conf |-> 45, needed |-> TRUE,
              cites |-> {e \in DOMAIN evidence : e <= 3}]>>

===============================================================================

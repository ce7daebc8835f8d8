----------------------------- MODULE MCAgentGraph -----------------------------
(* Small inputs for AgentGraph: every table of at most four of the rows     *)
(* below, alone, and a few pairs of tables.                                  *)
EXTENDS AgentGraph

Line(date, dim, value, sold) == [date |-> date, dim |-> dim, value |-> value, sold |-> sold]

(* months 1, 2 and 13, 14: a year apart, and each followed by the next *)
RowList == <<Line(205, 1, 4, 1), Line(205, 2, 1, 0), Line(1305, 1, 2, 1), Line(1305, 2, 3, 0),
             Line(1405, 1, 1, 1), Line(1406, 2, 5, 2), Line(305, 1, 2, 0),
             Line(1405, 1, Null, 1), Line(1405, 2, Inf, 0), Line(1305, 1, Text, 0),
             Line(Null, 1, 2, 0)>>

Small == DOMAIN RowList

Tables ==
  UNION {{[i \in 1..n |-> RowList[t[i]]] :
            t \in {u \in [1..n -> Small] : \A i \in 2..n : u[i - 1] <= u[i]}} : n \in 0..4}

Table(rows) == [readable |-> TRUE, dated |-> TRUE, named |-> TRUE, reorder |-> 1, rows |-> rows]

Def(kind, months, baseline, scenario) ==
  [range |-> [kind |-> kind, months |-> months], baseline |-> baseline, scenario |-> scenario]

Definitions == {Def("month", {14}, "previous_period", "general"),
                Def("month", {14}, "year_over_year", "market_performance"),
                Def("month", {2}, "year_over_year", "general"),
                Def("month", {14}, "previous_period", "inventory_anomaly"),
                Def("span", {13, 14}, "previous_period", "inventory_anomaly"),
                Def("other", {}, "other", "general")}

Ask(missing, d, fs) == [missing |-> missing, definition |-> d, files |-> fs]

Good == Table(<<RowList[1], RowList[3], RowList[5], RowList[6]>>)
Holed == Table(<<RowList[1], RowList[5], RowList[8]>>)
Endless == Table(<<RowList[9]>>)
NoMetric == [Good EXCEPT !.named = FALSE]
Undated == [Good EXCEPT !.dated = FALSE]
Unreadable == [Good EXCEPT !.readable = FALSE]

Pairs == {<<f, g>> : f \in {Good, Holed, NoMetric}, g \in {Good, Endless, Undated, Unreadable}}

MCStressed == {Ask(TRUE, Def("month", {14}, "other", "general"), <<Good>>),
               Ask(FALSE, Def("month", {14}, "year_over_year", "general"), <<Good, Holed>>),
               Ask(FALSE, Def("span", {13, 14}, "previous_period", "inventory_anomaly"),
                   <<Endless>>),
               Ask(FALSE, Def("month", {14}, "previous_period", "market_performance"),
                   <<Endless>>)}

MCRequests == MCStressed
  \cup {Ask(FALSE, d, <<Table(rows)>>) : d \in Definitions, rows \in Tables}
  \cup {Ask(FALSE, d, fs) : d \in Definitions, fs \in Pairs}

===============================================================================

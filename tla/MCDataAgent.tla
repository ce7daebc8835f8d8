------------------------------ MODULE MCDataAgent ------------------------------
EXTENDS DataAgent

MCQuestions == {[year |-> 0, month |-> 12, padded |-> FALSE],
                [year |-> 0, month |-> 1, padded |-> FALSE],
                [year |-> 2, month |-> 6, padded |-> TRUE],
                [year |-> 2, month |-> 12, padded |-> FALSE],
                [year |-> 0, month |-> 0, padded |-> FALSE]}

MCPlans == {[year |-> 1, month |-> 12], [year |-> 0, month |-> 0]}

MCTodays == {[year |-> 3, month |-> 1], [year |-> 3, month |-> 7]}

===============================================================================

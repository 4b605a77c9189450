--------------------------- MODULE MCExcelRoadmap ---------------------------
(* ExcelRoadmap on a workbook of two rows that another program may reorder, *)
(* shorten, make ambiguous or fill with a status the connector ignores.     *)
(* One request names an action exactly and no owner; one resembles it and   *)
(* names the owner of another row; one names an owner and a month.          *)
EXTENDS ExcelRoadmap, TLC

CONSTANTS a, b, ann, bob, may, q1, q2

MCText == {a, b}
MCName == {ann, bob, may}
\* "a" and "b" resemble each other enough to pass the threshold.
MCSimilarity == [pair \in MCText \X MCText |-> IF pair[1] = pair[2] THEN 85 ELSE 70]
MCProposals  == {q1, q2}
MCProposal   == {q1}

MCAsked == {[action |-> a, owner |-> None, month |-> None],
            [action |-> a, owner |-> bob, month |-> None],
            [action |-> b, owner |-> ann, month |-> may]}

ARow  == [action |-> a, owner |-> ann, month |-> may, status |-> "not_done"]
BRow  == [action |-> b, owner |-> bob, month |-> None, status |-> "done"]
ABob  == [ARow EXCEPT !.owner = bob]
AOdd  == [ARow EXCEPT !.status = "unrecognized"]

MCLayouts == {<<ARow, BRow>>, <<BRow, ARow>>, <<ARow, ABob>>, <<AOdd, BRow>>}
Symmetry  == Permutations(MCProposals)
=============================================================================

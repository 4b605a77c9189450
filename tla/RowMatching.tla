---------------------------- MODULE RowMatching ----------------------------
(***************************************************************************)
(* Which row of the roadmap a request means: every row that is read, which *)
(* takes a recognized status, has a score, and the best one is taken when  *)
(* it is good enough and clearly better than the next.  Scores are in      *)
(* hundredths.  The similarity of two texts (difflib and shared words) is  *)
(* a parameter; a margin of exactly the limit, which rounding decides in   *)
(* the program, is taken as enough here.                                   *)
(***************************************************************************)
EXTENDS Integers

CONSTANTS
    Text,         \* texts of actions, in requests and in rows, normalized
    Name,         \* owners and months, normalized
    Similarity,   \* action_similarity of a requested text and a row's text
    None          \* an owner or a month that is not given

Threshold == 62
Margin    == 8

Status == {"not_done", "in_progress", "done"}
Row == [action : Text, owner : Name \cup {None}, month : Name \cup {None},
        status : Status \cup {"unrecognized"}]
Request == [action : Text, owner : Name \cup {None}, month : Name \cup {None}]

ASSUME SimilarityAssumption == Similarity \in [Text \X Text -> 0 .. 100]
ASSUME NameAssumption == None \notin Name

\* A hint counts for a row that agrees and against one that disagrees, and for
\* nothing when either has none.
Hint(wanted, held, bonus, malus) ==
    IF None \in {wanted, held} THEN 0
    ELSE IF wanted = held THEN bonus ELSE -malus

Clamp(n) == IF n < 0 THEN 0 ELSE IF n > 100 THEN 100 ELSE n

Score(request, row) ==
    Clamp(Similarity[<<request.action, row.action>>]
          + Hint(request.owner, row.owner, 8, 5)
          + Hint(request.month, row.month, 6, 3))

\* Rows with a status the connector does not recognize are not read.
Items(rows) == {i \in DOMAIN rows : rows[i].status \in Status}

\* Mutant: the best row is taken, however close the next one is.
MatchesWithoutMargin(rows, request) ==
    {i \in Items(rows) :
        /\ Score(request, rows[i]) >= Threshold
        /\ \A j \in Items(rows) : Score(request, rows[i]) >= Score(request, rows[j])}

Matches(rows, request) ==
    {i \in Items(rows) :
        /\ Score(request, rows[i]) >= Threshold
        /\ \A j \in Items(rows) \ {i} :
             Score(request, rows[i]) - Score(request, rows[j]) >= Margin}

\* Row r speaks for the request at least as well as row s in every respect.
AsGood(request, r, s) ==
    /\ Similarity[<<request.action, r.action>>] >= Similarity[<<request.action, s.action>>]
    /\ Hint(request.owner, r.owner, 1, 1) >= Hint(request.owner, s.owner, 1, 1)
    /\ Hint(request.month, r.month, 1, 1) >= Hint(request.month, s.month, 1, 1)
=============================================================================

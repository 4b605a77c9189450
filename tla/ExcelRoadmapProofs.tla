------------------------- MODULE ExcelRoadmapProofs -------------------------
(***************************************************************************)
(* What the connector guarantees for every roadmap, similarity of texts,   *)
(* number of proposals, saves and mishaps.                                 *)
(*                                                                         *)
(* Type correctness needs the shape of the running call (CallInv).  What   *)
(* is written where nobody saved during a call rests on a fact that no     *)
(* variable holds: a version has one contents.  Told says that there is a  *)
(* function from versions to rows that every whole file, every proposal    *)
(* and every reported success agrees with, and where the running call      *)
(* stands towards it.                                                      *)
(*                                                                         *)
(* On the same facts, and that a version that is made is newer than all    *)
(* others until it is shown (FreshInv), rests that the connector           *)
(* implements Workbook.                                                    *)
(***************************************************************************)
EXTENDS ExcelRoadmap, TLAPS

Holding == {"edited", "copying", "kept"}
Checked == {"checked", "copied"} \cup Holding

CallRecord ==
    [pc : {"idle", "read", "restoring"} \cup Applying, proposal : Proposal \cup {None},
     request : Request \cup {None}, row : Nat, before : Row \cup {None},
     after : Status \cup {None}, base : Nat, temp : File]

(* The fields of the running call, as far as it has come.                   *)
CallInv ==
    /\ call \in CallRecord
    /\ outcome \in OutcomeRecord
    /\ call.pc = "read" =>
         call.proposal \in Proposal /\ call.before \in Row /\ call.after \in Status
    /\ call.pc \in Applying => call.after \in Status
    /\ call.pc \in {"copying", "restoring"} => call.base \in DOMAIN backups
    /\ call.pc \in Holding => ~call.temp.torn
    /\ HoldsTemp => temps > 0

TypeInv == TypeOK /\ CallInv

-----------------------------------------------------------------------------
\* Rows.

(* A bonus is no smaller for a row that fits a hint no worse.               *)
LEMMA HintBonus ==
    ASSUME NEW wanted, NEW r, NEW s, Hint(wanted, r, 1, 1) >= Hint(wanted, s, 1, 1)
    PROVE  /\ Hint(wanted, r, 8, 5) >= Hint(wanted, s, 8, 5)
           /\ Hint(wanted, r, 6, 3) >= Hint(wanted, s, 6, 3)
BY DEF Hint

(* A row that speaks for the request as well as another has no lower score. *)
LEMMA ScoreRespectsAsGood ==
    ASSUME NEW request \in Request, NEW r \in Row, NEW s \in Row, AsGood(request, r, s)
    PROVE  Score(request, r) \in Int /\ Score(request, s) \in Int
           /\ Score(request, r) >= Score(request, s)
<1> DEFINE sim(x) == Similarity[<<request.action, x.action>>]
           own(x) == Hint(request.owner, x.owner, 8, 5)
           mon(x) == Hint(request.month, x.month, 6, 3)
<1>1. sim(r) \in Int /\ sim(s) \in Int
  BY SimilarityAssumption DEF Request, Row
<1>2. /\ own(r) \in Int /\ own(s) \in Int
      /\ mon(r) \in Int /\ mon(s) \in Int
  BY DEF Hint
<1>3. sim(r) >= sim(s) /\ own(r) >= own(s) /\ mon(r) >= mon(s)
  BY HintBonus DEF AsGood
<1> HIDE DEF sim, own, mon
<1>4. /\ Clamp(sim(r) + own(r) + mon(r)) \in Int
      /\ Clamp(sim(s) + own(s) + mon(s)) \in Int
      /\ Clamp(sim(r) + own(r) + mon(r)) >= Clamp(sim(s) + own(s) + mon(s))
  BY <1>1, <1>2, <1>3 DEF Clamp
<1> QED
  BY <1>4 DEF Score, sim, own, mon

(* Of the rows that are read, only a match speaks for the request as well   *)
(* as it does.                                                              *)
LEMMA MatchIsBest ==
    ASSUME NEW rows \in Seq(Row), NEW request \in Request,
           NEW i \in Matches(rows, request), NEW j \in Items(rows) \ {i}
    PROVE  ~AsGood(request, rows[j], rows[i])
<1>1. rows[i] \in Row /\ rows[j] \in Row
  BY DEF Matches, Items
<1>2. Score(request, rows[i]) - Score(request, rows[j]) >= 8
  BY DEF Matches, Margin
<1> QED
  BY <1>1, <1>2, ScoreRespectsAsGood

(* A status that is written makes rows of rows.                             *)
LEMMA WrittenRows ==
    ASSUME NEW rows \in Seq(Row), NEW i \in DOMAIN rows, NEW after \in Status
    PROVE  [rows EXCEPT ![i].status = after] \in Seq(Row)
<1>1. [rows[i] EXCEPT !.status = after] \in Row
  <2>1. rows[i] \in Row
    OBVIOUS
  <2> QED
    BY <2>1 DEF Row
<1> QED
  BY <1>1

-----------------------------------------------------------------------------
(* Type correctness.                                                        *)

(* The fields of a file.                                                    *)
LEMMA FileFields ==
    ASSUME NEW f \in File
    PROVE  f.rows \in Seq(Row) /\ f.version \in Nat /\ f.torn \in BOOLEAN
BY DEF File

(* An empty, torn file is a file.                                           *)
LEMMA NoFileIsFile == NoFile \in File
BY DEF NoFile, File

(* propose reads the rows.                                                  *)
LEMMA ProposeReadCall ==
    ASSUME TypeInv, NEW p \in Proposal, NEW request \in Asked, NEW after \in Status,
           NEW named \in BOOLEAN, ProposeRead(p, request, after, named)
    PROVE  CallInv'
<1>1. PICK i \in Matches(book.rows, request) :
        call' = [Idle EXCEPT !.pc = "read", !.proposal = p, !.request = request,
                             !.row = i, !.before = book.rows[i], !.after = after]
  BY DEF ProposeRead
<1>2. i \in Nat /\ book.rows[i] \in Row
  <2>1. book.rows \in Seq(Row)
    BY FileFields DEF TypeInv, TypeOK
  <2> QED
    BY <2>1 DEF Matches, Items
<1>3. call' = [pc |-> "read", proposal |-> p, request |-> request, row |-> i,
               before |-> book.rows[i], after |-> after, base |-> 0, temp |-> NoFile]
  BY <1>1 DEF Idle
<1>4. call' \in CallRecord
  BY <1>2, <1>3, AskedAssumption, NoFileIsFile DEF CallRecord
<1> QED
  BY <1>2, <1>3, <1>4 DEF ProposeRead, TypeInv, CallInv, HoldsTemp, Applying, Holding

(* apply takes over the fields of its proposal.                             *)
LEMMA ApplyCheckedCall ==
    ASSUME TypeInv, NEW p \in Proposal, ApplyChecked(p)
    PROVE  CallInv'
<1>1. /\ proposals[p].row \in Nat /\ proposals[p].before \in Row
      /\ proposals[p].after \in Status /\ book.version \in Nat
  BY DEF ApplyChecked, TypeInv, TypeOK, ProposalRecord, File
<1>2. call' = [pc |-> "checked", proposal |-> p, request |-> None, row |-> proposals[p].row,
               before |-> proposals[p].before, after |-> proposals[p].after,
               base |-> book.version, temp |-> NoFile]
  BY DEF ApplyChecked, Idle
<1>3. call' \in CallRecord
  BY <1>1, <1>2, NoFileIsFile DEF CallRecord, Applying
<1> QED
  BY <1>1, <1>2, <1>3 DEF ApplyChecked, TypeInv, CallInv, HoldsTemp, Applying, Holding

(* The workbook is copied.                                                  *)
LEMMA CopyToTempCall ==
    ASSUME TypeInv, CopyToTemp
    PROVE  CallInv'
<1>1. /\ call' = [call EXCEPT !.pc = "copied", !.temp = book] /\ call.pc = "checked"
      /\ temps' = temps + 1
  BY DEF CopyToTemp
<1>2. call' \in CallRecord
  BY <1>1 DEF TypeInv, TypeOK, CallInv, CallRecord, Applying
<1>3. call'.pc = "copied" /\ call'.after = call.after
  BY <1>1 DEF TypeInv, CallInv, CallRecord
<1> QED
  BY <1>1, <1>2, <1>3 DEF CopyToTemp, TypeInv, TypeOK, CallInv, HoldsTemp, Applying, Holding

(* The copy is edited, and stays a file of rows.                            *)
LEMMA EditTempType ==
    ASSUME TypeInv, EditTemp
    PROVE  TypeInv'
<1> DEFINE rows   == call.temp.rows
           edited == IF call.row \in DOMAIN rows
                     THEN [rows EXCEPT ![call.row].status = call.after] ELSE rows
<1>1. rows \in Seq(Row) /\ call.after \in Status /\ versions + 1 \in Nat
  BY FileFields DEF EditTemp, TypeInv, TypeOK, CallInv, CallRecord, Applying
<1>2. edited \in Seq(Row)
  BY <1>1, WrittenRows
<1>3. call' = [call EXCEPT !.pc = "edited",
                           !.temp = [rows |-> edited, version |-> versions + 1, torn |-> FALSE]]
  BY DEF EditTemp, NextVersion
<1> HIDE DEF edited
<1>4. [rows |-> edited, version |-> versions + 1, torn |-> FALSE] \in File
  BY <1>1, <1>2 DEF File
<1>5. call' \in CallRecord
  BY <1>3, <1>4 DEF TypeInv, CallInv, CallRecord, Applying
<1>6. call'.pc = "edited" /\ call'.after = call.after /\ ~call'.temp.torn
      /\ call'.temp \in File /\ call'.proposal = call.proposal
  BY <1>3, <1>4 DEF TypeInv, CallInv, CallRecord
<1>7. TypeOK'
  BY <1>1, <1>6 DEF EditTemp, Save, NextVersion, TypeInv, TypeOK, disk, Applying
<1>8. CallInv'
  BY <1>1, <1>5, <1>6 DEF EditTemp, TypeInv, TypeOK, CallInv, HoldsTemp, Applying, Holding, disk
<1> QED
  BY <1>7, <1>8 DEF TypeInv

(* The backup is complete, or a mixture.                                    *)
LEMMA BackupEndsType ==
    ASSUME TypeInv, BackupEnds
    PROVE  TypeOK'
<1>1. PICK copy \in {book, NoFile} : backups' = [backups EXCEPT ![call.base] = copy]
  BY DEF BackupEnds
<1>2. copy \in File
  BY <1>1, NoFileIsFile DEF TypeInv, TypeOK
<1>3. DOMAIN backups' \subseteq Nat /\ \A v \in DOMAIN backups' : backups'[v] \in File
  BY <1>1, <1>2 DEF TypeInv, TypeOK
<1>4. call' \in CallRecord /\ call'.pc = "kept"
  BY DEF BackupEnds, TypeInv, CallInv, CallRecord, Applying
<1> QED
  BY <1>3, <1>4 DEF BackupEnds, TypeInv, TypeOK, CallRecord, external

(* apply raises.                                                            *)
LEMMA ApplyRaisesType ==
    ASSUME TypeInv, ApplyRaises
    PROVE  TypeOK'
<1>1. temps' \in Nat /\ mishaps' \in Nat
  BY DEF ApplyRaises, TypeInv, TypeOK, CallInv, HoldsTemp
<1>2. outcome' \in OutcomeRecord
  BY FileFields DEF ApplyRaises, Outcome, TypeInv, TypeOK, OutcomeRecord
<1> QED
  BY <1>1, <1>2, NoFileIsFile DEF ApplyRaises, TypeInv, TypeOK, Idle

(* rollback begins.                                                         *)
LEMMA RollbackStartsType ==
    ASSUME TypeInv, NEW v \in DOMAIN backups, RollbackStarts(v)
    PROVE  TypeInv'
<1>1. book' \in File
  BY DEF RollbackStarts, TypeInv, TypeOK, File
<1>2. v \in Nat
  BY DEF TypeInv, TypeOK
<1>3. call' = [pc |-> "restoring", proposal |-> None, request |-> None, row |-> 0,
               before |-> None, after |-> None, base |-> v, temp |-> NoFile]
  BY DEF RollbackStarts, Idle
<1>4. call' \in CallRecord
  BY <1>2, <1>3, NoFileIsFile DEF CallRecord
<1>5. TypeOK'
  BY <1>1, <1>3, NoFileIsFile DEF RollbackStarts, TypeInv, TypeOK, external
<1>6. CallInv'
  BY <1>3, <1>4 DEF RollbackStarts, TypeInv, CallInv, HoldsTemp, Applying, Holding
<1> QED
  BY <1>5, <1>6 DEF TypeInv

(* Another program saves.                                                   *)
LEMMA EditorSavesType ==
    ASSUME TypeInv, NEW rows \in Layout, EditorSaves(rows)
    PROVE  TypeOK'
<1>1. book' \in File /\ versions' \in Nat
  BY LayoutAssumption DEF EditorSaves, Save, NextVersion, TypeInv, TypeOK, File
<1>2. quiet' \in BOOLEAN
  BY DEF EditorSaves, TypeInv, TypeOK
<1> QED
  BY <1>1, <1>2 DEF EditorSaves, TypeInv, TypeOK, memory

(* Every step keeps the types.                                              *)
LEMMA TypeNext == TypeInv /\ [Next]_vars => TypeInv'
<1> SUFFICES ASSUME TypeInv, [Next]_vars PROVE TypeInv'
  OBVIOUS
<1>1. CASE \E p \in Proposal, request \in Asked, after \in Status, named \in BOOLEAN :
           ProposeRead(p, request, after, named)
  <2>1. TypeOK'
    BY <1>1 DEF TypeOK, TypeInv, ProposeRead, File, ProposalRecord, Applying,
       OutcomeRecord, Idle, Candidates, disk, external, NoFile
  <2>2. CallInv'
    BY <1>1, ProposeReadCall
  <2> QED
    BY <2>1, <2>2 DEF TypeInv
<1>2. CASE Propose
  <2>1. TypeOK'
    BY <1>2 DEF TypeOK, CallInv, TypeInv, Propose, File, ProposalRecord, Applying,
       OutcomeRecord, CallRecord, Holding, HoldsTemp, Put, Idle, disk, external,
       NoFile
  <2>2. CallInv'
    BY <1>2 DEF CallInv, TypeInv, Propose, CallRecord, OutcomeRecord, Applying,
       Holding, HoldsTemp, Put, Idle, disk, external, File, NoFile
  <2> QED
    BY <2>1, <2>2 DEF TypeInv
<1>3. CASE \E p \in Proposal : ApplyRefused(p)
  <2>1. TypeOK'
    BY <1>3 DEF TypeOK, TypeInv, ApplyRefused, File, ProposalRecord, Applying,
       OutcomeRecord, Idle, Outcome, disk, external, NoFile
  <2>2. CallInv'
    BY <1>3 DEF CallInv, TypeOK, TypeInv, ApplyRefused, CallRecord, OutcomeRecord,
       Applying, Holding, HoldsTemp, File, ProposalRecord, Idle, Outcome, disk,
       external, NoFile
  <2> QED
    BY <2>1, <2>2 DEF TypeInv
<1>4. CASE \E p \in Proposal : ApplyNoOp(p)
  <2>1. TypeOK'
    BY <1>4 DEF TypeOK, TypeInv, ApplyNoOp, File, ProposalRecord, Applying,
       OutcomeRecord, Idle, AlreadyApplied, Outcome, disk, external, NoFile
  <2>2. CallInv'
    BY <1>4 DEF CallInv, TypeOK, TypeInv, ApplyNoOp, CallRecord, OutcomeRecord,
       Applying, Holding, HoldsTemp, File, ProposalRecord, Idle, AlreadyApplied,
       Outcome, disk, external, NoFile
  <2> QED
    BY <2>1, <2>2 DEF TypeInv
<1>5. CASE \E p \in Proposal : ApplyChecked(p)
  <2>1. TypeOK'
    BY <1>5 DEF TypeOK, TypeInv, ApplyChecked, File, ProposalRecord, Applying,
       OutcomeRecord, Idle, AlreadyApplied, disk, external, NoFile
  <2>2. CallInv'
    BY <1>5, ApplyCheckedCall
  <2> QED
    BY <2>1, <2>2 DEF TypeInv
<1>6. CASE CopyToTemp
  <2>1. TypeOK'
    BY <1>6 DEF TypeOK, TypeInv, CopyToTemp, File, ProposalRecord, Applying,
       OutcomeRecord, external
  <2>2. CallInv'
    BY <1>6, CopyToTempCall
  <2> QED
    BY <2>1, <2>2 DEF TypeInv
<1>7. CASE EditTemp
  BY <1>7, EditTempType
<1>8. CASE BackupExists
  <2>1. TypeOK'
    BY <1>8 DEF TypeOK, TypeInv, BackupExists, File, ProposalRecord, Applying,
       OutcomeRecord, disk, external
  <2>2. CallInv'
    BY <1>8 DEF CallInv, TypeInv, BackupExists, CallRecord, OutcomeRecord,
       Applying, Holding, HoldsTemp, disk, external, File
  <2> QED
    BY <2>1, <2>2 DEF TypeInv
<1>9. CASE BackupStarts
  <2>1. TypeOK'
    BY <1>9 DEF TypeOK, CallInv, TypeInv, BackupStarts, File, ProposalRecord,
       Applying, OutcomeRecord, CallRecord, Holding, HoldsTemp, Put, NoFile,
       external
  <2>2. CallInv'
    BY <1>9 DEF CallInv, TypeInv, BackupStarts, CallRecord, OutcomeRecord,
       Applying, Holding, HoldsTemp, Put, NoFile, external, File
  <2> QED
    BY <2>1, <2>2 DEF TypeInv
<1>10. CASE BackupEnds
  <2>1. TypeOK'
    BY <1>10, BackupEndsType
  <2>2. CallInv'
    BY <1>10 DEF CallInv, TypeInv, BackupEnds, CallRecord, OutcomeRecord,
       Applying, Holding, HoldsTemp, NoFile, external, File
  <2> QED
    BY <2>1, <2>2 DEF TypeInv
<1>11. CASE Replace
  <2>1. TypeOK'
    BY <1>11 DEF TypeOK, CallInv, TypeInv, Replace, File, ProposalRecord,
       Applying, OutcomeRecord, CallRecord, Holding, HoldsTemp, external
  <2>2. CallInv'
    BY <1>11 DEF CallInv, TypeInv, Replace, CallRecord, OutcomeRecord, Applying,
       Holding, HoldsTemp, external, File
  <2> QED
    BY <2>1, <2>2 DEF TypeInv
<1>12. CASE Report
  <2>1. TypeOK'
    BY <1>12 DEF TypeOK, CallInv, TypeInv, Report, File, ProposalRecord, Applying,
       OutcomeRecord, CallRecord, Holding, HoldsTemp, Outcome, Idle, disk,
       external, NoFile
  <2>2. CallInv'
    BY <1>12 DEF CallInv, TypeOK, TypeInv, Report, CallRecord, OutcomeRecord,
       Applying, Holding, HoldsTemp, File, ProposalRecord, Outcome, Idle, disk,
       external, NoFile
  <2> QED
    BY <2>1, <2>2 DEF TypeInv
<1>13. CASE ApplyRaises
  <2>1. TypeOK'
    BY <1>13, ApplyRaisesType
  <2>2. CallInv'
    BY <1>13 DEF CallInv, TypeOK, TypeInv, ApplyRaises, CallRecord, OutcomeRecord,
       Applying, Holding, HoldsTemp, File, ProposalRecord, Outcome, Idle, NoFile
  <2> QED
    BY <2>1, <2>2 DEF TypeInv
<1>14. CASE \E v \in DOMAIN backups : RollbackStarts(v)
  BY <1>14, RollbackStartsType
<1>15. CASE RollbackEnds
  <2>1. TypeOK'
    BY <1>15 DEF TypeOK, CallInv, TypeInv, RollbackEnds, File, ProposalRecord,
       Applying, OutcomeRecord, CallRecord, Holding, HoldsTemp, Idle, external,
       NoFile
  <2>2. CallInv'
    BY <1>15 DEF CallInv, TypeInv, RollbackEnds, CallRecord, OutcomeRecord,
       Applying, Holding, HoldsTemp, Idle, external, File, NoFile
  <2> QED
    BY <2>1, <2>2 DEF TypeInv
<1>16. CASE RollbackRaises
  <2>1. TypeOK'
    BY <1>16 DEF TypeOK, TypeInv, RollbackRaises, File, ProposalRecord, Applying,
       OutcomeRecord, Idle, disk, external, NoFile
  <2>2. CallInv'
    BY <1>16 DEF CallInv, TypeInv, RollbackRaises, CallRecord, OutcomeRecord,
       Applying, Holding, HoldsTemp, Idle, disk, external, File, NoFile
  <2> QED
    BY <2>1, <2>2 DEF TypeInv
<1>17. CASE \E rows \in Layout : EditorSaves(rows)
  <2>1. TypeOK'
    BY <1>17, EditorSavesType
  <2>2. CallInv'
    BY <1>17 DEF CallInv, TypeInv, EditorSaves, CallRecord, OutcomeRecord,
       Applying, Holding, HoldsTemp, Save, NextVersion, Idle, memory, File, NoFile
  <2> QED
    BY <2>1, <2>2 DEF TypeInv
<1>18. CASE Crash
  <2>1. TypeOK'
    BY <1>18 DEF TypeOK, TypeInv, Crash, File, ProposalRecord, Applying,
       OutcomeRecord, Idle, Outcome, disk, NoFile
  <2>2. CallInv'
    BY <1>18 DEF CallInv, TypeInv, Crash, CallRecord, OutcomeRecord, Applying,
       Holding, HoldsTemp, Idle, Outcome, disk, File, NoFile
  <2> QED
    BY <2>1, <2>2 DEF TypeInv
<1>19. CASE UNCHANGED vars
  BY <1>19 DEF TypeInv, TypeOK, CallInv, HoldsTemp, vars
<1> QED
  BY <1>1, <1>2, <1>3, <1>4, <1>5, <1>6, <1>7, <1>8, <1>9, <1>10, <1>11, <1>12,
     <1>13, <1>14, <1>15, <1>16, <1>17, <1>18, <1>19 DEF Next, CallStep

(* The connector starts with no call and a whole workbook.                  *)
LEMMA InitType == Init => TypeInv
<1> SUFFICES ASSUME Init PROVE TypeInv
  OBVIOUS
<1>1. book \in File /\ call = Idle /\ Idle.pc = "idle"
  BY LayoutAssumption DEF Init, File, Idle
<1>2. Idle \in CallRecord
  BY NoFileIsFile DEF Idle, CallRecord
<1>3. TypeOK
  BY <1>1, <1>2, NoFileIsFile DEF Init, TypeOK, OutcomeRecord, CallRecord
<1>4. CallInv
  BY <1>1, <1>2 DEF Init, CallInv, OutcomeRecord, HoldsTemp, Applying, Holding
<1> QED
  BY <1>3, <1>4 DEF TypeInv

(* The state and the running call have their shape.                         *)
LEMMA TypeInvariant == Spec => []TypeInv
BY InitType, TypeNext, PTL DEF Spec

(* Every reachable state of the workbook, its backups, the proposals and    *)
(* the running call is of its type.                                         *)
THEOREM TypeCorrect == Spec => []TypeOK
BY TypeInvariant, PTL DEF TypeInv

-----------------------------------------------------------------------------
(* Copies: one is made and removed within a call, or is left by a mishap.   *)
LEMMA LeftoversNext == TypeInv /\ LeftoversAreMishaps /\ [Next]_vars => LeftoversAreMishaps'
<1> SUFFICES ASSUME TypeInv, LeftoversAreMishaps, [Next]_vars PROVE LeftoversAreMishaps'
  OBVIOUS
<1> USE DEF LeftoversAreMishaps, HoldsTemp
<1>0. /\ temps \in Nat /\ mishaps \in Nat
      /\ call \in CallRecord /\ Idle.pc = "idle"
  BY DEF TypeInv, TypeOK, CallInv, Idle
<1>1. CASE \/ \E p \in Proposal, request \in Asked, after \in Status, named \in BOOLEAN :
                ProposeRead(p, request, after, named)
           \/ \E p \in Proposal : ApplyRefused(p) \/ ApplyNoOp(p) \/ ApplyChecked(p)
           \/ \E v \in DOMAIN backups : RollbackStarts(v)
           \/ \E rows \in Layout : EditorSaves(rows)
           \/ Propose \/ RollbackEnds \/ RollbackRaises
  BY <1>0, <1>1 DEF ProposeRead, ApplyRefused, ApplyNoOp, ApplyChecked, RollbackStarts,
     EditorSaves, Propose, RollbackEnds, RollbackRaises, Idle, disk, memory, external
<1>2. CASE CopyToTemp \/ EditTemp \/ BackupExists \/ BackupStarts \/ BackupEnds \/ Replace \/ Report
  <2>1. mishaps' = mishaps
    BY <1>2 DEF CopyToTemp, EditTemp, BackupExists, BackupStarts, BackupEnds,
       Replace, Report, external
  <2>2. \/ /\ call.pc = "checked"
           /\ temps' = temps + 1
           /\ call'.pc = "copied"
        \/ /\ call.pc \in {"copied", "edited", "copying"}
           /\ temps' = temps
           /\ call'.pc \in {"edited", "copying", "kept"}
        \/ /\ call.pc = "kept"
           /\ temps' = temps - 1
           /\ call'.pc = "replaced"
        \/ /\ call.pc = "replaced"
           /\ temps' = temps
           /\ call'.pc = "idle"
    <3>1. \A pc : [call EXCEPT !.pc = pc].pc = pc
      BY <1>0 DEF CallRecord
    <3>2. \A pc, temp : [call EXCEPT !.pc = pc, !.temp = temp].pc = pc
      BY <1>0 DEF CallRecord
    <3>3. CASE CopyToTemp
      BY <3>2, <3>3 DEF CopyToTemp
    <3>4. CASE EditTemp
      BY <3>2, <3>4 DEF EditTemp, disk
    <3>5. CASE BackupExists \/ BackupStarts \/ BackupEnds
      BY <3>1, <3>5 DEF BackupExists, BackupStarts, BackupEnds, disk
    <3>6. CASE Replace
      BY <3>1, <3>6 DEF Replace
    <3>7. CASE Report
      BY <1>0, <3>7 DEF Report, disk
    <3> QED
      BY <1>2, <3>3, <3>4, <3>5, <3>6, <3>7
  <2> QED
    BY <1>0, <2>1, <2>2
<1>3. CASE ApplyRaises
  BY <1>0, <1>3 DEF ApplyRaises
<1>4. CASE Crash
  BY <1>0, <1>4 DEF Crash, disk
<1>5. CASE UNCHANGED vars
  BY <1>5 DEF vars
<1> QED
  BY <1>1, <1>2, <1>3, <1>4, <1>5 DEF Next, CallStep

(* A temporary copy outlives its call only by a crash or a failed clean-up. *)
THEOREM OnlyMishapsLeaveCopies == Spec => []LeftoversAreMishaps
<1>1. Init => LeftoversAreMishaps
  BY DEF Init, LeftoversAreMishaps, HoldsTemp, Idle
<1> QED
  BY <1>1, LeftoversNext, TypeInvariant, PTL DEF Spec

(* Replacing the workbook by the edited copy is atomic, and the copy is     *)
(* whole.                                                                   *)
LEMMA TornByRollback ==
    ASSUME TypeInv, Next, ~book.torn, book'.torn
    PROVE  "restoring" \in {call.pc, call'.pc}
<1>1. book' # book
  OBVIOUS
<1>2. CASE Replace
  BY <1>2 DEF Replace, TypeInv, CallInv, Holding
<1>3. CASE \E rows \in Layout : EditorSaves(rows)
  BY <1>3 DEF EditorSaves
<1>4. CASE RollbackEnds \/ \E v \in DOMAIN backups : RollbackStarts(v)
  BY <1>4 DEF RollbackEnds, RollbackStarts, Idle
<1> QED
  BY <1>1, <1>2, <1>3, <1>4 DEF Next, CallStep, ProposeRead, Propose, ApplyRefused, ApplyNoOp,
     ApplyChecked, CopyToTemp, EditTemp, BackupExists, BackupStarts, BackupEnds, Report,
     ApplyRaises, RollbackRaises, Crash, disk

(* Half a workbook is left by a rollback and by nothing else.               *)
THEOREM ApplyIsAtomic == Spec => OnlyRollbackTears
<1>1. TypeInv /\ [Next]_vars =>
        [~book.torn /\ book'.torn => "restoring" \in {call.pc, call'.pc}]_vars
  BY TornByRollback
<1> QED
  BY <1>1, TypeInvariant, PTL DEF Spec, OnlyRollbackTears

(* A row is proposed by ProposeRead, from the matches of its request.       *)
LEMMA ProposesMatch ==
    ASSUME TypeInv, Next, call.pc = "idle", call'.pc = "read",
           NEW j \in Items(book.rows) \ {call'.row}
    PROVE  ~AsGood(call'.request, book.rows[j], book.rows[call'.row])
<1>1. PICK p \in Proposal, request \in Asked, after \in Status, named \in BOOLEAN :
        ProposeRead(p, request, after, named)
  <2>1. Idle.pc = "idle"
    BY DEF Idle
  <2>2. ~CallStep
    BY DEF CallStep, Propose, CopyToTemp, EditTemp, BackupExists, BackupStarts, BackupEnds,
       Replace, Report, ApplyRaises, Applying, RollbackEnds, RollbackRaises
  <2>3. ~\E p \in Proposal : ApplyRefused(p) \/ ApplyNoOp(p) \/ ApplyChecked(p)
    BY DEF ApplyRefused, ApplyNoOp, ApplyChecked, Idle
  <2>4. ~\E v \in DOMAIN backups : RollbackStarts(v)
    BY DEF RollbackStarts, Idle
  <2>5. ~Crash /\ ~\E rows \in Layout : EditorSaves(rows)
    BY <2>1 DEF Crash, EditorSaves, memory
  <2> QED
    BY <2>2, <2>3, <2>4, <2>5 DEF Next
<1>2. call'.request = request /\ call'.row \in Matches(book.rows, request)
  BY <1>1 DEF ProposeRead, Idle
<1>3. book.rows \in Seq(Row) /\ request \in Request
  BY FileFields, AskedAssumption DEF TypeInv, TypeOK
<1> QED
  BY <1>2, <1>3, MatchIsBest

(* The row that is shown for approval is the best of those that are read;   *)
(* of the rows with a status that is not recognized nothing is shown.       *)
THEOREM TheBestRowReadIsProposed == Spec => ProposesTheBestRowItReads
<1>1. TypeInv /\ [Next]_vars =>
        [call.pc = "idle" /\ call'.pc = "read" =>
           \A j \in Items(book.rows) \ {call'.row} :
               ~AsGood(call'.request, book.rows[j], book.rows[call'.row])]_vars
  BY ProposesMatch
<1> QED
  BY <1>1, TypeInvariant, PTL DEF Spec, ProposesTheBestRowItReads

-----------------------------------------------------------------------------
(* Versions and their contents.  C gives the rows of every version there    *)
(* was.                                                                     *)

\* A file that is whole has the contents of its version.
Agrees(f, C) ==
    IF f.torn THEN f.version = 0
    ELSE f.version \in DOMAIN C /\ f.rows = C[f.version]

ProposalAgrees(prop, C) ==
    /\ prop.fingerprint \in DOMAIN C
    /\ prop.row \in DOMAIN C[prop.fingerprint]
    /\ C[prop.fingerprint][prop.row] = prop.before

\* The running call, towards its proposal and the workbook.
CallAgrees ==
    /\ call.pc = "read" => /\ ~book.torn
                           /\ call.row \in DOMAIN book.rows
                           /\ book.rows[call.row] = call.before
    /\ call.pc \in Applying =>
         /\ call.proposal \in DOMAIN proposals
         /\ call.row = proposals[call.proposal].row
         /\ call.after = proposals[call.proposal].after
    /\ call.pc \in Checked =>
         /\ ~book.torn
         /\ book.version = call.base
         /\ call.base = proposals[call.proposal].fingerprint
    /\ call.pc = "copied" => call.temp = book
    /\ call.pc \in Holding =>
         call.temp.rows = [book.rows EXCEPT ![call.row].status = call.after]
    /\ call.pc = "replaced" => /\ ~book.torn
                               /\ call.row \in DOMAIN book.rows
                               /\ book.rows[call.row].status = call.after

OutcomeAgrees(C) ==
    outcome.status = "success" =>
        /\ outcome.version \in DOMAIN C
        /\ outcome.row \in DOMAIN C[outcome.version]
        /\ C[outcome.version][outcome.row].status = outcome.after

Told(C) ==
    /\ DOMAIN C = 1 .. versions
    /\ Agrees(book, C)
    /\ Agrees(call.temp, C)
    /\ \A v \in DOMAIN backups : Agrees(backups[v], C)
    /\ \A p \in DOMAIN proposals : ProposalAgrees(proposals[p], C)
    /\ OutcomeAgrees(C)

VersionInv == quiet => CallAgrees /\ BackupsAreGenuine /\ \E C : Told(C)

(* The call's row is a row of the workbook as it is.                        *)
LEMMA ProposeReadVersions ==
    ASSUME TypeInv, CallAgrees, BackupsAreGenuine, quiet, NEW C, Told(C), NEW p \in
           Proposal, NEW request \in Asked, NEW after \in Status, NEW named \in
           BOOLEAN, ProposeRead(p, request, after, named)
    PROVE  Told(C)' /\ CallAgrees' /\ BackupsAreGenuine'
<1>1. Told(C)'
  BY DEF Told, ProposeRead, Agrees, ProposalAgrees, OutcomeAgrees, Idle,
     Candidates, disk, external, NoFile, Matches, Items
<1>2. CallAgrees'
  BY DEF CallAgrees, ProposeRead, Applying, Checked, Holding, Idle, Candidates,
     disk, external, NoFile, Matches, Items
<1>3. BackupsAreGenuine'
  BY DEF BackupsAreGenuine, ProposeRead, Idle, Candidates, disk, external, NoFile,
     Matches, Items
<1> QED
  BY <1>1, <1>2, <1>3

(* The proposal is of the version the rows were read from.                  *)
LEMMA ProposeVersions ==
    ASSUME TypeInv, CallAgrees, BackupsAreGenuine, quiet, NEW C, Told(C), Propose
    PROVE  Told(C)' /\ CallAgrees' /\ BackupsAreGenuine'
<1>1. Told(C)'
  BY DEF Told, CallAgrees, Propose, Agrees, ProposalAgrees, OutcomeAgrees,
     Applying, Checked, Holding, Put, Idle, disk, external, NoFile
<1>2. CallAgrees'
  BY DEF CallAgrees, Propose, Applying, Checked, Holding, Put, Idle, disk,
     external, NoFile
<1>3. BackupsAreGenuine'
  BY DEF BackupsAreGenuine, Propose, Put, Idle, disk, external, NoFile
<1> QED
  BY <1>1, <1>2, <1>3

(* A refusal touches no file and reports no success.                        *)
LEMMA ApplyRefusedVersions ==
    ASSUME TypeInv, CallAgrees, BackupsAreGenuine, quiet, NEW C, Told(C), NEW p \in
           Proposal, ApplyRefused(p)
    PROVE  Told(C)' /\ CallAgrees' /\ BackupsAreGenuine'
<1>1. Told(C)'
  BY DEF Told, ApplyRefused, Agrees, ProposalAgrees, OutcomeAgrees, Idle, Outcome,
     disk, external, NoFile
<1>2. CallAgrees'
  BY DEF CallAgrees, ApplyRefused, Applying, Checked, Holding, Idle, Outcome,
     disk, external, NoFile
<1>3. BackupsAreGenuine'
  BY DEF BackupsAreGenuine, ApplyRefused, Idle, Outcome, disk, external, NoFile
<1> QED
  BY <1>1, <1>2, <1>3

(* The workbook is the proposal's version, so the row has the status.       *)
LEMMA ApplyNoOpVersions ==
    ASSUME TypeInv, CallAgrees, BackupsAreGenuine, quiet, NEW C, Told(C), NEW p \in
           Proposal, ApplyNoOp(p)
    PROVE  Told(C)' /\ CallAgrees' /\ BackupsAreGenuine'
<1>1. Told(C)'
  BY DEF Told, ApplyNoOp, Agrees, ProposalAgrees, OutcomeAgrees, Idle,
     AlreadyApplied, Outcome, disk, external, NoFile
<1>2. CallAgrees'
  BY DEF CallAgrees, ApplyNoOp, Applying, Checked, Holding, Idle, AlreadyApplied,
     Outcome, disk, external, NoFile
<1>3. BackupsAreGenuine'
  BY DEF BackupsAreGenuine, ApplyNoOp, Idle, AlreadyApplied, Outcome, disk,
     external, NoFile
<1> QED
  BY <1>1, <1>2, <1>3

(* The call starts from the version the proposal was read from.             *)
LEMMA ApplyCheckedVersions ==
    ASSUME TypeInv, CallAgrees, BackupsAreGenuine, quiet, NEW C, Told(C), NEW p \in
           Proposal, ApplyChecked(p)
    PROVE  Told(C)' /\ CallAgrees' /\ BackupsAreGenuine'
<1>1. Told(C)'
  BY DEF Told, ApplyChecked, Agrees, ProposalAgrees, OutcomeAgrees, Idle,
     AlreadyApplied, disk, external, NoFile
<1>2. CallAgrees'
  BY DEF CallAgrees, Told, ApplyChecked, Applying, Checked, Holding, Agrees,
     ProposalAgrees, OutcomeAgrees, Idle, AlreadyApplied, disk, external, NoFile
<1>3. BackupsAreGenuine'
  BY DEF BackupsAreGenuine, ApplyChecked, Idle, AlreadyApplied, disk, external,
     NoFile
<1> QED
  BY <1>1, <1>2, <1>3

(* The copy is the workbook.                                                *)
LEMMA CopyToTempVersions ==
    ASSUME TypeInv, CallAgrees, BackupsAreGenuine, quiet, NEW C, Told(C), CopyToTemp
    PROVE  Told(C)' /\ CallAgrees' /\ BackupsAreGenuine'
<1>1. Told(C)'
  BY DEF Told, CopyToTemp, Agrees, ProposalAgrees, OutcomeAgrees, external
<1>2. CallAgrees'
  BY DEF CallAgrees, CopyToTemp, Applying, Checked, Holding, external
<1>3. BackupsAreGenuine'
  BY DEF BackupsAreGenuine, CopyToTemp, external
<1> QED
  BY <1>1, <1>2, <1>3

(* A backup that exists is left as it is.                                   *)
LEMMA BackupExistsVersions ==
    ASSUME TypeInv, CallAgrees, BackupsAreGenuine, quiet, NEW C, Told(C), BackupExists
    PROVE  Told(C)' /\ CallAgrees' /\ BackupsAreGenuine'
<1>1. Told(C)'
  BY DEF Told, BackupExists, Agrees, ProposalAgrees, OutcomeAgrees, disk, external
<1>2. CallAgrees'
  BY DEF CallAgrees, BackupExists, Applying, Checked, Holding, disk, external
<1>3. BackupsAreGenuine'
  BY DEF BackupsAreGenuine, BackupExists, disk, external
<1> QED
  BY <1>1, <1>2, <1>3

(* A backup that is being written is torn.                                  *)
LEMMA BackupStartsVersions ==
    ASSUME TypeInv, CallAgrees, BackupsAreGenuine, quiet, NEW C, Told(C), BackupStarts
    PROVE  Told(C)' /\ CallAgrees' /\ BackupsAreGenuine'
<1>1. Told(C)'
  BY DEF Told, BackupStarts, Agrees, ProposalAgrees, OutcomeAgrees, Put, NoFile,
     external
<1>2. CallAgrees'
  BY DEF CallAgrees, BackupStarts, Applying, Checked, Holding, Put, NoFile,
     external
<1>3. BackupsAreGenuine'
  BY DEF BackupsAreGenuine, BackupStarts, Put, NoFile, external
<1> QED
  BY <1>1, <1>2, <1>3

(* The workbook is still the version the backup is named for.               *)
LEMMA BackupEndsVersions ==
    ASSUME TypeInv, CallAgrees, BackupsAreGenuine, quiet, NEW C, Told(C), BackupEnds
    PROVE  Told(C)' /\ CallAgrees' /\ BackupsAreGenuine'
<1>1. Told(C)'
  BY DEF Told, BackupEnds, Agrees, ProposalAgrees, OutcomeAgrees, NoFile, external
<1>2. CallAgrees'
  BY DEF CallAgrees, BackupEnds, Applying, Checked, Holding, NoFile, external
<1>3. BackupsAreGenuine'
  BY DEF BackupsAreGenuine, CallAgrees, BackupEnds, Applying, Checked, Holding,
     NoFile, external
<1> QED
  BY <1>1, <1>2, <1>3

(* The workbook becomes the edited copy, a version of its own.              *)
LEMMA ReplaceVersions ==
    ASSUME TypeInv, CallAgrees, BackupsAreGenuine, quiet, NEW C, Told(C), Replace
    PROVE  Told(C)' /\ CallAgrees' /\ BackupsAreGenuine'
<1>1. Told(C)'
  BY DEF Told, Replace, Agrees, ProposalAgrees, OutcomeAgrees, external
<1>2. CallAgrees'
  <2>1. book'.rows = [book.rows EXCEPT ![call.row].status = call.after]
        /\ call.row \in DOMAIN book.rows /\ ~book'.torn
    BY DEF Replace, TypeInv, CallInv, CallAgrees, Applying, Checked, Holding, Told, Agrees,
       ProposalAgrees
  <2>2. book.rows[call.row] \in Row
    BY <2>1 DEF TypeInv, TypeOK, File
  <2>3. call.row \in DOMAIN book'.rows /\ book'.rows[call.row].status = call.after
    BY <2>1, <2>2 DEF Row
  <2>4. call' = [call EXCEPT !.pc = "replaced"] /\ call.pc = "kept" /\ proposals' = proposals
    BY DEF Replace
  <2>5. /\ call'.pc = "replaced" /\ call'.row = call.row /\ call'.after = call.after
        /\ call'.proposal = call.proposal
    BY <2>4 DEF TypeInv, CallInv, CallRecord
  <2> QED
    BY <2>1, <2>3, <2>4, <2>5 DEF CallAgrees, Applying, Checked, Holding
<1>3. BackupsAreGenuine'
  BY DEF BackupsAreGenuine, Replace, external
<1> QED
  BY <1>1, <1>2, <1>3

(* The version that is reported has the status that was written.            *)
LEMMA ReportVersions ==
    ASSUME TypeInv, CallAgrees, BackupsAreGenuine, quiet, NEW C, Told(C), Report
    PROVE  Told(C)' /\ CallAgrees' /\ BackupsAreGenuine'
<1>1. Told(C)'
  BY DEF Told, CallAgrees, Report, Agrees, ProposalAgrees, OutcomeAgrees,
     Applying, Checked, Holding, Outcome, Idle, disk, external, NoFile
<1>2. CallAgrees'
  BY DEF CallAgrees, Report, Applying, Checked, Holding, Outcome, Idle, disk,
     external, NoFile
<1>3. BackupsAreGenuine'
  BY DEF BackupsAreGenuine, Report, Outcome, Idle, disk, external, NoFile
<1> QED
  BY <1>1, <1>2, <1>3

(* An error reports a failure and leaves the workbook.                      *)
LEMMA ApplyRaisesVersions ==
    ASSUME TypeInv, CallAgrees, BackupsAreGenuine, quiet, NEW C, Told(C), ApplyRaises
    PROVE  Told(C)' /\ CallAgrees' /\ BackupsAreGenuine'
<1>1. Told(C)'
  BY DEF Told, ApplyRaises, Agrees, ProposalAgrees, OutcomeAgrees, Applying,
     Outcome, HoldsTemp, Idle, NoFile
<1>2. CallAgrees'
  BY DEF CallAgrees, ApplyRaises, Applying, Checked, Holding, Outcome, HoldsTemp,
     Idle, NoFile
<1>3. BackupsAreGenuine'
  BY DEF BackupsAreGenuine, ApplyRaises, Applying, Outcome, HoldsTemp, Idle,
     NoFile
<1> QED
  BY <1>1, <1>2, <1>3

(* The workbook is torn while it is restored.                               *)
LEMMA RollbackStartsVersions ==
    ASSUME TypeInv, CallAgrees, BackupsAreGenuine, quiet, NEW C, Told(C), NEW v \in
           DOMAIN backups, RollbackStarts(v)
    PROVE  Told(C)' /\ CallAgrees' /\ BackupsAreGenuine'
<1>1. Told(C)'
  BY DEF Told, RollbackStarts, Agrees, ProposalAgrees, OutcomeAgrees, Idle,
     external, NoFile
<1>2. CallAgrees'
  BY DEF CallAgrees, RollbackStarts, Applying, Checked, Holding, Idle, external,
     NoFile
<1>3. BackupsAreGenuine'
  BY DEF BackupsAreGenuine, RollbackStarts, Idle, external, NoFile
<1> QED
  BY <1>1, <1>2, <1>3

(* The workbook becomes a backup, torn or of the version it is named for.   *)
LEMMA RollbackEndsVersions ==
    ASSUME TypeInv, CallAgrees, BackupsAreGenuine, quiet, NEW C, Told(C), RollbackEnds
    PROVE  Told(C)' /\ CallAgrees' /\ BackupsAreGenuine'
<1>1. Told(C)'
  BY DEF Told, TypeInv, RollbackEnds, Agrees, ProposalAgrees, OutcomeAgrees,
     TypeOK, CallInv, Idle, external, File, ProposalRecord, Applying,
     OutcomeRecord, CallRecord, Holding, HoldsTemp, NoFile
<1>2. CallAgrees'
  BY DEF CallAgrees, RollbackEnds, Applying, Checked, Holding, Idle, external,
     NoFile
<1>3. BackupsAreGenuine'
  BY DEF BackupsAreGenuine, RollbackEnds, Idle, external, NoFile
<1> QED
  BY <1>1, <1>2, <1>3

(* A torn workbook is left.                                                 *)
LEMMA RollbackRaisesVersions ==
    ASSUME TypeInv, CallAgrees, BackupsAreGenuine, quiet, NEW C, Told(C),
           RollbackRaises
    PROVE  Told(C)' /\ CallAgrees' /\ BackupsAreGenuine'
<1>1. Told(C)'
  BY DEF Told, RollbackRaises, Agrees, ProposalAgrees, OutcomeAgrees, Idle, disk,
     external, NoFile
<1>2. CallAgrees'
  BY DEF CallAgrees, RollbackRaises, Applying, Checked, Holding, Idle, disk,
     external, NoFile
<1>3. BackupsAreGenuine'
  BY DEF BackupsAreGenuine, RollbackRaises, Idle, disk, external, NoFile
<1> QED
  BY <1>1, <1>2, <1>3

(* What is in memory is gone; the files stay.                               *)
LEMMA CrashVersions ==
    ASSUME TypeInv, CallAgrees, BackupsAreGenuine, quiet, NEW C, Told(C), Crash
    PROVE  Told(C)' /\ CallAgrees' /\ BackupsAreGenuine'
<1>1. Told(C)'
  BY DEF Told, Crash, Agrees, ProposalAgrees, OutcomeAgrees, Idle, Outcome, disk,
     NoFile
<1>2. CallAgrees'
  BY DEF CallAgrees, Crash, Applying, Checked, Holding, Idle, Outcome, disk,
     NoFile
<1>3. BackupsAreGenuine'
  BY DEF BackupsAreGenuine, Crash, Idle, Outcome, disk, NoFile
<1> QED
  BY <1>1, <1>2, <1>3

\* D has one version more than C, with these rows.
Extends(D, C, rows) ==
    /\ DOMAIN D = 1 .. (versions + 1)
    /\ \A v \in 1 .. versions : D[v] = C[v]
    /\ D[versions + 1] = rows

(* The contents of the versions so far, with those of the next.             *)
LEMMA Extension ==
    ASSUME TypeInv, NEW C, Told(C), NEW rows, NEW D, Extends(D, C, rows)
    PROVE  /\ \A f : Agrees(f, C) => Agrees(f, D)
           /\ \A p \in DOMAIN proposals : ProposalAgrees(proposals[p], D)
           /\ OutcomeAgrees(D)
<1>1. \A v \in DOMAIN C : v \in DOMAIN D /\ D[v] = C[v]
  BY DEF TypeInv, TypeOK, Told, Extends
<1> QED
  BY <1>1 DEF Told, Agrees, ProposalAgrees, OutcomeAgrees

(* A save by another program makes the next version.                        *)
LEMMA EditorSavesTold ==
    ASSUME TypeInv, NEW C, Told(C), NEW rows \in Layout, EditorSaves(rows)
    PROVE  \E D : Told(D)'
<1> PICK D : Extends(D, C, rows)
  <2> WITNESS [v \in 1 .. (versions + 1) |-> IF v = versions + 1 THEN rows ELSE C[v]]
  <2> QED
    BY DEF Extends, TypeInv, TypeOK
<1>1. book' = [rows |-> rows, version |-> versions + 1, torn |-> FALSE]
      /\ versions' = versions + 1
  BY DEF EditorSaves, Save, NextVersion
<1>2. Agrees(book', D)
  BY <1>1 DEF Extends, Agrees, TypeInv, TypeOK
<1>3. Told(D)'
  <2>1. DOMAIN D = 1 .. versions'
    BY <1>1 DEF Extends
  <2>2. Agrees(book', D) /\ Agrees(call'.temp, D)
    BY <1>1, <1>2, Extension DEF EditorSaves, Told, memory
  <2>3. \A v \in DOMAIN backups' : Agrees(backups'[v], D)
    BY Extension DEF EditorSaves, Told, memory
  <2>4. \A p \in DOMAIN proposals' : ProposalAgrees(proposals'[p], D)
    BY Extension DEF EditorSaves, memory
  <2>5. OutcomeAgrees(D)'
    BY Extension DEF EditorSaves, memory, OutcomeAgrees
  <2> QED
    BY <2>1, <2>2, <2>3, <2>4, <2>5 DEF Told
<1> QED
  BY <1>3

(* The edited copy is the next version.                                     *)
LEMMA EditTempTold ==
    ASSUME TypeInv, NEW C, Told(C), EditTemp
    PROVE  \E D : Told(D)'
<1> PICK D : Extends(D, C, call'.temp.rows)
  <2> WITNESS [v \in 1 .. (versions + 1) |-> IF v = versions + 1 THEN call'.temp.rows ELSE C[v]]
  <2> QED
    BY DEF Extends, TypeInv, TypeOK
<1>1. call'.temp.version = versions + 1 /\ ~call'.temp.torn /\ versions' = versions + 1
  BY DEF EditTemp, Save, NextVersion, TypeInv, CallInv, CallRecord
<1>2. Agrees(call'.temp, D)
  BY <1>1 DEF Extends, Agrees, TypeInv, TypeOK
<1>3. Told(D)'
  <2>1. DOMAIN D = 1 .. versions'
    BY <1>1 DEF Extends
  <2>2. Agrees(book', D) /\ Agrees(call'.temp, D)
    BY <1>1, <1>2, Extension DEF EditTemp, Told, disk
  <2>3. \A v \in DOMAIN backups' : Agrees(backups'[v], D)
    BY Extension DEF EditTemp, Told, disk
  <2>4. \A p \in DOMAIN proposals' : ProposalAgrees(proposals'[p], D)
    BY Extension DEF EditTemp, disk
  <2>5. OutcomeAgrees(D)'
    BY Extension DEF EditTemp, disk, OutcomeAgrees
  <2> QED
    BY <2>1, <2>2, <2>3, <2>4, <2>5 DEF Told
<1> QED
  BY <1>3

(* The copy differs from the workbook in the row's status only.             *)
LEMMA EditTempAgrees ==
    ASSUME TypeInv, CallAgrees, NEW C, Told(C), EditTemp
    PROVE  CallAgrees'
<1>1. call.temp = book /\ call.row \in DOMAIN book.rows
  BY DEF EditTemp, CallAgrees, Applying, Checked, Told, Agrees, ProposalAgrees
<1>2. call' = [call EXCEPT !.pc = "edited",
                 !.temp = [rows |-> [book.rows EXCEPT ![call.row].status = call.after],
                           version |-> versions + 1, torn |-> FALSE]]
  BY <1>1 DEF EditTemp, NextVersion
<1>3. /\ call'.pc = "edited" /\ call'.row = call.row /\ call'.after = call.after
      /\ call'.proposal = call.proposal /\ call'.base = call.base
      /\ call'.temp.rows = [book.rows EXCEPT ![call.row].status = call.after]
  BY <1>2 DEF TypeInv, CallInv, CallRecord
<1> QED
  BY <1>3 DEF EditTemp, CallAgrees, Applying, Checked, Holding, disk

(* Where quiet still holds after a save, no call is running.                *)
LEMMA EditorQuiet ==
    ASSUME VersionInv, NEW rows \in Layout, EditorSaves(rows), quiet'
    PROVE  CallAgrees' /\ BackupsAreGenuine'
<1>1. quiet /\ call = Idle /\ call' = Idle /\ backups' = backups
  BY DEF EditorSaves, memory
<1>2. call'.pc = "idle"
  BY <1>1 DEF Idle
<1>3. CallAgrees'
  BY <1>2 DEF CallAgrees, Applying, Checked, Holding
<1> QED
  BY <1>1, <1>3 DEF VersionInv, BackupsAreGenuine

(* Editing the copy leaves the backups alone.                               *)
LEMMA EditTempGenuine == ASSUME BackupsAreGenuine, EditTemp PROVE BackupsAreGenuine'
BY DEF BackupsAreGenuine, EditTemp, disk

(* Every step after which no save fell into a call keeps what is told.      *)
LEMMA VersionNext == TypeInv /\ VersionInv /\ [Next]_vars => VersionInv'
<1> SUFFICES ASSUME TypeInv, VersionInv, [Next]_vars, quiet' PROVE VersionInv'
  BY DEF VersionInv
<1>1. CASE UNCHANGED vars
  BY <1>1 DEF VersionInv, CallAgrees, BackupsAreGenuine, Told, OutcomeAgrees, vars
<1>2. CASE \E rows \in Layout : EditorSaves(rows)
  <2> PICK rows \in Layout : EditorSaves(rows)
    BY <1>2
  <2>1. PICK C : Told(C)
    BY DEF EditorSaves, VersionInv
  <2> QED
    BY <2>1, EditorQuiet, EditorSavesTold DEF VersionInv
<1>3. CASE Next /\ ~(\E rows \in Layout : EditorSaves(rows))
  <2>1. quiet
    BY <1>3 DEF Next, CallStep, ProposeRead, Propose, ApplyRefused, ApplyNoOp, ApplyChecked,
       CopyToTemp, EditTemp, BackupExists, BackupStarts, BackupEnds, Replace, Report, ApplyRaises,
       RollbackStarts, RollbackEnds, RollbackRaises, Crash, external
  <2>2. CallAgrees /\ BackupsAreGenuine /\ \E C : Told(C)
    BY <2>1 DEF VersionInv
  <2>3. PICK C : Told(C)
    BY <2>2
  <2>4. CASE EditTemp
    BY <2>2, <2>3, <2>4, EditTempTold, EditTempAgrees, EditTempGenuine DEF VersionInv
  <2>5. CASE Next /\ ~(\E rows \in Layout : EditorSaves(rows)) /\ ~EditTemp
    <3>1. Told(C)' /\ CallAgrees' /\ BackupsAreGenuine'
      BY <2>1, <2>2, <2>3, <2>5, ProposeReadVersions, ProposeVersions, ApplyRefusedVersions,
         ApplyNoOpVersions, ApplyCheckedVersions, CopyToTempVersions, BackupExistsVersions,
         BackupStartsVersions, BackupEndsVersions, ReplaceVersions, ReportVersions,
         ApplyRaisesVersions, RollbackStartsVersions, RollbackEndsVersions,
         RollbackRaisesVersions, CrashVersions DEF Next, CallStep
    <3> QED
      BY <3>1 DEF VersionInv
  <2> QED
    BY <1>3, <2>4, <2>5
<1> QED
  BY <1>1, <1>2, <1>3

(* The first version has the rows of the workbook.                          *)
LEMMA InitVersions == Init => VersionInv
<1> SUFFICES ASSUME Init PROVE VersionInv
  OBVIOUS
<1>1. Told([v \in 1 .. 1 |-> book.rows])
  BY DEF Init, Told, Agrees, OutcomeAgrees, Idle, NoFile
<1>2. CallAgrees /\ BackupsAreGenuine
  BY DEF Init, CallAgrees, BackupsAreGenuine, Idle, Applying, Checked, Holding
<1> QED
  BY <1>1, <1>2 DEF VersionInv

(* Unless someone saves during a call, a version has one contents.          *)
LEMMA VersionInvariant == Spec => []VersionInv
BY InitVersions, VersionNext, TypeInvariant, PTL DEF Spec

(* The step that replaces the workbook writes what was approved.            *)
LEMMA WritesTheApproved ==
    ASSUME TypeInv, VersionInv, quiet, Next, call.pc = "kept", call'.pc = "replaced"
    PROVE  LET prop == proposals[call.proposal]
           IN  /\ book.version = prop.fingerprint
               /\ book.rows[prop.row] = prop.before
               /\ book'.rows = [book.rows EXCEPT ![prop.row].status = prop.after]
<1>1. Replace
  <2>1. Idle.pc = "idle"
    BY DEF Idle
  <2>2. call # Idle /\ call' # Idle /\ call' # call
    BY <2>1
  <2> QED
    BY <2>2 DEF Next, CallStep, ProposeRead, Propose, ApplyRefused, ApplyNoOp, ApplyChecked,
       CopyToTemp, EditTemp, BackupExists, BackupStarts, BackupEnds, Report, ApplyRaises,
       RollbackStarts, RollbackEnds, RollbackRaises, EditorSaves, Crash, memory
<1>2. PICK C : Told(C)
  BY DEF VersionInv
<1> QED
  BY <1>1, <1>2 DEF Replace, VersionInv, CallAgrees, Applying, Checked, Holding, Told, Agrees,
     ProposalAgrees

(* Where nobody saved the workbook during a call, what is written is what   *)
(* was shown for approval, on the version it was read from.                 *)
THEOREM WhatIsApprovedIsWritten == Spec => WritesWhatWasApproved
<1>1. TypeInv /\ VersionInv /\ [Next]_vars =>
        [quiet /\ call.pc = "kept" /\ call'.pc = "replaced" =>
           LET prop == proposals[call.proposal]
           IN  /\ book.version = prop.fingerprint
               /\ book.rows[prop.row] = prop.before
               /\ book'.rows = [book.rows EXCEPT ![prop.row].status = prop.after]]_vars
  BY WritesTheApproved
<1> QED
  BY <1>1, TypeInvariant, VersionInvariant, PTL DEF Spec, WritesWhatWasApproved

(* A backup that was written to its end is the version of its name.         *)
THEOREM BackupsHoldTheirVersion == Spec => []BackupsAreGenuine
<1>1. VersionInv => BackupsAreGenuine
  BY DEF VersionInv, BackupsAreGenuine
<1> QED
  BY <1>1, VersionInvariant, PTL

(* A reported success agrees with the contents of its version.              *)
LEMMA ToldSuccess ==
    ASSUME VersionInv, TypeInv
    PROVE  SuccessIsVisible
BY DEF TypeInv, TypeOK, OutcomeRecord, VersionInv, SuccessIsVisible, Told, OutcomeAgrees, Agrees


(* What is reported as a success can be read in the version it names.       *)
THEOREM SuccessesAreVisible == Spec => []SuccessIsVisible
BY ToldSuccess, TypeInvariant, VersionInvariant, PTL

-----------------------------------------------------------------------------
(* The abstract workbook.                                                   *)

(* A proposal that is being read is a new one, and the edited copy is newer *)
(* than the workbook, than all backups and than what proposals are about.   *)
FreshInv == quiet =>
    /\ call.pc = "read" => call.proposal \notin DOMAIN proposals
    /\ call.pc \in Holding => Register!New(call.temp.version)

(* What is under way for the abstract workbook, before a step and after it. *)
LEMMA WhatIsDone ==
    /\ call = Idle => Doing = Register!Nothing
    /\ call.pc = "read" => Doing = Register!Nothing
    /\ call.pc \in Applying => Doing = Register!Writing(call.proposal)
    /\ call.pc = "restoring" => Doing = Register!Restoring(call.base)
    /\ call' = Idle => Doing' = Register!Nothing
    /\ call'.pc = "read" => Doing' = Register!Nothing
    /\ call'.pc \in Applying => Doing' = Register!Writing(call'.proposal)
    /\ call'.pc = "restoring" => Doing' = Register!Restoring(call'.base)
BY DEF Doing, Idle, Applying, Register!Nothing, Register!Writing, Register!Restoring

(* What the abstract workbook is, in terms of the files.                    *)
LEMMA WhatIsShown ==
    /\ book.torn => Shown(book) = Register!Torn
    /\ ~book.torn => Shown(book) = book
    /\ book'.torn => Shown(book)' = Register!Torn
    /\ ~book'.torn => Shown(book)' = book'
    /\ book' = book => Shown(book)' = Shown(book)
    /\ backups' = backups => Copies' = Copies
    /\ DOMAIN Copies = {v \in DOMAIN backups : ~backups[v].torn}
    /\ \A v \in DOMAIN Copies : Copies[v] = backups[v]
BY DEF Shown, Copies, NoFile, Register!Torn

(* What comes next is newer than all that has been.                         *)
LEMMA NextVersionIsNew ==
    ASSUME TypeInv, BackupsAreGenuine, quiet, NEW C, Told(C)
    PROVE  Register!New(versions + 1)
<1>1. versions \in Nat /\ DOMAIN C = 1 .. versions
  BY DEF TypeInv, TypeOK, Told
<1>2. Shown(book).version \in 0 .. versions
  <2>1. CASE book.torn
    BY <1>1, <2>1 DEF Shown, NoFile
  <2>2. CASE ~book.torn
    BY <1>1, <2>2 DEF Shown, Told, Agrees
  <2> QED
    BY <2>1, <2>2
<1>3. \A v \in DOMAIN Copies : v \in 1 .. versions
  BY <1>1, WhatIsShown DEF Told, Agrees, BackupsAreGenuine
<1>4. \A p \in DOMAIN proposals : proposals[p].fingerprint \in 1 .. versions
  BY <1>1 DEF Told, ProposalAgrees
<1> QED
  BY <1>1, <1>2, <1>3, <1>4 DEF Register!New

(* Steps that change neither what is shown nor what is done are none of the *)
(* abstract workbook's.                                                     *)
LEMMA BookStutters ==
    ASSUME book' = book, Copies' = Copies, proposals' = proposals, quiet' = quiet, Doing' = Doing
    PROVE  UNCHANGED Register!vars
BY WhatIsShown DEF Register!vars

(* A backup that is started holds nothing.                                  *)
LEMMA BackupStartsBook == ASSUME BackupStarts PROVE Copies' = Copies
<1>1. /\ call.base \notin DOMAIN backups
      /\ DOMAIN backups' = DOMAIN backups \cup {call.base}
      /\ backups'[call.base].torn
      /\ \A v \in DOMAIN backups : backups'[v] = backups[v]
  BY DEF BackupStarts, Put, NoFile
<1>2. {v \in DOMAIN backups' : ~backups'[v].torn} = {v \in DOMAIN backups : ~backups[v].torn}
  BY <1>1
<1> QED
  BY <1>1, <1>2 DEF Copies

(* A backup that is finished is a copy of the workbook.                     *)
LEMMA BackupEndsBook ==
    ASSUME TypeInv, VersionInv, quiet, BackupEnds
    PROVE  /\ ~book.torn /\ book.version = call.base
           /\ Copies' = [v \in DOMAIN Copies \cup {book.version} |->
                           IF v = book.version THEN book ELSE Copies[v]]
           /\ DOMAIN Copies' = DOMAIN Copies \cup {book.version}
<1>1. ~book.torn /\ book.version = call.base
  BY DEF VersionInv, CallAgrees, BackupEnds, Applying, Checked, Holding
<1>2. /\ call.base \in DOMAIN backups
      /\ backups' = [backups EXCEPT ![call.base] = book]
  BY <1>1 DEF BackupEnds, TypeInv, CallInv
<1>3. /\ DOMAIN backups' = DOMAIN backups /\ backups'[call.base] = book
      /\ \A v \in DOMAIN backups : v # call.base => backups'[v] = backups[v]
  BY <1>2
<1>4. {v \in DOMAIN backups' : ~backups'[v].torn}
         = {v \in DOMAIN backups : ~backups[v].torn} \cup {book.version}
  BY <1>1, <1>2, <1>3
<1>5. Copies' = [v \in {w \in DOMAIN backups' : ~backups'[w].torn} |-> backups'[v]]
  BY DEF Copies
<1> QED
  BY <1>1, <1>3, <1>4, <1>5 DEF Copies

(* Where quiet holds after a step it held before, and a save finds no call. *)
LEMMA QuietBefore ==
    ASSUME Next, quiet' PROVE quiet /\ \A rows \in Layout : EditorSaves(rows) => call = Idle
BY DEF Next, CallStep, ProposeRead, Propose, ApplyRefused, ApplyNoOp, ApplyChecked,
   CopyToTemp, EditTemp, BackupExists, BackupStarts, BackupEnds, Replace, Report, ApplyRaises,
   RollbackStarts, RollbackEnds, RollbackRaises, EditorSaves, Crash, external

(* Versions that are made stay newer than all others until they are shown.  *)
LEMMA FreshNext == TypeInv /\ VersionInv /\ FreshInv /\ [Next]_vars => FreshInv'
<1> SUFFICES ASSUME TypeInv, VersionInv, FreshInv, [Next]_vars, quiet' PROVE FreshInv'
  BY DEF FreshInv
<1>1. CASE UNCHANGED vars
  <2>1. /\ book' = book /\ backups' = backups /\ proposals' = proposals /\ call' = call
        /\ quiet' = quiet
    BY <1>1 DEF vars
  <2> QED
    BY <2>1 DEF FreshInv, Register!New, Shown, Copies
<1>2. ASSUME Next PROVE FreshInv'
  <2>1. quiet /\ \A rows \in Layout : EditorSaves(rows) => call = Idle
    BY <1>2, QuietBefore
  <2>2. CASE EditTemp
    <3>1. PICK C : Told(C)
      BY <2>1 DEF VersionInv
    <3>2. Register!New(versions + 1)
      BY <2>1, <3>1, NextVersionIsNew DEF VersionInv
    <3>3. call'.pc = "edited" /\ call'.temp.version = versions + 1
      BY <2>2 DEF EditTemp, NextVersion, TypeInv, CallInv, CallRecord
    <3>4. book' = book /\ backups' = backups /\ proposals' = proposals
      BY <2>2 DEF EditTemp, disk
    <3> QED
      BY <3>2, <3>3, <3>4 DEF FreshInv, Register!New, Shown, Copies, Holding
  <2>3. CASE BackupExists \/ BackupStarts
    <3>1. /\ call'.pc \in Holding /\ call.pc = "edited" /\ call'.temp = call.temp
          /\ book' = book /\ proposals' = proposals
      BY <2>3 DEF BackupExists, BackupStarts, TypeInv, CallInv, CallRecord, Holding, disk
    <3>2. Copies' = Copies
      <4>1. CASE BackupExists
        BY <4>1, WhatIsShown DEF BackupExists, disk
      <4> QED
        BY <2>3, <4>1, BackupStartsBook
    <3>3. Register!New(call.temp.version)
      BY <2>1, <3>1 DEF FreshInv, Holding
    <3>4. Register!New(call.temp.version)'
      BY <3>1, <3>2, <3>3 DEF Register!New, Shown
    <3> QED
      BY <3>1, <3>4 DEF FreshInv, Holding
  <2>4. CASE BackupEnds
    <3>1. /\ call'.pc = "kept" /\ call.pc = "copying" /\ call'.temp = call.temp
          /\ book' = book /\ proposals' = proposals
      BY <2>4 DEF BackupEnds, TypeInv, CallInv, CallRecord
    <3>2. ~book.torn /\ DOMAIN Copies' = DOMAIN Copies \cup {book.version}
      BY <2>1, <2>4, BackupEndsBook
    <3>3. Register!New(call.temp.version) /\ Shown(book) = book
      BY <2>1, <3>1, <3>2, WhatIsShown DEF FreshInv, Holding
    <3>4. Register!New(call.temp.version)'
      BY <3>1, <3>2, <3>3 DEF Register!New, Shown
    <3> QED
      BY <3>1, <3>4 DEF FreshInv, Holding
  <2>5. CASE \E p \in Proposal : \E request \in Asked, after \in Status, named \in BOOLEAN :
                ProposeRead(p, request, after, named)
    BY <2>5 DEF ProposeRead, FreshInv, Idle, Holding
  <2>6. CASE call' = Idle
    BY <2>6 DEF FreshInv, Idle, Holding
  <2>7. CASE call' = call /\ call = Idle
    BY <2>7 DEF FreshInv, Idle, Holding
  <2>8. CASE (\E p \in Proposal : ApplyChecked(p)) \/ (\E v \in DOMAIN backups : RollbackStarts(v))
    BY <2>8 DEF ApplyChecked, RollbackStarts, FreshInv, Idle, Holding
  <2>9. CASE CopyToTemp \/ Replace
    <3>1. call'.pc \in {"copied", "replaced"}
      BY <2>9 DEF CopyToTemp, Replace, TypeInv, CallInv, CallRecord
    <3> QED
      BY <3>1 DEF FreshInv, Holding
  <2> QED
    BY <1>2, <2>1, <2>2, <2>3, <2>4, <2>5, <2>6, <2>7, <2>8, <2>9
    DEF Next, CallStep, Propose, ApplyRefused, ApplyNoOp, Report, ApplyRaises, RollbackEnds,
        RollbackRaises, Crash, EditorSaves, memory
<1> QED
  BY <1>1, <1>2

(* The steps by which a proposal is made.                                   *)
LEMMA ProposeBook ==
    ASSUME TypeInv, VersionInv, FreshInv, quiet, Propose PROVE Register!Step
<1> PICK p : p = call.proposal
  OBVIOUS
<1>1. /\ call.pc = "read" /\ p \notin DOMAIN proposals
      /\ ~book.torn /\ call.row \in DOMAIN book.rows /\ book.rows[call.row] = call.before
  BY DEF Propose, FreshInv, VersionInv, CallAgrees
<1>2. /\ DOMAIN proposals' = DOMAIN proposals \cup {p}
      /\ \A q \in DOMAIN proposals : proposals'[q] = proposals[q]
      /\ proposals'[p] = [row |-> call.row, before |-> call.before, after |-> call.after,
                          fingerprint |-> book.version]
      /\ book' = book /\ backups' = backups /\ call' = Idle
  BY <1>1 DEF Propose, Put, disk
<1>3. /\ Shown(book) = book /\ Shown(book)' = Shown(book) /\ Copies' = Copies
      /\ Doing = Register!Nothing /\ Doing' = Doing
  BY <1>1, <1>2, WhatIsShown, WhatIsDone
<1>4. Register!Offer(p)
  BY <1>1, <1>2, <1>3 DEF Register!Offer, Register!files
<1>5. p \in DOMAIN proposals'
  BY <1>2
<1> QED
  BY <1>4, <1>5 DEF Register!Step

(* A write starts with the check of the version.                            *)
LEMMA ApplyCheckedBook ==
    ASSUME TypeInv, quiet, NEW p \in Proposal, ApplyChecked(p) PROVE Register!Step
<1>1. /\ call = Idle /\ call'.pc = "checked" /\ call'.proposal = p /\ p \in DOMAIN proposals
      /\ book' = book /\ backups' = backups /\ proposals' = proposals
  BY DEF ApplyChecked, Idle, disk
<1>2. /\ Shown(book)' = Shown(book) /\ Copies' = Copies
      /\ Doing = Register!Nothing /\ Doing' = Register!Writing(p)
  BY <1>1, WhatIsShown, WhatIsDone DEF Applying
<1>3. Register!StartWrite(p)
  BY <1>1, <1>2 DEF Register!StartWrite, Register!files
<1> QED
  BY <1>1, <1>3 DEF Register!Step

(* A backup that ends is kept.                                              *)
LEMMA KeepsBook ==
    ASSUME TypeInv, VersionInv, quiet, BackupEnds PROVE Register!Step
<1> PICK p : p = call.proposal
  OBVIOUS
<1>1. /\ call.pc = "copying" /\ call'.pc = "kept" /\ call'.proposal = p
      /\ book' = book /\ proposals' = proposals
  BY DEF BackupEnds, TypeInv, CallInv, CallRecord
<1>2. p \in DOMAIN proposals /\ book.version = proposals[p].fingerprint
  BY <1>1 DEF VersionInv, CallAgrees, Applying, Checked, Holding
<1>3. /\ ~book.torn
      /\ Copies' = [v \in DOMAIN Copies \cup {book.version} |->
                      IF v = book.version THEN book ELSE Copies[v]]
  BY BackupEndsBook
<1>4. /\ Shown(book) = book /\ Shown(book)' = Shown(book)
      /\ Doing = Register!Writing(p) /\ Doing' = Doing
  BY <1>1, <1>3, WhatIsShown, WhatIsDone DEF Applying
<1>5. Register!Keep(p)
  BY <1>1, <1>2, <1>3, <1>4 DEF Register!Keep
<1> QED
  BY <1>2, <1>5 DEF Register!Step

(* The replacement is the write.                                            *)
LEMMA ReplaceBook ==
    ASSUME TypeInv, VersionInv, FreshInv, quiet, Replace PROVE Register!Step
<1> PICK p : p = call.proposal
  OBVIOUS
<1>1. /\ call.pc = "kept" /\ call'.pc = "replaced" /\ call'.proposal = p
      /\ book' = call.temp /\ backups' = backups /\ proposals' = proposals
  BY DEF Replace, TypeInv, CallInv, CallRecord
<1>2. /\ p \in DOMAIN proposals /\ book.version = proposals[p].fingerprint /\ ~book.torn
      /\ call.row = proposals[p].row /\ call.after = proposals[p].after
      /\ call.temp.rows = [book.rows EXCEPT ![call.row].status = call.after]
  BY <1>1 DEF VersionInv, CallAgrees, Applying, Checked, Holding
<1>3. book.rows[proposals[p].row] = proposals[p].before
  <2>1. PICK C : Told(C)
    BY DEF VersionInv
  <2> QED
    BY <1>2, <2>1 DEF Told, Agrees, ProposalAgrees
<1>4. ~call.temp.torn /\ call.temp \in File /\ Register!New(call.temp.version)
  BY <1>1 DEF TypeInv, CallInv, TypeOK, FreshInv, Holding
<1>5. book' = [rows |-> [book.rows EXCEPT ![proposals[p].row].status = proposals[p].after],
               version |-> book'.version, torn |-> FALSE]
  BY <1>1, <1>2, <1>4 DEF File
<1>6. /\ Shown(book) = book /\ Shown(book)' = book' /\ Copies' = Copies
      /\ Doing = Register!Writing(p) /\ Doing' = Doing
  BY <1>1, <1>2, <1>4, WhatIsShown, WhatIsDone DEF Applying
<1>7. Register!Write(p)
  BY <1>1, <1>2, <1>3, <1>4, <1>5, <1>6 DEF Register!Write
<1> QED
  BY <1>2, <1>7 DEF Register!Step

(* A report and an error end a write, wherever it is.                       *)
LEMMA WriteEndsBook ==
    ASSUME TypeInv, VersionInv, quiet, Report \/ ApplyRaises PROVE Register!Step
<1> PICK p : p = call.proposal
  OBVIOUS
<1>1. /\ call.pc \in Applying /\ call' = Idle
      /\ book' = book /\ backups' = backups /\ proposals' = proposals
  BY DEF Report, ApplyRaises, disk, Applying
<1>2. p \in DOMAIN proposals
  BY <1>1 DEF VersionInv, CallAgrees
<1>3. /\ Shown(book)' = Shown(book) /\ Copies' = Copies
      /\ Doing = Register!Writing(p) /\ Doing' = Register!Nothing
  BY <1>1, WhatIsShown, WhatIsDone
<1>4. Register!EndWrite(p)
  BY <1>1, <1>3 DEF Register!EndWrite, Register!files
<1> QED
  BY <1>2, <1>4 DEF Register!Step

(* A rollback is a restore of the version it was asked for.                 *)
LEMMA RollbackBook ==
    ASSUME TypeInv, quiet,
           (\E v \in DOMAIN backups : RollbackStarts(v)) \/ RollbackEnds \/ RollbackRaises
    PROVE  Register!Step
<1>1. ASSUME NEW v \in DOMAIN backups, RollbackStarts(v) PROVE Register!Step
  <2>1. /\ call = Idle /\ call'.pc = "restoring" /\ call'.base = v
        /\ book'.torn /\ backups' = backups /\ proposals' = proposals
    BY <1>1 DEF RollbackStarts, Idle, TypeInv, TypeOK, File
  <2>2. /\ Shown(book)' = Register!Torn /\ Copies' = Copies
        /\ Doing = Register!Nothing /\ Doing' = Register!Restoring(v)
    BY <2>1, WhatIsShown, WhatIsDone
  <2>3. Register!StartRestore(v)
    BY <2>1, <2>2 DEF Register!StartRestore
  <2>4. Doing'.op = "restore" /\ Doing'.of = v
    BY <2>2 DEF Register!Restoring
  <2> QED
    BY <2>3, <2>4 DEF Register!Step
<1>2. ASSUME RollbackEnds \/ RollbackRaises PROVE Register!Step
  <2> PICK v : v = call.base
    OBVIOUS
  <2>1. /\ call.pc = "restoring" /\ call' = Idle /\ v \in DOMAIN backups
        /\ book' = backups[v] \/ book' = book
        /\ backups' = backups /\ proposals' = proposals
    BY <1>2 DEF RollbackEnds, RollbackRaises, disk, TypeInv, CallInv
  <2>2. /\ Doing = Register!Restoring(v) /\ Doing' = Register!Nothing /\ Copies' = Copies
    BY <2>1, WhatIsShown, WhatIsDone
  <2>3. Shown(book)' \in {Shown(book), IF v \in DOMAIN Copies THEN Copies[v] ELSE Register!Torn}
    BY <2>1, WhatIsShown
  <2>4. Register!EndRestore(v)
    BY <2>1, <2>2, <2>3 DEF Register!EndRestore
  <2>5. Doing.op = "restore" /\ Doing.of = v
    BY <2>2 DEF Register!Restoring
  <2> QED
    BY <2>4, <2>5 DEF Register!Step
<1> QED
  BY <1>1, <1>2

(* A save between calls, and the end of the process.                        *)
LEMMA EnvironmentBook ==
    ASSUME TypeInv, VersionInv, quiet,
           (\E rows \in Layout : EditorSaves(rows) /\ call = Idle) \/ Crash
    PROVE  Register!Step
<1>1. ASSUME NEW rows \in Layout, EditorSaves(rows), call = Idle PROVE Register!Step
  <2>1. /\ book' = [rows |-> rows, version |-> versions + 1, torn |-> FALSE]
        /\ backups' = backups /\ proposals' = proposals /\ call' = call
    BY <1>1 DEF EditorSaves, NextVersion, memory
  <2>2. ~book'.torn /\ book'.version = versions + 1
    BY <2>1
  <2>3. /\ Shown(book)' = book' /\ Copies' = Copies
        /\ Doing = Register!Nothing /\ Doing' = Doing
    BY <1>1, <2>1, <2>2, WhatIsShown, WhatIsDone
  <2>4. PICK C : Told(C)
    BY DEF VersionInv
  <2>5. Register!New(versions + 1)
    BY <2>4, NextVersionIsNew DEF VersionInv
  <2>6. Register!Save
    BY <2>1, <2>2, <2>3, <2>5 DEF Register!Save
  <2> QED
    BY <2>6 DEF Register!Step
<1>2. ASSUME Crash PROVE Register!Step
  <2>1. /\ call' = Idle /\ DOMAIN proposals' = {}
        /\ book' = book /\ backups' = backups
    BY <1>2 DEF Crash, disk
  <2>2. Shown(book)' = Shown(book) /\ Copies' = Copies /\ Doing' = Register!Nothing
    BY <2>1, WhatIsShown, WhatIsDone
  <2>3. Register!Forget
    BY <2>1, <2>2 DEF Register!Forget, Register!files
  <2> QED
    BY <2>3 DEF Register!Step
<1> QED
  BY <1>1, <1>2

(* The steps that prepare a write, or read, are none of the abstract        *)
(* workbook's.                                                              *)
LEMMA PreparationsStutter ==
    ASSUME TypeInv, quiet, quiet',
           \/ CopyToTemp \/ EditTemp \/ BackupExists \/ BackupStarts
           \/ \E p \in Proposal :
                \/ \E request \in Asked, after \in Status, named \in BOOLEAN :
                     ProposeRead(p, request, after, named)
                \/ ApplyRefused(p) \/ ApplyNoOp(p)
    PROVE  UNCHANGED Register!vars
<1>1. CASE CopyToTemp \/ EditTemp \/ BackupExists \/ BackupStarts
  <2>1. /\ call.pc \in Applying /\ call'.pc \in Applying /\ call'.proposal = call.proposal
        /\ book' = book /\ proposals' = proposals
    BY <1>1 DEF CopyToTemp, EditTemp, BackupExists, BackupStarts, disk, Applying, TypeInv,
                CallInv, CallRecord
  <2>2. Copies' = Copies
    <3>1. CASE CopyToTemp \/ EditTemp \/ BackupExists
      BY <3>1, WhatIsShown DEF CopyToTemp, EditTemp, BackupExists, disk
    <3> QED
      BY <1>1, <3>1, BackupStartsBook
  <2>3. Doing' = Doing
    BY <2>1, WhatIsDone
  <2> QED
    BY <2>1, <2>2, <2>3, BookStutters
<1>2. ASSUME NEW p \in Proposal,
             \/ \E request \in Asked, after \in Status, named \in BOOLEAN :
                  ProposeRead(p, request, after, named)
             \/ ApplyRefused(p) \/ ApplyNoOp(p)
      PROVE  UNCHANGED Register!vars
  <2>1. /\ call = Idle
        /\ call' = Idle \/ call'.pc = "read"
        /\ book' = book /\ backups' = backups /\ proposals' = proposals
    BY <1>2 DEF ProposeRead, ApplyRefused, ApplyNoOp, Idle, disk
  <2>2. Copies' = Copies /\ Doing' = Doing
    BY <2>1, WhatIsShown, WhatIsDone
  <2> QED
    BY <2>1, <2>2, BookStutters
<1> QED
  BY <1>1, <1>2

(* Every step is one of the abstract workbook's or none.                    *)
LEMMA BookStep ==
    ASSUME TypeInv, VersionInv, FreshInv, Next
    PROVE  Register!Next \/ UNCHANGED Register!vars
<1> SUFFICES ASSUME quiet' PROVE (quiet /\ Register!Step) \/ UNCHANGED Register!vars
  BY DEF Register!Next
<1>1. quiet /\ \A rows \in Layout : EditorSaves(rows) => call = Idle
  BY QuietBefore
<1> QED
  BY <1>1, ProposeBook, ApplyCheckedBook, KeepsBook, ReplaceBook, WriteEndsBook, RollbackBook,
     EnvironmentBook, PreparationsStutter DEF Next, CallStep

(* As long as nobody saves the workbook during a call, the connector makes  *)
(* of its many steps one that compares and sets, whatever fails on the way, *)
(* and of a rollback the restore of the version it was asked for.           *)
THEOREM ConnectorImplementsWorkbook == Spec => ImplementsWorkbook
<1>1. Init => Register!Init /\ FreshInv
  <2> SUFFICES ASSUME Init PROVE Register!Init /\ FreshInv
    OBVIOUS
  <2>1. ~book.torn /\ book.version = 1 /\ backups = <<>> /\ proposals = <<>>
        /\ call = Idle /\ quiet
    BY DEF Init
  <2>2. Shown(book) = book /\ DOMAIN Copies = {} /\ Doing = Register!Nothing
    BY <2>1, WhatIsShown, WhatIsDone
  <2> QED
    BY <2>1, <2>2 DEF Register!Init, Register!Nothing, FreshInv, Idle, Holding
<1>2. TypeInv /\ VersionInv /\ FreshInv /\ [Next]_vars => [Register!Next]_(Register!vars)
  <2>1. ASSUME UNCHANGED vars PROVE UNCHANGED Register!vars
    BY <2>1 DEF vars, Register!vars, Shown, Copies, Doing
  <2> QED
    BY <2>1, BookStep
<1> QED
  BY <1>1, <1>2, FreshNext, TypeInvariant, VersionInvariant, PTL
  DEF Spec, ImplementsWorkbook, Register!Spec
=============================================================================

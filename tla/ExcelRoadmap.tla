--------------------------- MODULE ExcelRoadmap ---------------------------
(***************************************************************************)
(* The Excel roadmap connector: a proposal is read from the workbook, and  *)
(* applying it checks the fingerprint, edits a temporary copy, keeps a     *)
(* backup and replaces the workbook atomically.                            *)
(*                                                                         *)
(* The connector's functions are synchronous, so one call runs at a time   *)
(* and `call' says where it is; each of its steps is one operation on the  *)
(* file system.  The workbook belongs to other programs too: someone may   *)
(* save it from Excel between two calls, or between two steps of one; in   *)
(* `quiet' behaviours the latter has not happened.  Any step may raise,    *)
(* and the process may end at any of them.                                 *)
(*                                                                         *)
(* A file is its roadmap rows and a version, which stands for its bytes:   *)
(* every save makes a new one, a copy keeps it, and the fingerprint is the *)
(* version.  A copy that is under way, or was cut short, is torn.          *)
(***************************************************************************)
EXTENDS RowMatching, Sequences, FiniteSets

CONSTANTS
    Asked,           \* the requests that are made
    Layout,          \* the row sequences a workbook may hold
    Proposal,        \* proposals; propose returns a fresh one
    MaxVersion,      \* bound on saves
    MaxMishaps       \* bound on crashes and clean-ups that fail

ASSUME AskedAssumption  == Asked \subseteq Request
ASSUME LayoutAssumption == Layout \subseteq Seq(Row)
ASSUME NoneAssumption   == None \notin Proposal
ASSUME BoundAssumption  == MaxVersion \in Nat \ {0} /\ MaxMishaps \in Nat

VARIABLES
    book,       \* the workbook under the allowed root
    backups,    \* <name>.<fingerprint>.bak, by fingerprint
    temps,      \* jarvis_excel_* directories with a workbook in them
    proposals,  \* proposals that wait for approval, in the engine's memory
    call,       \* the connector's running call
    outcome,    \* the result of the last apply
    versions,   \* versions made so far
    mishaps,    \* crashes and clean-ups that failed
    quiet       \* no one saved the workbook during a call

disk   == <<book, backups, temps>>
memory == <<proposals, call, outcome>>
external == <<versions, mishaps, quiet>>
vars   == <<book, backups, temps, proposals, call, outcome, versions, mishaps, quiet>>

File == [rows : Seq(Row), version : Nat, torn : BOOLEAN]
NoFile == [rows |-> <<>>, version |-> 0, torn |-> TRUE]

\* What propose returns: the status cell of a row, what the row held, the
\* status to write, and the fingerprint of the workbook.
ProposalRecord == [row : Nat, before : Row, after : Status, fingerprint : Nat]
AlreadyApplied(prop) == prop.before.status = prop.after

Idle == [pc |-> "idle", proposal |-> None, request |-> None, row |-> 0, before |-> None,
         after |-> None, base |-> 0, temp |-> NoFile]
Applying == {"checked", "copied", "edited", "copying", "kept", "replaced"}

-----------------------------------------------------------------------------
Init ==
    /\ \E rows \in Layout : book = [rows |-> rows, version |-> 1, torn |-> FALSE]
    /\ backups = <<>>
    /\ temps = 0
    /\ proposals = <<>>
    /\ call = Idle
    /\ outcome = [status |-> "none", version |-> 0, row |-> 0, after |-> None, ref |-> 0]
    /\ versions = 1
    /\ mishaps = 0
    /\ quiet = TRUE

Outcome(status, version, row, after, ref) ==
    outcome' = [status |-> status, version |-> version, row |-> row, after |-> after,
                ref |-> ref]

\* A save makes new bytes.
NextVersion == versions + 1
Save == versions < MaxVersion /\ versions' = NextVersion

Put(f, x, y) == [z \in DOMAIN f \cup {x} |-> IF z = x THEN y ELSE f[z]]

-----------------------------------------------------------------------------
\* propose

\* discover: a request that names no workbook needs exactly one below the root,
\* and a temporary copy that was left behind counts.
Candidates == 1 + temps

\* The rows are read first.  A request that finds no workbook, cannot read it or
\* matches no single row returns without an effect.
ProposeRead(p, request, after, named) ==
    /\ call = Idle
    /\ p \notin DOMAIN proposals
    /\ named \/ Candidates = 1
    /\ ~book.torn
    /\ \E i \in Matches(book.rows, request) :
         call' = [Idle EXCEPT !.pc = "read", !.proposal = p, !.request = request,
                              !.row = i, !.before = book.rows[i], !.after = after]
    /\ UNCHANGED <<disk, proposals, outcome, external>>

\* Mutant: a proposal for a row that has the status already names no new status.
ProposeNothingNew ==
    /\ call.pc = "read"
    /\ proposals' = Put(proposals, call.proposal,
                        [row |-> call.row, before |-> call.before,
                         after |-> IF call.before.status = call.after THEN None ELSE call.after,
                         fingerprint |-> book.version])
    /\ call' = Idle
    /\ UNCHANGED <<disk, outcome, external>>

\* The fingerprint is taken after the rows were read.
Propose ==
    /\ call.pc = "read"
    /\ proposals' = Put(proposals, call.proposal,
                        [row |-> call.row, before |-> call.before, after |-> call.after,
                         fingerprint |-> book.version])
    /\ call' = Idle
    /\ UNCHANGED <<disk, outcome, external>>

-----------------------------------------------------------------------------
\* apply

\* The current fingerprint is compared with the proposal's.
ApplyRefused(p) ==
    /\ call = Idle
    /\ p \in DOMAIN proposals
    /\ book.version # proposals[p].fingerprint
    /\ Outcome("failure", book.version, 0, None, 0)
    /\ UNCHANGED <<disk, proposals, call, external>>

\* Mutant: a workbook that changed is not noticed when nothing is written.
ApplyNoOpUnchecked(p) ==
    /\ call = Idle
    /\ p \in DOMAIN proposals
    /\ AlreadyApplied(proposals[p])
    /\ Outcome("success", book.version, proposals[p].row, proposals[p].after, 0)
    /\ UNCHANGED <<disk, proposals, call, external>>

\* Nothing to write: a success, unless the preview raises.
ApplyNoOp(p) ==
    /\ call = Idle
    /\ p \in DOMAIN proposals
    /\ book.version = proposals[p].fingerprint
    /\ AlreadyApplied(proposals[p])
    /\ \/ Outcome("success", book.version, proposals[p].row, proposals[p].after, 0)
       \/ Outcome("failure", book.version, 0, None, 0)
    /\ UNCHANGED <<disk, proposals, call, external>>

\* Mutant: the fingerprint is not compared.
ApplyUnchecked(p) ==
    /\ call = Idle
    /\ p \in DOMAIN proposals
    /\ ~AlreadyApplied(proposals[p])
    /\ call' = [Idle EXCEPT !.pc = "checked", !.proposal = p, !.row = proposals[p].row,
                            !.before = proposals[p].before,
                            !.after = proposals[p].after, !.base = book.version]
    /\ UNCHANGED <<disk, proposals, outcome, external>>

ApplyChecked(p) ==
    /\ call = Idle
    /\ p \in DOMAIN proposals
    /\ book.version = proposals[p].fingerprint
    /\ ~AlreadyApplied(proposals[p])
    /\ call' = [Idle EXCEPT !.pc = "checked", !.proposal = p, !.row = proposals[p].row,
                            !.before = proposals[p].before,
                            !.after = proposals[p].after, !.base = book.version]
    /\ UNCHANGED <<disk, proposals, outcome, external>>

\* mkdtemp and the copy of the workbook as it is now.
CopyToTemp ==
    /\ call.pc = "checked"
    /\ temps' = temps + 1
    /\ call' = [call EXCEPT !.pc = "copied", !.temp = book]
    /\ UNCHANGED <<book, backups, proposals, outcome, external>>

\* The cell is written, the copy saved, opened again and verified.  A cell below
\* the rows is written too, but is no row of the roadmap.
EditTemp ==
    /\ call.pc = "copied"
    /\ ~call.temp.torn
    /\ Save
    /\ LET rows == call.temp.rows
       IN  call' = [call EXCEPT !.pc = "edited",
                      !.temp = [rows |-> IF call.row \in DOMAIN rows
                                         THEN [rows EXCEPT ![call.row].status = call.after]
                                         ELSE rows,
                                version |-> NextVersion, torn |-> FALSE]]
    /\ UNCHANGED <<disk, proposals, outcome, mishaps, quiet>>

\* A backup of this fingerprint is kept when there is none.
BackupExists ==
    /\ call.pc = "edited"
    /\ call.base \in DOMAIN backups
    /\ call' = [call EXCEPT !.pc = "kept"]
    /\ UNCHANGED <<disk, proposals, outcome, external>>

BackupStarts ==
    /\ call.pc = "edited"
    /\ call.base \notin DOMAIN backups
    /\ backups' = Put(backups, call.base, NoFile)
    /\ call' = [call EXCEPT !.pc = "copying"]
    /\ UNCHANGED <<book, temps, proposals, outcome, external>>

\* Mutant: the edited copy is kept in place of the workbook.
BackupOfTemp ==
    /\ call.pc = "copying"
    /\ backups' = [backups EXCEPT ![call.base] = call.temp]
    /\ call' = [call EXCEPT !.pc = "kept"]
    /\ UNCHANGED <<book, temps, proposals, outcome, external>>

\* The copy takes time: it holds the workbook as it is now, or a mixture when the
\* workbook was saved meanwhile.
BackupEnds ==
    /\ call.pc = "copying"
    /\ \E copy \in IF book.version = call.base THEN {book} ELSE {book, NoFile} :
         backups' = [backups EXCEPT ![call.base] = copy]
    /\ call' = [call EXCEPT !.pc = "kept"]
    /\ UNCHANGED <<book, temps, proposals, outcome, external>>

\* Mutant: the copy is written over the workbook, and the error comes half-way.
ReplaceInPlace ==
    /\ call.pc = "kept"
    /\ \E torn \in BOOLEAN : book' = [call.temp EXCEPT !.torn = torn]
    /\ temps' = temps - 1
    /\ call' = [call EXCEPT !.pc = "replaced"]
    /\ UNCHANGED <<backups, proposals, outcome, external>>

\* os.replace moves the copy out of its directory.
Replace ==
    /\ call.pc = "kept"
    /\ book' = call.temp
    /\ temps' = temps - 1
    /\ call' = [call EXCEPT !.pc = "replaced"]
    /\ UNCHANGED <<backups, proposals, outcome, external>>

\* The new fingerprint and the preview are read, and the result returned.
Report ==
    /\ call.pc = "replaced"
    /\ Outcome("success", book.version, call.row, call.after, call.base)
    /\ call' = Idle
    /\ UNCHANGED <<disk, proposals, external>>

\* The points of apply at which there is a copy in the temporary directory.
HoldsTemp == call.pc \in {"copied", "edited", "copying", "kept"}

\* Mutant: an error leaves the temporary directory behind.
ApplyRaisesKeepsTemp ==
    /\ call.pc \in Applying
    /\ Outcome("failure", book.version, 0, None, 0)
    /\ call' = Idle
    /\ UNCHANGED <<disk, proposals, external>>

\* Any step raises, or the saved copy does not verify.  The temporary directory
\* is removed on the way out, and an error in that is ignored.
ApplyRaises ==
    /\ call.pc \in Applying
    /\ Outcome("failure", book.version, 0, None, 0)
    /\ \/ /\ temps' = IF HoldsTemp THEN temps - 1 ELSE temps
          /\ UNCHANGED mishaps
       \/ /\ HoldsTemp
          /\ mishaps < MaxMishaps
          /\ mishaps' = mishaps + 1
          /\ UNCHANGED temps
    /\ call' = Idle
    /\ UNCHANGED <<book, backups, proposals, versions, quiet>>

-----------------------------------------------------------------------------
\* rollback copies over the workbook in place; it checks no fingerprint.
RollbackStarts(v) ==
    /\ call = Idle
    /\ v \in DOMAIN backups
    /\ book' = [book EXCEPT !.torn = TRUE, !.version = 0]
    /\ call' = [Idle EXCEPT !.pc = "restoring", !.base = v]
    /\ UNCHANGED <<backups, temps, proposals, outcome, external>>

\* Mutant: the newest backup is restored, whichever was asked for.
RollbackOfNewest ==
    /\ call.pc = "restoring"
    /\ \E v \in DOMAIN backups :
         /\ \A w \in DOMAIN backups : w <= v
         /\ book' = backups[v]
    /\ call' = Idle
    /\ UNCHANGED <<backups, temps, proposals, outcome, external>>

RollbackEnds ==
    /\ call.pc = "restoring"
    /\ book' = backups[call.base]
    /\ call' = Idle
    /\ UNCHANGED <<backups, temps, proposals, outcome, external>>

RollbackRaises ==
    /\ call.pc = "restoring"
    /\ call' = Idle
    /\ UNCHANGED <<disk, proposals, outcome, external>>

-----------------------------------------------------------------------------
\* The environment: another program saves the workbook; the process ends.

EditorSaves(rows) ==
    /\ Save
    /\ book' = [rows |-> rows, version |-> NextVersion, torn |-> FALSE]
    /\ quiet' = (quiet /\ call = Idle)
    /\ UNCHANGED <<backups, temps, memory, mishaps>>

Crash ==
    /\ mishaps < MaxMishaps
    /\ mishaps' = mishaps + 1
    /\ proposals' = <<>>
    /\ call' = Idle
    /\ Outcome("none", 0, 0, None, 0)
    /\ UNCHANGED <<disk, versions, quiet>>

-----------------------------------------------------------------------------
CallStep ==
    \/ Propose
    \/ CopyToTemp \/ EditTemp
    \/ BackupExists \/ BackupStarts \/ BackupEnds
    \/ Replace \/ Report \/ ApplyRaises
    \/ RollbackEnds \/ RollbackRaises

Next ==
    \/ CallStep
    \/ \E p \in Proposal :
         \/ \E request \in Asked, after \in Status, named \in BOOLEAN :
              ProposeRead(p, request, after, named)
         \/ ApplyRefused(p) \/ ApplyNoOp(p) \/ ApplyChecked(p)
    \/ \E v \in DOMAIN backups : RollbackStarts(v)
    \/ \E rows \in Layout : EditorSaves(rows)
    \/ Crash

Spec == Init /\ [][Next]_vars

-----------------------------------------------------------------------------
OutcomeRecord == [status : {"none", "success", "failure"}, version : Nat, row : Nat,
              after : Status \cup {None}, ref : Nat]

TypeOK ==
    /\ book \in File
    /\ DOMAIN backups \subseteq Nat
    /\ \A v \in DOMAIN backups : backups[v] \in File
    /\ temps \in Nat
    /\ DOMAIN proposals \subseteq Proposal
    /\ \A p \in DOMAIN proposals : proposals[p] \in ProposalRecord
    /\ call.pc \in {"idle", "read", "restoring"} \cup Applying
    /\ call.proposal \in Proposal \cup {None}
    /\ call.temp \in File
    /\ outcome \in OutcomeRecord
    /\ versions \in Nat
    /\ mishaps \in Nat
    /\ quiet \in BOOLEAN

(* The row that is shown for approval is the best of those read: no other   *)
(* row with a status the connector recognizes speaks for the request as     *)
(* well in its text, its owner and its month.  A row with another status is *)
(* passed over, however well it agrees, and nothing is said of it here.     *)
ProposesTheBestRowItReads ==
    [][call.pc = "idle" /\ call'.pc = "read" =>
          \A j \in Items(book.rows) \ {call'.row} :
              ~AsGood(call'.request, book.rows[j], book.rows[call'.row])]_vars

(* What apply writes is what was shown for approval, unless someone saved   *)
(* the workbook during a call: when it is replaced it is the very version   *)
(* the proposal was read from, the row reads as the preview said, and no    *)
(* other row changes.                                                       *)
WritesWhatWasApproved ==
    [][quiet /\ call.pc = "kept" /\ call'.pc = "replaced" =>
          LET prop == proposals[call.proposal]
          IN  /\ book.version = prop.fingerprint
              /\ book.rows[prop.row] = prop.before
              /\ book'.rows = [book.rows EXCEPT ![prop.row].status = prop.after]]_vars

(* Whatever fails, and wherever the process ends, only a rollback that is   *)
(* under way leaves half a workbook where there was a whole one.            *)
OnlyRollbackTears ==
    [][~book.torn /\ book'.torn => "restoring" \in {call.pc, call'.pc}]_vars

(* A backup that was written to its end holds the version it is named for,  *)
(* unless someone saved the workbook during a call, so that a rollback      *)
(* restores what its reference says.                                        *)
BackupsAreGenuine ==
    quiet => \A v \in DOMAIN backups : ~backups[v].torn => backups[v].version = v

(* A success tells the truth, also when nothing was written: as long as the *)
(* workbook is the version the result names, the row has the new status.    *)
SuccessIsVisible ==
    quiet /\ outcome.status = "success" /\ book.version = outcome.version =>
        book.rows[outcome.row].status = outcome.after

(* A copy of the workbook below the root, which would make the next search  *)
(* for a workbook ambiguous, is left only by a crash or a failed clean-up.  *)
LeftoversAreMishaps ==
    temps <= mishaps + (IF HoldsTemp THEN 1 ELSE 0)

\* The state of the abstract workbook.
Shown(file) == IF file.torn THEN NoFile ELSE file
Copies == [v \in {w \in DOMAIN backups : ~backups[w].torn} |-> backups[v]]
Doing ==
    IF call.pc \in Applying THEN [op |-> "write", of |-> call.proposal]
    ELSE IF call.pc = "restoring" THEN [op |-> "restore", of |-> call.base]
    ELSE [op |-> "none"]

Register == INSTANCE Workbook WITH
              book <- Shown(book),
              copies <- Copies,
              offers <- proposals,
              doing <- Doing,
              calm <- quiet

(* As long as nobody saves the workbook during a call, apply is one step    *)
(* that compares the version and writes what was shown, or none; a backup   *)
(* is of the version it is kept for, and a rollback brings back that one,   *)
(* whatever fails on the way.                                               *)
ImplementsWorkbook == Register!Spec

-----------------------------------------------------------------------------
\* What documents say and the code does not do.

(* "Do not mutate automatically when ... workbook is locked or changed after *)
(* read" (handoff/docs/08-capability-and-tool-contracts.md): apply replaces  *)
(* only the version that was shown.                                          *)
RefusesChangedWorkbook ==
    [][call.pc = "kept" /\ call'.pc = "replaced" =>
          book.version = proposals[call.proposal].fingerprint]_vars

(* "Failure leaves original workbook intact" (handoff/tasks/                 *)
(* 12-excel-roadmap-adapter/TASK.md): an apply that reports a                *)
(* failure did not replace the workbook.                                     *)
FailureLeavesWorkbook ==
    [][call.pc \in Applying /\ outcome'.status = "failure" /\ call' = Idle =>
          call.pc # "replaced"]_vars
=============================================================================

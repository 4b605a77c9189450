----------------------- MODULE CapabilityEngineGate -----------------------
(***************************************************************************)
(* The capability engine implements the approval gate.  IInv says where a  *)
(* plan's decision stands; what the gate adds is that a decision is taken  *)
(* from the right stage: a plan is cleared, denied or offered only when    *)
(* nothing was decided, granted only when it was offered, and concluded    *)
(* once.  GInv says so, and it also gives the properties that rest on it:  *)
(* one outcome per plan, and no grant after the end of its offer.          *)
(***************************************************************************)
EXTENDS CapabilityEngineProofs

\* Nothing was released, offered or concluded.
Blank(p) == ~Released(p) /\ ~Logged("approval.requested", p) /\ ~Concluded(p)

\* Neither released nor concluded.
Unsettled(p) == ~Released(p) /\ ~Concluded(p)

FreshGate   == \A p \in Plan \ issued : Blank(p)
PendingGate == \A p \in DOMAIN pending : ~pending[p].used => Unsettled(p)

\* What was announced of an offer is what memory holds of it.
OfferGate ==
    \A p \in DOMAIN pending : \A i \in DOMAIN timeline :
        IsAt(i, "approval.requested", p) => timeline[i].data = pending[p].expires

Running == {"start", "executing", "executed", "result"}
TaskGate ==
    /\ task.pc \in Planning => Blank(task.plan)
    /\ task.pc \in {"grant", "reject"} =>
         Unsettled(task.plan) /\ Logged("approval.requested", task.plan)
    /\ task.pc \in Running => ~Concluded(task.plan)
    /\ task.pc = "result" /\ task.ok => ToolLogged("tool.completed", task.plan, "apply")
    /\ task.pc \in {"executing", "executed", "result"} => Started(task.plan)

GInv == FreshGate /\ PendingGate /\ OfferGate /\ TaskGate /\ OneOutcome

-----------------------------------------------------------------------------
(* What an append does to the predicates of GInv and to the two views.       *)
LEMMA ConcludedAppend ==
    ASSUME timeline \in Seq(EventRecord), NEW e \in EventRecord,
           timeline' = Append(timeline, e), NEW p
    PROVE  Concluded(p)' <=>
             Concluded(p) \/ (e.type \in {"plan.completed", "plan.failed"} /\ e.plan = p)
<1>1. /\ Logged("plan.completed", p)' <=>
           Logged("plan.completed", p) \/ (e.type = "plan.completed" /\ e.plan = p)
      /\ Logged("plan.failed", p)' <=>
           Logged("plan.failed", p) \/ (e.type = "plan.failed" /\ e.plan = p)
  BY LoggedAppend
<1> QED  BY <1>1 DEF Concluded

LEMMA OtherGate ==
    ASSUME timeline \in Seq(EventRecord), NEW e \in EventRecord,
           timeline' = Append(timeline, e), NEW p, e.plan # p
    PROVE  /\ Blank(p)' <=> Blank(p)
           /\ Unsettled(p)' <=> Unsettled(p)
           /\ StageOf(p)' = StageOf(p)
           /\ VerdictOf(p)' = VerdictOf(p)
<1>1. /\ Released(p)' <=> Released(p)
      /\ Refused(p)' <=> Refused(p)
      /\ Started(p)' <=> Started(p)
      /\ Concluded(p)' <=> Concluded(p)
  BY ReleasedAppend, RefusedAppend, StartedAppend, ConcludedAppend
<1>2. \A type : Logged(type, p)' <=> Logged(type, p)
  BY LoggedAppend
<1> QED  BY <1>1, <1>2 DEF Blank, Unsettled, StageOf, VerdictOf, Started

LEMMA SameViews ==
    ASSUME timeline' = timeline
    PROVE  /\ \A p : Blank(p)' <=> Blank(p)
           /\ \A p : Unsettled(p)' <=> Unsettled(p)
           /\ \A p : Concluded(p)' <=> Concluded(p)
           /\ \A p : Started(p)' <=> Started(p)
           /\ \A type, p : Logged(type, p)' <=> Logged(type, p)
           /\ \A p : StageOf(p)' = StageOf(p)
           /\ \A p : VerdictOf(p)' = VerdictOf(p)
           /\ OneOutcome' <=> OneOutcome
<1>1. /\ \A type, p : Logged(type, p)' <=> Logged(type, p)
      /\ \A p : Started(p)' <=> Started(p)
      /\ \A p : Refused(p)' <=> Refused(p)
      /\ \A p : Released(p)' <=> Released(p)
  BY DEF Started, Refused, Released, Logged, ToolLogged, IsToolAt, IsAt, ReleasedBefore,
         PolicyReleasedAt
<1>2. OneOutcome' <=> OneOutcome
  BY <1>1 DEF OneOutcome, IsToolAt, IsAt
<1> QED  BY <1>1, <1>2 DEF Blank, Unsettled, Concluded, StageOf, VerdictOf, Started

(* One outcome survives an append that concludes only what is not concluded, *)
(* and reports success only when the tool was.                               *)
LEMMA OutcomeAppend ==
    ASSUME timeline \in Seq(EventRecord), NEW e \in EventRecord,
           timeline' = Append(timeline, e), OneOutcome,
           e.type \in {"plan.completed", "plan.failed"} => ~Concluded(e.plan),
           e.type = "plan.completed" => ToolLogged("tool.completed", e.plan, "apply")
    PROVE  OneOutcome'
<1> SUFFICES ASSUME NEW p \in Plan
             PROVE  /\ \A i \in DOMAIN timeline' : IsAt(i, "plan.completed", p)' =>
                         \E j \in 1 .. (i - 1) : IsToolAt(j, "tool.completed", p, "apply")'
                    /\ ~(Logged("plan.completed", p)' /\ Logged("plan.failed", p)')
  BY DEF OneOutcome
<1>1. ASSUME NEW i \in DOMAIN timeline, IsAt(i, "plan.completed", p)'
      PROVE  \E j \in 1 .. (i - 1) : IsToolAt(j, "tool.completed", p, "apply")'
  BY <1>1, AppendHistory DEF OneOutcome, IsToolAt, IsAt
<1>2. ASSUME NEW i \in DOMAIN timeline', i \notin DOMAIN timeline,
             IsAt(i, "plan.completed", p)'
      PROVE  \E j \in 1 .. (i - 1) : IsToolAt(j, "tool.completed", p, "apply")'
  <2>1. i = Len(timeline) + 1 /\ ToolLogged("tool.completed", p, "apply")
    BY <1>2, AppendHistory DEF IsAt
  <2> QED  BY <2>1, AppendHistory DEF ToolLogged, IsToolAt, IsAt
<1>3. ~(Logged("plan.completed", p)' /\ Logged("plan.failed", p)')
  BY LoggedAppend DEF OneOutcome, Concluded
<1> QED  BY <1>1, <1>2, <1>3

(* What a step that logs an event about the handler's plan keeps.            *)
LEMMA EmitKeepsGate ==
    ASSUME IInv, GInv, NEW e \in EventRecord, e.plan = task.plan,
           timeline' = Append(timeline, e), UNCHANGED <<pending, issued>>,
           Closed(task.plan) \/ e.type = "approval.requested",
           e.type = "approval.requested" /\ task.plan \in DOMAIN pending =>
             e.data = pending[task.plan].expires,
           e.type \in {"plan.completed", "plan.failed"} => ~Concluded(e.plan),
           e.type = "plan.completed" => ToolLogged("tool.completed", e.plan, "apply")
    PROVE  FreshGate' /\ PendingGate' /\ OfferGate' /\ OneOutcome'
<1>1. timeline \in Seq(EventRecord)
  BY DEF IInv, TypeOK
<1>2. FreshGate'
  <2> SUFFICES ASSUME NEW p \in Plan, p \notin issued
               PROVE  Blank(p)'
    BY DEF FreshGate
  <2>1. e.plan # p /\ Blank(p)
    BY DEF IInv, FreshInv, GInv, FreshGate
  <2> QED  BY <1>1, <2>1, OtherGate
<1>3. PendingGate'
  <2> SUFFICES ASSUME NEW p \in DOMAIN pending, ~pending[p].used
               PROVE  Unsettled(p)'
    BY DEF PendingGate
  <2>1. Unsettled(p)
    BY DEF GInv, PendingGate
  <2>2. CASE p # e.plan
    BY <1>1, <2>1, <2>2, OtherGate
  <2>3. CASE p = e.plan
    <3>1. e.type = "approval.requested"
      BY <2>3 DEF Closed
    <3> QED  BY <1>1, <2>1, <3>1, ReleasedAppend, ConcludedAppend DEF Unsettled
  <2> QED  BY <2>2, <2>3
<1>4. OfferGate'
  BY <1>1, AppendHistory DEF GInv, OfferGate, IsAt
<1>5. OneOutcome'
  BY <1>1, OutcomeAppend DEF GInv
<1> QED  BY <1>2, <1>3, <1>4, <1>5

-----------------------------------------------------------------------------
LEMMA InitGate == Init => GInv
<1> SUFFICES ASSUME Init PROVE GInv
  OBVIOUS
<1>1. \A p : Blank(p)
  BY DEF Init, Blank, Released, ReleasedBefore, PolicyReleasedAt, IsAt, Concluded, Logged
<1>2. OneOutcome
  BY DEF Init, OneOutcome, Logged
<1> QED
  BY <1>1, <1>2 DEF Init, Idle, GInv, FreshGate, PendingGate, OfferGate, TaskGate, Planning,
                    Running

(* Calls, failures, restarts and the clock log nothing; an answer takes over *)
(* from an offer that was announced and is unused.                           *)
LEMMA SilentKeepsGate ==
    ASSUME IInv, GInv, Call \/ StoreFails \/ Crash \/ Tick
    PROVE  GInv'
<1> USE DEF durable, external
<1>1. timeline' = timeline
  BY DEF Call, Request, Approve, ApproveExpired, Reject, SetPolicy, StoreFails, Crash, Tick
<1>2. /\ \A p : Blank(p)' <=> Blank(p)
      /\ \A p : Unsettled(p)' <=> Unsettled(p)
      /\ \A p : Concluded(p)' <=> Concluded(p)
      /\ \A p : Started(p)' <=> Started(p)
      /\ \A type, p : Logged(type, p)' <=> Logged(type, p)
      /\ OneOutcome'
  BY <1>1, SameViews DEF GInv
<1>3. FreshGate'
  <2>1. issued \subseteq issued'
    BY DEF Call, Request, Approve, ApproveExpired, Reject, SetPolicy, StoreFails, Crash, Tick
  <2> QED  BY <1>2, <2>1 DEF GInv, FreshGate
<1> DEFINE Shrinks ==
        /\ DOMAIN pending' \subseteq DOMAIN pending
        /\ \A p \in DOMAIN pending' : /\ pending'[p].expires = pending[p].expires
                                      /\ ~pending'[p].used => ~pending[p].used
<1>4. Shrinks
  <2>1. \A p \in DOMAIN pending : pending[p] \in PendingApproval
    BY DEF IInv, TypeOK
  <2>2. CASE pending' = pending
    BY <2>2
  <2>3. ASSUME NEW q \in Plan, MarkUsed(q), Answerable(q)
        PROVE  Shrinks
    BY <2>1, <2>3 DEF MarkUsed, Answerable, PendingApproval
  <2>4. CASE pending' = <<>>
    BY <2>4
  <2> HIDE DEF Shrinks
  <2> QED
    BY <2>2, <2>3, <2>4
       DEF Call, Request, Approve, ApproveExpired, Reject, SetPolicy, StoreFails, Crash, Tick
<1>5. PendingGate' /\ OfferGate'
  BY <1>1, <1>2, <1>4 DEF GInv, PendingGate, OfferGate, IsAt
<1>6. TaskGate'
  <2>1. ASSUME NEW p \in Plan, NEW c \in Confidence, Request(p, c)
        PROVE  TaskGate'
    <3>1. Blank(p)
      BY <2>1 DEF Request, GInv, FreshGate
    <3> QED  BY <1>2, <2>1, <3>1 DEF Request, TaskGate, Planning, Running
  <2>2. ASSUME NEW p \in Plan, Logged("approval.requested", p), Approve(p) \/ Reject(p)
        PROVE  TaskGate'
    <3>1. Unsettled(p)
      BY <2>2 DEF Approve, Reject, Answerable, GInv, PendingGate
    <3>2. task'.plan = p /\ task'.pc \in {"grant", "reject"}
      BY <2>2 DEF Approve, Reject, Idle
    <3> QED  BY <1>2, <2>2, <3>1, <3>2 DEF TaskGate, Planning, Running
  <2>3. CASE task' = task
    BY <1>1, <1>2, <2>3 DEF GInv, TaskGate, ToolLogged, IsToolAt, IsAt
  <2>4. CASE task'.pc \in {"idle", "changed"}
    BY <2>4 DEF TaskGate, Planning, Running
  <2> QED
    BY <2>1, <2>2, <2>3, <2>4
       DEF Call, ApproveExpired, SetPolicy, StoreFails, Crash, CutShort, Tick, Idle
<1> QED  BY <1>2, <1>3, <1>5, <1>6 DEF GInv

(* Every step of the handler but Execute logs one event about its plan and   *)
(* moves on; HandlerEvent names the event, HandlerNext where it moves.       *)
HandlerEvent(e, pc) ==
    /\ e \in EventRecord
    /\ e.plan = task.plan
    /\ timeline' = Append(timeline, e)
    /\ UNCHANGED <<policy, external>>
    /\ task'.pc = pc
    /\ pc = "idle" \/ (task'.plan = task.plan /\ (task'.ok = task.ok \/ pc = "plan"))

LEMMA EmitOnlyIsEvent ==
    ASSUME IInv, NEW at, NEW type, NEW data, NEW pc, EmitOnly(at, type, data, pc),
           Event(type, task.plan, data) \in EventRecord,
           pc \in Appending \cup {"idle", "executing"}
    PROVE  /\ HandlerEvent(Event(type, task.plan, data), pc)
           /\ task.pc = at
           /\ pending' = pending
<1>1. task \in Task
  BY DEF IInv, TypeOK
<1>2. task'.pc = pc /\ (pc = "idle" \/ (task'.plan = task.plan /\ task'.ok = task.ok))
  BY <1>1 DEF EmitOnly, Emit, Goto, Idle, Task
<1> QED  BY <1>2 DEF EmitOnly, Emit, HandlerEvent, Event

(* Events that only tell how far a tool or a plan is.                        *)
Report(e) ==
    \/ e.type \in {"plan.created", "artifact.created", "capability.policy_changed",
                   "tool.completed", "tool.failed"}
    \/ e.type = "tool.started" /\ e.data = "propose"

LEMMA ReportKeepsViews ==
    ASSUME timeline \in Seq(EventRecord), NEW e \in EventRecord, Report(e),
           timeline' = Append(timeline, e), NEW p
    PROVE  /\ Blank(p)' <=> Blank(p)
           /\ Unsettled(p)' <=> Unsettled(p)
           /\ Concluded(p)' <=> Concluded(p)
           /\ Started(p)' <=> Started(p)
           /\ StageOf(p)' = StageOf(p)
           /\ VerdictOf(p)' = VerdictOf(p)
<1>1. /\ Released(p)' <=> Released(p)
      /\ Refused(p)' <=> Refused(p)
      /\ Started(p)' <=> Started(p)
      /\ Concluded(p)' <=> Concluded(p)
  BY ReleasedAppend, RefusedAppend, StartedAppend, ConcludedAppend DEF Report
<1>2. /\ Logged("approval.requested", p)' <=> Logged("approval.requested", p)
      /\ Logged("plan.completed", p)' <=> Logged("plan.completed", p)
      /\ Logged("plan.failed", p)' <=> Logged("plan.failed", p)
  BY LoggedAppend DEF Report
<1> QED  BY <1>1, <1>2 DEF Blank, Unsettled, StageOf, VerdictOf, Started

(* The steps that only report.                                               *)
ReportStep ==
    \/ ProposeStarted
    \/ \E ok \in BOOLEAN : Proposed(ok)
    \/ PlanCreated
    \/ ExecuteEnded
    \/ ArtifactCreated
    \/ PolicyChanged

\* The step logs e, moves to pc, and leaves the offers alone.
ReportsAs(e, pc) ==
    /\ HandlerEvent(e, pc)
    /\ Report(e)
    /\ pending' = pending
    /\ Closed(task.plan)
    /\ \/ pc = "idle"
       \/ task.pc \in Planning /\ pc \in Planning
       \/ /\ task.pc = "executed"
          /\ pc = "result"
          /\ e.data = "apply"
          /\ (e.type = "tool.completed") <=> task.ok

LEMMA ReportStepIsEvent ==
    ASSUME IInv, ReportStep
    PROVE  \E e, pc : ReportsAs(e, pc)
<1> USE DEF Planning, Reporting
<1>0. /\ task \in Task /\ policy \in Policy
      /\ task.pc \in Planning \cup Reporting => task.plan \in Plan /\ Closed(task.plan)
      /\ task.pc = "changed" => task.plan = NoPlan /\ Closed(NoPlan)
  BY PlanAssumption DEF IInv, TypeOK, TaskInv, Closed
<1>1. CASE ProposeStarted
  <2> DEFINE e == Event("tool.started", task.plan, "propose")
  <2>1. task.pc = "propose"
    BY <1>1 DEF ProposeStarted, EmitOnly
  <2>2. e \in EventRecord /\ Report(e)
    BY <1>0, <2>1 DEF Event, EventRecord, ToolEvent, Tool, Report
  <2>3. HandlerEvent(e, "proposing") /\ pending' = pending
    BY <1>1, <2>2, EmitOnlyIsEvent DEF ProposeStarted, Appending
  <2> HIDE DEF e
  <2> QED  BY <1>0, <2>1, <2>2, <2>3 DEF ReportsAs
<1>2. ASSUME NEW ok \in BOOLEAN, Proposed(ok)
      PROVE  \E e, pc : ReportsAs(e, pc)
  <2> DEFINE e == Event(IF ok THEN "tool.completed" ELSE "tool.failed", task.plan, "propose")
  <2>1. task.pc = "proposing" /\ pending' = pending
    BY <1>2 DEF Proposed
  <2>2. e \in EventRecord /\ Report(e) /\ e.plan = task.plan
    BY <1>0, <2>1 DEF Event, EventRecord, ToolEvent, Tool, Report
  <2>3. HandlerEvent(e, "plan")
    BY <1>0, <1>2, <2>2 DEF HandlerEvent, Proposed, Task
  <2> HIDE DEF e
  <2> QED  BY <1>0, <2>1, <2>2, <2>3 DEF ReportsAs
<1>3. CASE PlanCreated
  <2> DEFINE e == Event("plan.created", task.plan, "none")
             pc == IF task.ok THEN "policy" ELSE "failed"
  <2>1. task.pc = "plan"
    BY <1>3 DEF PlanCreated, EmitOnly
  <2>2. e \in EventRecord /\ Report(e)
    BY <1>0, <2>1 DEF Event, EventRecord, PlainEvent, Report
  <2>3. HandlerEvent(e, pc) /\ pending' = pending
    BY <1>3, <2>2, EmitOnlyIsEvent DEF PlanCreated, Appending
  <2>4. pc \in Planning
    OBVIOUS
  <2> HIDE DEF e, pc
  <2> QED  BY <1>0, <2>1, <2>2, <2>3, <2>4 DEF ReportsAs
<1>4. CASE ExecuteEnded
  <2> DEFINE type == IF task.ok THEN "tool.completed" ELSE "tool.failed"
             e == Event(type, task.plan, "apply")
  <2>1. task.pc = "executed"
    BY <1>4 DEF ExecuteEnded, EmitOnly
  <2>2. /\ e \in EventRecord /\ Report(e) /\ e.data = "apply"
        /\ (e.type = "tool.completed") <=> task.ok
    BY <1>0, <2>1 DEF Event, EventRecord, ToolEvent, Tool, Report
  <2>3. HandlerEvent(e, "result") /\ pending' = pending
    BY <1>4, <2>2, EmitOnlyIsEvent DEF ExecuteEnded, Appending
  <2> HIDE DEF e
  <2> QED  BY <1>0, <2>1, <2>2, <2>3 DEF ReportsAs
<1>5. CASE ArtifactCreated
  <2> DEFINE e == Event("artifact.created", task.plan, "none")
  <2>1. task.pc = "artifact"
    BY <1>5 DEF ArtifactCreated, EmitOnly
  <2>2. e \in EventRecord /\ Report(e)
    BY <1>0, <2>1 DEF Event, EventRecord, PlainEvent, Report
  <2>3. HandlerEvent(e, "idle") /\ pending' = pending
    BY <1>5, <2>2, EmitOnlyIsEvent DEF ArtifactCreated
  <2> HIDE DEF e
  <2> QED  BY <1>0, <2>1, <2>2, <2>3 DEF ReportsAs
<1>6. CASE PolicyChanged
  <2> DEFINE e == Event("capability.policy_changed", task.plan, policy)
  <2>1. task.pc = "changed"
    BY <1>6 DEF PolicyChanged, EmitOnly
  <2>2. e \in EventRecord /\ Report(e)
    BY <1>0, <2>1 DEF Event, EventRecord, PolicyEvent, Report
  <2>3. HandlerEvent(e, "idle") /\ pending' = pending
    BY <1>6, <2>2, EmitOnlyIsEvent DEF PolicyChanged
  <2> HIDE DEF e
  <2> QED  BY <1>0, <2>1, <2>2, <2>3 DEF ReportsAs
<1> QED  BY <1>1, <1>2, <1>3, <1>4, <1>5, <1>6 DEF ReportStep

-----------------------------------------------------------------------------
\* A step of the gate, or none.
GateStep == [Gate!Next]_(Gate!vars)

(* What the views of a plan must be before and after an event about it for   *)
(* the gate to move.                                                         *)
LEMMA MovesThroughGate ==
    ASSUME timeline \in Seq(EventRecord), NEW e \in EventRecord,
           timeline' = Append(timeline, e), applied' = applied,
           NEW p \in Plan, e.plan = p, NEW from, NEW to,
           StageOf(p) = from, StageOf(p)' = to,
           VerdictOf(p) = "open", VerdictOf(p)' = "open"
    PROVE  Gate!Moves(p, from, to)
<1>1. \A q \in Plan \ {p} : StageOf(q)' = StageOf(q) /\ VerdictOf(q)' = VerdictOf(q)
  BY OtherGate
<1> QED  BY <1>1 DEF Gate!Moves

LEMMA ConcludesThroughGate ==
    ASSUME timeline \in Seq(EventRecord), NEW e \in EventRecord,
           timeline' = Append(timeline, e), applied' = applied,
           NEW p \in Plan, e.plan = p, NEW v \in {"completed", "failed"},
           StageOf(p) = "started" \/ (StageOf(p) = "undecided" /\ v = "failed"),
           StageOf(p)' = StageOf(p),
           VerdictOf(p) = "open", VerdictOf(p)' = v
    PROVE  GateStep
<1>1. \A q \in Plan \ {p} : StageOf(q)' = StageOf(q) /\ VerdictOf(q)' = VerdictOf(q)
  BY OtherGate
<1>2. Gate!Conclude(p, v)
  BY <1>1 DEF Gate!Conclude
<1> QED  BY <1>2 DEF Gate!Next, GateStep

LEMMA StuttersAtGate ==
    ASSUME \A p \in Plan : StageOf(p)' = StageOf(p) /\ VerdictOf(p)' = VerdictOf(p),
           applied' = applied
    PROVE  GateStep
  BY DEF GateStep, Gate!vars

(* The views of a plan, from the predicates the invariants speak of.         *)
LEMMA Views ==
    ASSUME NEW p
    PROVE  /\ VerdictOf(p) = "open" <=> ~Concluded(p)
           /\ Started(p) => StageOf(p) = "started"
           /\ ~Started(p) /\ Refused(p) => StageOf(p) = "refused"
           /\ ~Started(p) /\ ~Refused(p) /\ Released(p) => StageOf(p) = "released"
           /\ ~Started(p) /\ ~Refused(p) /\ ~Released(p)
              /\ Logged("approval.requested", p) => StageOf(p) = "asked"
           /\ ~Started(p) /\ ~Refused(p) /\ ~Released(p)
              /\ ~Logged("approval.requested", p) => StageOf(p) = "undecided"
           /\ ~Logged("plan.completed", p) /\ Logged("plan.failed", p) =>
                VerdictOf(p) = "failed"
           /\ Logged("plan.completed", p) => VerdictOf(p) = "completed"
  BY DEF VerdictOf, StageOf, Concluded, Started

-----------------------------------------------------------------------------
LEMMA ReportPasses ==
    ASSUME IInv, GInv, ReportStep
    PROVE  GInv' /\ GateStep
<1>1. PICK e, pc : ReportsAs(e, pc)
  BY ReportStepIsEvent
<1>2. /\ e \in EventRecord /\ e.plan = task.plan /\ Report(e)
      /\ timeline' = Append(timeline, e)
      /\ pending' = pending /\ issued' = issued /\ applied' = applied
      /\ Closed(task.plan)
      /\ task'.pc = pc
      /\ pc = "idle" \/ (task'.plan = task.plan /\ (task'.ok = task.ok \/ pc = "plan"))
      /\ timeline \in Seq(EventRecord)
  BY <1>1 DEF ReportsAs, HandlerEvent, external, IInv, TypeOK
<1>3. FreshGate' /\ PendingGate' /\ OfferGate' /\ OneOutcome'
  BY <1>2, EmitKeepsGate DEF Report
<1>4. TaskGate'
  <2>1. CASE pc = "idle"
    BY <1>2, <2>1 DEF TaskGate, Planning, Running
  <2>2. CASE task.pc \in Planning /\ pc \in Planning
    <3>1. PICK q : q = task.plan /\ Blank(q)
      BY <2>2 DEF GInv, TaskGate
    <3>2. Blank(q)'
      BY <1>2, <3>1, ReportKeepsViews
    <3> QED  BY <1>2, <2>2, <3>1, <3>2 DEF TaskGate, Planning, Running
  <2>3. CASE /\ task.pc = "executed" /\ pc = "result" /\ e.data = "apply"
             /\ (e.type = "tool.completed") <=> task.ok
    <3>1. PICK q : q = task.plan /\ ~Concluded(q) /\ Started(q)
      BY <2>3 DEF GInv, TaskGate, Running
    <3>2. ~Concluded(q)' /\ Started(q)'
      BY <1>2, <3>1, ReportKeepsViews
    <3>3. task.ok => ToolLogged("tool.completed", q, "apply")'
      BY <1>2, <2>3, <3>1, AppendHistory DEF ToolLogged, IsToolAt, IsAt
    <3> QED  BY <1>2, <2>3, <3>1, <3>2, <3>3 DEF TaskGate, Planning, Running
  <2> QED  BY <1>1, <2>1, <2>2, <2>3 DEF ReportsAs
<1>5. GateStep
  BY <1>2, ReportKeepsViews, StuttersAtGate
<1> QED  BY <1>3, <1>4, <1>5 DEF GInv

LEMMA PlanningFailedPasses ==
    ASSUME IInv, GInv, PlanningFailed
    PROVE  GInv' /\ GateStep
<1>1. PICK q \in Plan : q = task.plan /\ Undecided(q) /\ Blank(q) /\ Closed(q)
  BY DEF PlanningFailed, EmitOnly, IInv, TaskInv, GInv, TaskGate, Planning, Closed
<1> DEFINE e == Event("plan.failed", q, "none")
<1>2. /\ e \in EventRecord /\ e.plan = q /\ e.type = "plan.failed"
      /\ timeline' = Append(timeline, e) /\ UNCHANGED <<pending, issued, applied>>
      /\ task'.pc = "idle"
      /\ timeline \in Seq(EventRecord)
  BY <1>1 DEF PlanningFailed, EmitOnly, Emit, Goto, Idle, external, Event, EventRecord,
              PlainEvent, IInv, TypeOK
<1> HIDE DEF e
<1>3. FreshGate' /\ PendingGate' /\ OfferGate' /\ OneOutcome'
  BY <1>1, <1>2, EmitKeepsGate DEF Blank
<1>4. TaskGate'
  BY <1>2 DEF TaskGate, Planning, Running
<1>5. /\ ~Started(q)' /\ ~Refused(q)' /\ ~Released(q)'
      /\ ~Logged("approval.requested", q)'
      /\ Logged("plan.failed", q)' /\ ~Logged("plan.completed", q)'
  BY <1>1, <1>2, StartedAppend, RefusedAppend, ReleasedAppend, LoggedAppend
     DEF Undecided, Blank, Concluded
<1>6. /\ StageOf(q) = "undecided" /\ VerdictOf(q) = "open"
      /\ StageOf(q)' = "undecided" /\ VerdictOf(q)' = "failed"
  BY <1>1, <1>5, Views DEF Undecided, Blank, StageOf, VerdictOf, Started
<1>7. GateStep
  BY <1>2, <1>6, ConcludesThroughGate
<1> QED  BY <1>3, <1>4, <1>7 DEF GInv

LEMMA ResultPasses ==
    ASSUME IInv, GInv, ResultEmitted
    PROVE  GInv' /\ GateStep
<1>1. PICK q \in Plan :
         /\ q = task.plan /\ Started(q) /\ ~Concluded(q) /\ Closed(q)
         /\ task.ok => ToolLogged("tool.completed", q, "apply")
  BY DEF ResultEmitted, EmitOnly, IInv, TaskInv, GInv, TaskGate, Running, Reporting, Closed
<1> DEFINE v == IF task.ok THEN "completed" ELSE "failed"
           e == Event(IF task.ok THEN "plan.completed" ELSE "plan.failed", q, "none")
<1>2. /\ e \in EventRecord /\ e.plan = q
      /\ e.type = IF task.ok THEN "plan.completed" ELSE "plan.failed"
      /\ timeline' = Append(timeline, e) /\ UNCHANGED <<pending, issued, applied>>
      /\ task'.pc \in {"idle", "artifact"}
      /\ timeline \in Seq(EventRecord)
  BY <1>1 DEF ResultEmitted, EmitOnly, Emit, Goto, Idle, external, Event, EventRecord,
              PlainEvent, IInv, TypeOK, Task
<1> HIDE DEF e
<1>3. FreshGate' /\ PendingGate' /\ OfferGate' /\ OneOutcome'
  BY <1>1, <1>2, EmitKeepsGate
<1>4. TaskGate'
  BY <1>2 DEF TaskGate, Planning, Running
<1>5. /\ Started(q)'
      /\ Logged("plan.failed", q)' <=> ~task.ok
      /\ Logged("plan.completed", q)' <=> task.ok
  BY <1>1, <1>2, StartedAppend, LoggedAppend DEF Concluded
<1>6. /\ StageOf(q) = "started" /\ VerdictOf(q) = "open"
      /\ StageOf(q)' = "started" /\ VerdictOf(q)' = v
  BY <1>1, <1>5, Views DEF StageOf, VerdictOf, Started
<1>7. GateStep
  BY <1>2, <1>6, ConcludesThroughGate
<1> QED  BY <1>3, <1>4, <1>7 DEF GInv

LEMMA RequestedPasses ==
    ASSUME IInv, GInv, ApprovalRequested
    PROVE  GInv' /\ GateStep
<1>1. PICK q \in Plan :
         /\ q = task.plan /\ q \in DOMAIN pending /\ Undecided(q) /\ Unsettled(q)
         /\ pending[q].expires \in Nat
  BY DEF ApprovalRequested, EmitOnly, IInv, TypeOK, TaskInv, PendingInv, GInv, PendingGate,
         PendingApproval
<1> DEFINE e == Event("approval.requested", q, pending[q].expires)
<1>2. /\ e \in EventRecord /\ e.plan = q /\ e.type = "approval.requested"
      /\ e.data = pending[q].expires
      /\ timeline' = Append(timeline, e) /\ UNCHANGED <<pending, issued, applied>>
      /\ task'.pc = "idle"
      /\ timeline \in Seq(EventRecord)
  BY <1>1 DEF ApprovalRequested, EmitOnly, Emit, Goto, Idle, external, Event, EventRecord,
              OfferEvent, IInv, TypeOK
<1> HIDE DEF e
<1>3. FreshGate' /\ PendingGate' /\ OfferGate' /\ OneOutcome'
  BY <1>1, <1>2, EmitKeepsGate
<1>4. TaskGate'
  BY <1>2 DEF TaskGate, Planning, Running
<1>5. /\ ~Started(q)' /\ ~Refused(q)' /\ ~Released(q)' /\ ~Concluded(q)'
      /\ Logged("approval.requested", q)'
  BY <1>1, <1>2, StartedAppend, RefusedAppend, ReleasedAppend, ConcludedAppend,
     LoggedAppend DEF Undecided, Unsettled
<1>6. /\ StageOf(q) \in {"undecided", "asked"} /\ VerdictOf(q) = "open"
      /\ StageOf(q)' = "asked" /\ VerdictOf(q)' = "open"
  BY <1>1, <1>5, Views DEF Undecided, Unsettled, StageOf, VerdictOf, Started, Concluded
<1>7. GateStep
  <2>1. CASE StageOf(q) = "undecided"
    BY <1>2, <1>6, <2>1, MovesThroughGate DEF Gate!Ask, Gate!Next, GateStep
  <2>2. CASE StageOf(q) = "asked"
    <3>1. \A p \in Plan : StageOf(p)' = StageOf(p) /\ VerdictOf(p)' = VerdictOf(p)
      BY <1>2, <1>6, <2>2, OtherGate
    <3> QED  BY <1>2, <3>1, StuttersAtGate
  <2> QED  BY <1>6, <2>1, <2>2
<1> QED  BY <1>3, <1>4, <1>7 DEF GInv

\* The answers of the human, and the start of what they or the policy released.
LEMMA GrantedPasses ==
    ASSUME IInv, GInv, ApprovalGranted
    PROVE  GInv' /\ GateStep
<1>1. PICK q \in Plan :
         /\ q = task.plan /\ Undecided(q) /\ Closed(q) /\ Unsettled(q)
         /\ Logged("approval.requested", q)
  BY DEF ApprovalGranted, EmitOnly, IInv, TaskInv, GInv, TaskGate
<1> DEFINE e == Event("approval.granted", q, "none")
<1>2. /\ e \in EventRecord /\ e.plan = q /\ e.type = "approval.granted"
      /\ timeline' = Append(timeline, e) /\ UNCHANGED <<pending, issued, applied>>
      /\ task'.pc = "start" /\ task'.plan = q
      /\ timeline \in Seq(EventRecord)
  BY <1>1 DEF ApprovalGranted, EmitOnly, Emit, Goto, external, Event, EventRecord,
              PlainEvent, IInv, TypeOK, Task
<1> HIDE DEF e
<1>3. FreshGate' /\ PendingGate' /\ OfferGate' /\ OneOutcome'
  BY <1>1, <1>2, EmitKeepsGate
<1>4. /\ ~Started(q)' /\ ~Refused(q)' /\ Released(q)' /\ ~Concluded(q)'
      /\ Logged("approval.requested", q)'
  BY <1>1, <1>2, StartedAppend, RefusedAppend, ReleasedAppend, ConcludedAppend,
     LoggedAppend DEF Undecided, Unsettled
<1>5. TaskGate'
  BY <1>2, <1>4 DEF TaskGate, Planning, Running
<1>6. /\ StageOf(q) = "asked" /\ VerdictOf(q) = "open"
      /\ StageOf(q)' = "released" /\ VerdictOf(q)' = "open"
  BY <1>1, <1>4, Views DEF Undecided, Unsettled, StageOf, VerdictOf, Started, Concluded
<1>7. GateStep
  BY <1>2, <1>6, MovesThroughGate DEF Gate!Grant, Gate!Next, GateStep
<1> QED  BY <1>3, <1>5, <1>7 DEF GInv

LEMMA RejectedPasses ==
    ASSUME IInv, GInv, ApprovalRejected
    PROVE  GInv' /\ GateStep
<1>1. PICK q \in Plan :
         /\ q = task.plan /\ Undecided(q) /\ Closed(q) /\ Unsettled(q)
         /\ Logged("approval.requested", q)
  BY DEF ApprovalRejected, EmitOnly, IInv, TaskInv, GInv, TaskGate
<1> DEFINE e == Event("approval.rejected", q, "none")
<1>2. /\ e \in EventRecord /\ e.plan = q /\ e.type = "approval.rejected"
      /\ timeline' = Append(timeline, e) /\ UNCHANGED <<pending, issued, applied>>
      /\ task'.pc = "idle"
      /\ timeline \in Seq(EventRecord)
  BY <1>1 DEF ApprovalRejected, EmitOnly, Emit, Goto, Idle, external, Event, EventRecord,
              PlainEvent, IInv, TypeOK
<1> HIDE DEF e
<1>3. FreshGate' /\ PendingGate' /\ OfferGate' /\ OneOutcome'
  BY <1>1, <1>2, EmitKeepsGate
<1>4. ~Started(q)' /\ Refused(q)' /\ ~Concluded(q)'
  BY <1>1, <1>2, StartedAppend, RefusedAppend, ConcludedAppend DEF Undecided, Unsettled
<1>5. TaskGate'
  BY <1>2 DEF TaskGate, Planning, Running
<1>6. /\ StageOf(q) = "asked" /\ VerdictOf(q) = "open"
      /\ StageOf(q)' = "refused" /\ VerdictOf(q)' = "open"
  BY <1>1, <1>4, Views DEF Undecided, Unsettled, StageOf, VerdictOf, Started, Concluded
<1>7. GateStep
  BY <1>2, <1>6, MovesThroughGate DEF Gate!Reject, Gate!Next, GateStep
<1> QED  BY <1>3, <1>5, <1>7 DEF GInv

LEMMA StartPasses ==
    ASSUME IInv, GInv, ExecuteStarted
    PROVE  GInv' /\ GateStep
<1>1. PICK q \in Plan :
         /\ q = task.plan /\ ~Started(q) /\ ~Refused(q) /\ Released(q) /\ Closed(q)
         /\ ~Concluded(q)
  BY DEF ExecuteStarted, EmitOnly, IInv, TaskInv, GInv, TaskGate, Running
<1> DEFINE e == Event("tool.started", q, "apply")
<1>2. /\ e \in EventRecord /\ e.plan = q /\ e.type = "tool.started" /\ e.data = "apply"
      /\ timeline' = Append(timeline, e) /\ UNCHANGED <<pending, issued, applied>>
      /\ task'.pc = "executing" /\ task'.plan = q
      /\ timeline \in Seq(EventRecord)
  BY <1>1 DEF ExecuteStarted, EmitOnly, Emit, Goto, external, Event, EventRecord,
              ToolEvent, Tool, IInv, TypeOK, Task
<1> HIDE DEF e
<1>3. FreshGate' /\ PendingGate' /\ OfferGate' /\ OneOutcome'
  BY <1>1, <1>2, EmitKeepsGate
<1>4. Started(q)' /\ ~Concluded(q)'
  BY <1>1, <1>2, StartedAppend, ConcludedAppend
<1>5. TaskGate'
  BY <1>2, <1>4 DEF TaskGate, Planning, Running
<1>6. /\ StageOf(q) = "released" /\ VerdictOf(q) = "open"
      /\ StageOf(q)' = "started" /\ VerdictOf(q)' = "open"
  BY <1>1, <1>4, Views DEF StageOf, VerdictOf, Started, Concluded
<1>7. GateStep
  BY <1>2, <1>6, MovesThroughGate DEF Gate!Start, Gate!Next, GateStep
<1> QED  BY <1>3, <1>5, <1>7 DEF GInv

(* The connector touches the workbook for a plan that started, once.         *)
LEMMA ExecutePasses ==
    ASSUME IInv, GInv, NEW mutates \in BOOLEAN, NEW ok \in BOOLEAN, Execute(mutates, ok)
    PROVE  GInv' /\ GateStep
<1>1. PICK q \in Plan :
         q = task.plan /\ Started(q) /\ applied[q] = 0 /\ ~Concluded(q)
  BY DEF Execute, IInv, TaskInv, GInv, TaskGate, Running
<1>2. /\ UNCHANGED <<timeline, pending, issued>>
      /\ applied' = applied \/ applied' = [applied EXCEPT ![q] = 1]
      /\ task'.pc = "executed" /\ task'.plan = q
  BY <1>1 DEF Execute, durable, IInv, TypeOK, Task
<1>3. /\ \A p : (Blank(p)' <=> Blank(p)) /\ (Unsettled(p)' <=> Unsettled(p))
      /\ \A p : (Concluded(p)' <=> Concluded(p)) /\ (Started(p)' <=> Started(p))
      /\ \A p : StageOf(p)' = StageOf(p) /\ VerdictOf(p)' = VerdictOf(p)
      /\ OneOutcome'
  BY <1>2, SameViews DEF GInv
<1>4. FreshGate' /\ PendingGate' /\ OfferGate'
  BY <1>2, <1>3 DEF GInv, FreshGate, PendingGate, OfferGate, IsAt
<1>5. TaskGate'
  BY <1>1, <1>2, <1>3 DEF TaskGate, Planning, Running
<1>6. GateStep
  <2>1. CASE applied' = applied
    BY <1>3, <2>1, StuttersAtGate
  <2>2. CASE applied' = [applied EXCEPT ![q] = 1]
    <3>1. StageOf(q) = "started" /\ VerdictOf(q) = "open"
      BY <1>1, Views
    <3>2. Gate!Touch(q)
      BY <1>1, <1>3, <2>2, <3>1 DEF Gate!Touch
    <3> QED  BY <3>2 DEF Gate!Next, GateStep
  <2> QED  BY <1>2, <2>1, <2>2
<1> QED  BY <1>3, <1>4, <1>5, <1>6 DEF GInv

(* The verdict of the policy clears, denies, or leaves the plan to a human,  *)
(* whose approval is put in memory before it is announced.                   *)
LEMMA VerdictPasses ==
    ASSUME IInv, GInv, PolicyEvaluated
    PROVE  GInv' /\ GateStep
<1>1. PICK q \in Plan :
         /\ q = task.plan /\ Undecided(q) /\ Blank(q) /\ q \notin DOMAIN pending
  BY DEF PolicyEvaluated, IInv, TaskInv, GInv, TaskGate, Planning
<1>2. /\ timeline \in Seq(EventRecord) /\ task \in Task /\ policy \in Policy
      /\ task.pc = "policy"
  BY DEF PolicyEvaluated, IInv, TypeOK
<1> DEFINE e == Event("policy.evaluated", q,
                      [policy |-> policy, confidence |-> task.confidence])
           offered == [p \in DOMAIN pending \cup {q} |->
                         IF p = q THEN [expires |-> now + Lifetime, used |-> FALSE]
                         ELSE pending[p]]
<1>3. /\ e \in EventRecord /\ e.plan = q /\ e.type = "policy.evaluated"
      /\ e.data.policy = policy /\ e.data.confidence = task.confidence
  BY <1>2 DEF Event, EventRecord, VerdictEvent, Task
<1>4. timeline' = Append(timeline, e) /\ UNCHANGED <<issued, applied>>
  BY <1>1 DEF PolicyEvaluated, Emit, external
<1>5. \/ task'.pc = "idle" /\ pending' = pending /\ policy.mode = "disabled"
      \/ /\ task'.pc = "start" /\ task'.plan = q /\ pending' = pending
         /\ Releases(policy, task.confidence)
      \/ /\ task'.pc = "request" /\ task'.plan = q /\ pending' = offered
         /\ policy.mode # "disabled" /\ ~Releases(policy, task.confidence)
  BY <1>1, <1>2 DEF PolicyEvaluated, Emit, Goto, Task, Idle
<1> HIDE DEF e
<1>6. /\ ~Started(q)' /\ ~Concluded(q)' /\ ~Logged("approval.requested", q)'
      /\ Refused(q)' <=> policy.mode = "disabled"
      /\ Released(q)' <=> Releases(policy, task.confidence)
  BY <1>1, <1>2, <1>3, <1>4, StartedAppend, RefusedAppend, ReleasedAppend,
     ConcludedAppend, LoggedAppend DEF Undecided, Blank
<1>7. /\ StageOf(q) = "undecided" /\ VerdictOf(q) = "open"
      /\ VerdictOf(q)' = "open"
      /\ policy.mode = "disabled" => StageOf(q)' = "refused"
      /\ policy.mode # "disabled" /\ Releases(policy, task.confidence) =>
           StageOf(q)' = "released"
      /\ policy.mode # "disabled" /\ ~Releases(policy, task.confidence) =>
           StageOf(q)' = "undecided"
  BY <1>1, <1>6, Views DEF Undecided, Blank, StageOf, VerdictOf, Started, Concluded
<1>8. OneOutcome'
  BY <1>2, <1>3, <1>4, OutcomeAppend DEF GInv
<1>9. \A p \in Plan \ {q} : /\ Blank(p)' <=> Blank(p)
                            /\ Unsettled(p)' <=> Unsettled(p)
                            /\ StageOf(p)' = StageOf(p)
                            /\ VerdictOf(p)' = VerdictOf(p)
  BY <1>2, <1>3, <1>4, OtherGate
<1>10. FreshGate'
  BY <1>1, <1>4, <1>9 DEF GInv, FreshGate, IInv, FreshInv
<1>11. \A p \in DOMAIN pending : p \in Plan \ {q}
  BY <1>1 DEF IInv, TypeOK
<1>12. \A p \in DOMAIN pending : \A i \in DOMAIN timeline' :
          IsAt(i, "approval.requested", p)' => timeline'[i].data = pending[p].expires
  BY <1>2, <1>3, <1>4, AppendHistory DEF GInv, OfferGate, IsAt
<1>13. /\ DOMAIN pending' \subseteq DOMAIN pending \cup {q}
       /\ \A p \in DOMAIN pending : pending'[p] = pending[p]
       /\ q \in DOMAIN pending' => ~Releases(policy, task.confidence)
  BY <1>1, <1>5
<1>14. PendingGate'
  BY <1>6, <1>9, <1>11, <1>13 DEF GInv, PendingGate, Unsettled
<1>15. OfferGate'
  <2>1. \A i \in DOMAIN timeline' : ~IsAt(i, "approval.requested", q)'
    BY <1>6 DEF Logged, IsAt
  <2> QED  BY <1>12, <1>13, <2>1 DEF OfferGate
<1>16. TaskGate'
  BY <1>5, <1>6 DEF TaskGate, Planning, Running
<1>17. GateStep
  <2>1. CASE policy.mode = "disabled"
    BY <1>2, <1>3, <1>4, <1>7, <2>1, MovesThroughGate DEF Gate!Deny, Gate!Next, GateStep
  <2>2. CASE policy.mode # "disabled" /\ Releases(policy, task.confidence)
    BY <1>2, <1>3, <1>4, <1>7, <2>2, MovesThroughGate DEF Gate!Clear, Gate!Next, GateStep
  <2>3. CASE policy.mode # "disabled" /\ ~Releases(policy, task.confidence)
    <3>1. \A p \in Plan : StageOf(p)' = StageOf(p) /\ VerdictOf(p)' = VerdictOf(p)
      BY <1>7, <1>9, <2>3
    <3> QED  BY <1>4, <3>1, StuttersAtGate
  <2> QED  BY <2>1, <2>2, <2>3
<1> QED  BY <1>8, <1>10, <1>14, <1>15, <1>16, <1>17 DEF GInv

(* Steps that log nothing and touch nothing are not seen at the gate.        *)
LEMMA SilentStutters ==
    ASSUME UNCHANGED <<timeline, applied>>
    PROVE  GateStep
<1>1. \A p \in Plan : StageOf(p)' = StageOf(p) /\ VerdictOf(p)' = VerdictOf(p)
  BY SameViews
<1> QED  BY <1>1, StuttersAtGate

-----------------------------------------------------------------------------
LEMMA GateInductive ==
    ASSUME IInv, GInv, [Next]_vars
    PROVE  GInv' /\ GateStep
<1>1. CASE HandlerStep
  BY <1>1, ReportPasses, PlanningFailedPasses, VerdictPasses, RequestedPasses,
     GrantedPasses, RejectedPasses, StartPasses, ExecutePasses, ResultPasses
     DEF HandlerStep, ReportStep
<1>2. CASE Call \/ StoreFails \/ Crash \/ Tick
  <2>1. UNCHANGED <<timeline, applied>>
    BY <1>2
       DEF Call, Request, Approve, ApproveExpired, Reject, SetPolicy, StoreFails, Crash,
           Tick, durable, external
  <2> QED  BY <1>2, <2>1, SilentKeepsGate, SilentStutters
<1>3. CASE UNCHANGED vars
  <2>1. UNCHANGED <<timeline, applied>> /\ UNCHANGED <<pending, issued, task>>
    BY <1>3 DEF vars
  <2>2. GInv'
    BY <2>1, SameViews
       DEF GInv, FreshGate, PendingGate, OfferGate, TaskGate, IsAt, ToolLogged, IsToolAt
  <2> QED  BY <2>1, <2>2, SilentStutters
<1> QED  BY <1>1, <1>2, <1>3 DEF Next

LEMMA GateInvariant == Spec => [](IInv /\ GInv)
<1>1. Init => GInv
  BY InitGate
<1>2. IInv /\ GInv /\ [Next]_vars => GInv'
  BY GateInductive
<1> QED  BY <1>1, <1>2, InductiveInvariant, PTL DEF Spec

(* Every run of the engine, with its crashes, failing store and changing     *)
(* policy, is a run of the gate: a plan is cleared or offered when nothing   *)
(* was decided, granted only when offered, started only when released,       *)
(* changes the workbook once, and is concluded once                          *)
(* (CapabilityEngine.request, approve, reject).                              *)
THEOREM EngineImplementsGate == Spec => ImplementsGate
<1>1. Init => Gate!Init
  <2> SUFFICES ASSUME Init PROVE Gate!Init
    OBVIOUS
  <2>1. \A p : ~Started(p) /\ ~Refused(p) /\ Blank(p)
    BY DEF Init, Blank, Released, ReleasedBefore, PolicyReleasedAt, IsAt, Concluded,
           Logged, Started, ToolLogged, Refused
  <2>2. \A p : StageOf(p) = "undecided" /\ VerdictOf(p) = "open"
    BY <2>1, Views DEF Blank
  <2> QED  BY <2>2 DEF Init, Gate!Init
<1>2. IInv /\ GInv /\ [Next]_vars => [Gate!Next]_(Gate!vars)
  BY GateInductive DEF GateStep
<1> QED  BY <1>1, <1>2, GateInvariant, PTL DEF Spec, ImplementsGate, Gate!Spec

(* A plan is reported completed only after its tool was, and never both      *)
(* completed and failed (CapabilityEngine._emit_result).                     *)
THEOREM PlansEndOneWay == Spec => []OneOutcome
<1>1. IInv /\ GInv => OneOutcome
  BY DEF GInv
<1> QED  BY <1>1, GateInvariant, PTL

(* An approval is granted only before the end of the offer that was          *)
(* announced (CapabilityEngine.approve).                                     *)
THEOREM GrantsAreInTime == Spec => GrantedInTime
<1> DEFINE InTime ==
        \A i \in DOMAIN timeline :
            (task = Idle /\ task'.pc = "grant" /\ IsAt(i, "approval.requested", task'.plan))
            => now < timeline[i].data
<1>1. ASSUME IInv, GInv, [Next]_vars
      PROVE  InTime
  <2> SUFFICES ASSUME NEW i \in DOMAIN timeline, task = Idle, task'.pc = "grant",
                      IsAt(i, "approval.requested", task'.plan)
               PROVE  now < timeline[i].data
    OBVIOUS
  <2>1. PICK p \in Plan : Approve(p)
    <3>1. task.pc = "idle"
      BY DEF Idle
    <3>2. ~HandlerStep
      BY <3>1
         DEF HandlerStep, ProposeStarted, Proposed, PlanCreated, PlanningFailed,
             PolicyEvaluated, ApprovalRequested, ApprovalGranted, ApprovalRejected,
             ExecuteStarted, Execute, ExecuteEnded, ResultEmitted, ArtifactCreated,
             PolicyChanged, EmitOnly
    <3>3. ~StoreFails /\ ~Crash /\ ~Tick /\ task' # task
      BY <3>1 DEF StoreFails, Crash, CutShort, Tick, Idle
    <3>4. Call
      BY <1>1, <3>2, <3>3 DEF Next, vars
    <3>5. \A p \in Plan, c \in Confidence : ~Request(p, c)
      BY DEF Request
    <3>6. \A p \in Plan : ~ApproveExpired(p) /\ ~Reject(p)
      BY <3>3 DEF ApproveExpired, Reject, Idle
    <3>7. \A m \in Mode, t \in Threshold : ~SetPolicy(m, t)
      BY DEF SetPolicy, Idle
    <3> QED  BY <3>4, <3>5, <3>6, <3>7 DEF Call
  <2>2. task'.plan = p /\ p \in DOMAIN pending /\ now < pending[p].expires
    BY <2>1 DEF Approve, Answerable, Idle
  <2>3. timeline[i].data = pending[p].expires
    BY <1>1, <2>2 DEF GInv, OfferGate
  <2> QED  BY <2>2, <2>3
<1>2. IInv /\ GInv /\ [Next]_vars => InTime
  BY <1>1
<1> QED  BY <1>2, GateInvariant, PTL DEF Spec, GrantedInTime
=============================================================================

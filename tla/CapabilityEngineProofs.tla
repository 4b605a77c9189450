---------------------- MODULE CapabilityEngineProofs ----------------------
(***************************************************************************)
(* What the engine guarantees for every set of plans, every policy and     *)
(* every interleaving of calls, crashes and failures of the store.  The    *)
(* safety properties are not inductive: that a plan is started once and    *)
(* only after its release depends on where the handler is and on which     *)
(* approvals in memory are still unused.  IInv says so.                    *)
(***************************************************************************)
EXTENDS CapabilityEngine, SequenceTheorems, TLAPS

Started(p) == ToolLogged("tool.started", p, "apply")

\* Nothing was decided about p yet.
Undecided(p) ==
    /\ applied[p] = 0
    /\ ~Started(p)
    /\ ~Logged("approval.granted", p)
    /\ ~Refused(p)

\* No approval of p can be answered any more.
Closed(p) == p \in DOMAIN pending => pending[p].used

\* A plan that was not issued has left no trace.
FreshInv ==
    \A p \in Plan \ issued : Undecided(p) /\ p \notin DOMAIN pending /\ task.plan # p

\* An approval that is still unused belongs to an undecided plan.
PendingInv == \A p \in DOMAIN pending : ~pending[p].used => Undecided(p)

Planning == {"propose", "proposing", "plan", "failed", "policy"}
Reporting == {"executed", "result", "artifact"}

\* Where the handler is tells what was decided about its plan.
TaskInv ==
    /\ task.pc = "idle" => task = Idle
    /\ task.pc = "changed" => task.plan = NoPlan
    /\ task.pc \notin {"idle", "changed"} => task.plan \in Plan
    /\ task.pc \in Planning => Undecided(task.plan) /\ task.plan \notin DOMAIN pending
    /\ task.pc = "request" => task.plan \in DOMAIN pending /\ ~pending[task.plan].used
    /\ task.pc \in {"grant", "reject"} => Undecided(task.plan) /\ Closed(task.plan)
    /\ task.pc = "start" =>
         /\ applied[task.plan] = 0
         /\ ~Started(task.plan)
         /\ ~Refused(task.plan)
         /\ Released(task.plan)
         /\ Closed(task.plan)
    /\ task.pc = "executing" =>
         /\ applied[task.plan] = 0
         /\ Started(task.plan)
         /\ ~Refused(task.plan)
         /\ Closed(task.plan)
    /\ task.pc \in Reporting => Closed(task.plan)

IInv ==
    /\ TypeOK
    /\ FreshInv
    /\ PendingInv
    /\ TaskInv
    /\ MutationReleased
    /\ ExecutedAtMostOnce
    /\ RefusalIsFinal
-----------------------------------------------------------------------------
(* What an append does to the predicates over the timeline: the event it     *)
(* adds is the only one that can make any of them true (EventStore.append).  *)
LEMMA AppendHistory ==
    ASSUME timeline \in Seq(EventRecord), NEW e \in EventRecord,
           timeline' = Append(timeline, e)
    PROVE  /\ timeline' \in Seq(EventRecord)
           /\ Len(timeline') = Len(timeline) + 1
           /\ DOMAIN timeline = 1 .. Len(timeline)
           /\ DOMAIN timeline' = 1 .. (Len(timeline) + 1)
           /\ \A i \in DOMAIN timeline : timeline'[i] = timeline[i]
           /\ timeline'[Len(timeline) + 1] = e
  BY AppendProperties

LEMMA LoggedAppend ==
    ASSUME timeline \in Seq(EventRecord), NEW e \in EventRecord,
           timeline' = Append(timeline, e), NEW type, NEW p
    PROVE  Logged(type, p)' <=> Logged(type, p) \/ (e.type = type /\ e.plan = p)
  BY AppendHistory DEF Logged, IsAt

LEMMA StartedAppend ==
    ASSUME timeline \in Seq(EventRecord), NEW e \in EventRecord,
           timeline' = Append(timeline, e), NEW p
    PROVE  Started(p)' <=>
             Started(p) \/ (e.type = "tool.started" /\ e.plan = p /\ e.data = "apply")
  BY AppendHistory DEF Started, ToolLogged, IsToolAt, IsAt

LEMMA RefusedAppend ==
    ASSUME timeline \in Seq(EventRecord), NEW e \in EventRecord,
           timeline' = Append(timeline, e), NEW p
    PROVE  Refused(p)' <=>
             \/ Refused(p)
             \/ e.plan = p /\ e.type = "approval.rejected"
             \/ e.plan = p /\ e.type = "policy.evaluated" /\ e.data.policy.mode = "disabled"
<1>1. Logged("approval.rejected", p)' <=>
        Logged("approval.rejected", p) \/ (e.type = "approval.rejected" /\ e.plan = p)
  BY LoggedAppend
<1> QED  BY <1>1, AppendHistory DEF Refused, IsAt

LEMMA ReleasedAppend ==
    ASSUME timeline \in Seq(EventRecord), NEW e \in EventRecord,
           timeline' = Append(timeline, e), NEW p
    PROVE  Released(p)' <=>
             \/ Released(p)
             \/ e.plan = p /\ e.type = "approval.granted"
             \/ /\ e.plan = p
                /\ e.type = "policy.evaluated"
                /\ Releases(e.data.policy, e.data.confidence)
  BY AppendHistory DEF Released, ReleasedBefore, PolicyReleasedAt, Releases, IsAt

(* Steps that write neither the timeline nor the workbook decide nothing.    *)
LEMMA SameHistory ==
    ASSUME UNCHANGED <<timeline, applied>>
    PROVE  /\ \A p : Undecided(p)' <=> Undecided(p)
           /\ \A p : Started(p)' <=> Started(p)
           /\ \A p : Refused(p)' <=> Refused(p)
           /\ \A p : Released(p)' <=> Released(p)
           /\ MutationReleased' <=> MutationReleased
           /\ ExecutedAtMostOnce' <=> ExecutedAtMostOnce
           /\ RefusalIsFinal' <=> RefusalIsFinal
  BY DEF Undecided, Started, Refused, Released, MutationReleased, ExecutedAtMostOnce,
         RefusalIsFinal, Logged, ToolLogged, IsToolAt, IsAt, ReleasedBefore,
         PolicyReleasedAt

(* An append leaves alone what was decided about other plans.                *)
LEMMA OtherPlans ==
    ASSUME timeline \in Seq(EventRecord), NEW e \in EventRecord,
           timeline' = Append(timeline, e), applied' = applied,
           NEW p, e.plan # p
    PROVE  /\ Undecided(p)' <=> Undecided(p)
           /\ Started(p)' <=> Started(p)
           /\ Refused(p)' <=> Refused(p)
  BY LoggedAppend, StartedAppend, RefusedAppend DEF Undecided

(* The three safety properties survive an append that starts only what was   *)
(* released and not started, and refuses only what is undecided.             *)
LEMMA SafeAppend ==
    ASSUME timeline \in Seq(EventRecord), NEW e \in EventRecord,
           timeline' = Append(timeline, e), applied' = applied,
           MutationReleased, ExecutedAtMostOnce, RefusalIsFinal,
           e.type = "tool.started" /\ e.data = "apply" =>
                        Released(e.plan) /\ ~Started(e.plan) /\ ~Refused(e.plan),
           e.type = "approval.granted" => ~Refused(e.plan),
           e.type \in {"approval.rejected", "policy.evaluated"} => Undecided(e.plan)
    PROVE  MutationReleased' /\ ExecutedAtMostOnce' /\ RefusalIsFinal'
<1>1. MutationReleased'
  <2> SUFFICES ASSUME NEW p \in Plan
               PROVE  /\ applied[p] > 0 => Started(p)'
                      /\ \A i \in DOMAIN timeline' :
                           IsToolAt(i, "tool.started", p, "apply")' => ReleasedBefore(i, p)'
    BY DEF MutationReleased, Started
  <2>1. applied[p] > 0 => Started(p)'
    BY StartedAppend DEF MutationReleased, Started
  <2>2. ASSUME NEW i \in DOMAIN timeline, IsToolAt(i, "tool.started", p, "apply")'
        PROVE  ReleasedBefore(i, p)'
    BY <2>2, AppendHistory
       DEF MutationReleased, IsToolAt, IsAt, ReleasedBefore, PolicyReleasedAt
  <2>3. ASSUME NEW i \in DOMAIN timeline', i \notin DOMAIN timeline,
               IsToolAt(i, "tool.started", p, "apply")'
        PROVE  ReleasedBefore(i, p)'
    <3>1. i = Len(timeline) + 1 /\ Released(p)
      BY <2>3, AppendHistory DEF IsToolAt, IsAt
    <3> QED  BY <3>1, AppendHistory DEF IsAt, Released, ReleasedBefore, PolicyReleasedAt
  <2> QED  BY <2>1, <2>2, <2>3, AppendHistory
<1>2. ExecutedAtMostOnce'
  BY AppendHistory DEF ExecutedAtMostOnce, Started, ToolLogged, IsToolAt, IsAt
<1>3. RefusalIsFinal'
  BY LoggedAppend, StartedAppend, RefusedAppend DEF RefusalIsFinal, Undecided, Started
<1> QED  BY <1>1, <1>2, <1>3

(* What every step of a handler that logs an event about its own plan keeps. *)
LEMMA EmitKeeps ==
    ASSUME IInv, NEW e \in EventRecord, e.plan = task.plan,
           timeline' = Append(timeline, e), UNCHANGED <<policy, pending, external>>,
           task' \in Task, task'.plan \in {task.plan, NoPlan},
           Closed(task.plan) \/ e.type = "approval.requested",
           e.type = "tool.started" /\ e.data = "apply" =>
             Released(e.plan) /\ ~Started(e.plan) /\ ~Refused(e.plan),
           e.type = "approval.granted" => ~Refused(e.plan),
           e.type \in {"approval.rejected", "policy.evaluated"} => Undecided(e.plan)
    PROVE  /\ TypeOK'
           /\ FreshInv'
           /\ PendingInv'
           /\ MutationReleased' /\ ExecutedAtMostOnce' /\ RefusalIsFinal'
<1> USE DEF external
<1>1. timeline \in Seq(EventRecord) /\ timeline' \in Seq(EventRecord)
  BY AppendHistory DEF IInv, TypeOK
<1>2. FreshInv'
  <2> SUFFICES ASSUME NEW p \in Plan, p \notin issued
               PROVE  Undecided(p)' /\ p \notin DOMAIN pending /\ task'.plan # p
    BY DEF FreshInv
  <2>1. Undecided(p) /\ p \notin DOMAIN pending /\ task.plan # p
    BY DEF IInv, FreshInv
  <2> QED  BY <2>1, <1>1, OtherPlans, PlanAssumption
<1>3. PendingInv'
  <2> SUFFICES ASSUME NEW p \in DOMAIN pending, ~pending[p].used
               PROVE  Undecided(p)'
    BY DEF PendingInv
  <2>1. Undecided(p)
    BY DEF IInv, PendingInv
  <2>2. CASE p # task.plan
    BY <2>1, <2>2, <1>1, OtherPlans
  <2>3. CASE p = task.plan
    <3>1. e.type = "approval.requested"
      BY <2>3 DEF Closed
    <3> QED
      BY <3>1, <2>1, <1>1, LoggedAppend, StartedAppend, RefusedAppend DEF Undecided
  <2> QED  BY <2>2, <2>3
<1>4. MutationReleased' /\ ExecutedAtMostOnce' /\ RefusalIsFinal'
  BY <1>1, SafeAppend DEF IInv
<1>5. TypeOK'
  BY <1>1 DEF IInv, TypeOK
<1> QED  BY <1>2, <1>3, <1>4, <1>5

(* Events that decide nothing about any plan.                                *)
Neutral(e) ==
    \/ e.type \notin {"tool.started", "approval.granted", "approval.rejected",
                      "policy.evaluated"}
    \/ e.type = "tool.started" /\ e.data = "propose"

LEMMA NeutralAppend ==
    ASSUME timeline \in Seq(EventRecord), NEW e \in EventRecord, Neutral(e),
           timeline' = Append(timeline, e), applied' = applied, NEW p
    PROVE  /\ Undecided(p)' <=> Undecided(p)
           /\ Started(p)' <=> Started(p)
           /\ Refused(p)' <=> Refused(p)
           /\ Released(p)' <=> Released(p)
  BY LoggedAppend, StartedAppend, RefusedAppend, ReleasedAppend DEF Undecided, Neutral

-----------------------------------------------------------------------------
LEMMA InitInv == Init => IInv
<1> SUFFICES ASSUME Init PROVE IInv
  OBVIOUS
<1> USE DEF Init
<1>1. TypeOK
  BY DEF TypeOK, Policy, Mode, Task, Idle
<1>2. \A p : Undecided(p) <=> applied[p] = 0
  BY DEF Undecided, Started, Refused, Logged, ToolLogged
<1>3. FreshInv /\ PendingInv /\ TaskInv
  BY <1>2, PlanAssumption DEF FreshInv, PendingInv, TaskInv, Idle, Planning, Reporting
<1>4. MutationReleased /\ ExecutedAtMostOnce
  BY DEF MutationReleased, ExecutedAtMostOnce
<1>5. RefusalIsFinal
  BY DEF RefusalIsFinal, Logged, ToolLogged
<1> QED  BY <1>1, <1>3, <1>4, <1>5 DEF IInv

(* Calls of the API decide nothing yet: they pick the plan the handler works *)
(* on, and mark its approval used.                                           *)
LEMMA CallKeeps ==
    ASSUME IInv, Call
    PROVE  IInv'
<1> USE DEF IInv, durable, external
<1>1. ASSUME NEW p \in Plan, NEW c \in Confidence, Request(p, c)
      PROVE  IInv'
  <2> USE <1>1 DEF Request
  <2>1. TypeOK'
    BY DEF TypeOK, Task, Idle, Appending
  <2>2. FreshInv' /\ PendingInv'
    BY SameHistory DEF FreshInv, PendingInv
  <2>3. TaskInv'
    <3>1. Undecided(p)' /\ p \notin DOMAIN pending
      BY SameHistory DEF FreshInv
    <3> QED  BY <3>1 DEF TaskInv, Planning, Reporting
  <2> QED  BY <2>1, <2>2, <2>3, SameHistory
<1>2. ASSUME NEW p \in Plan, ApproveExpired(p)
      PROVE  IInv'
  <2> USE <1>2 DEF ApproveExpired, Answerable, MarkUsed
  <2>1. TypeOK'
    BY DEF TypeOK, PendingApproval
  <2>2. FreshInv' /\ PendingInv'
    BY SameHistory DEF FreshInv, PendingInv
  <2>3. TaskInv'
    BY DEF TaskInv, Idle, Planning, Reporting
  <2> QED  BY <2>1, <2>2, <2>3, SameHistory
<1>3. ASSUME NEW p \in Plan, Approve(p) \/ Reject(p)
      PROVE  IInv'
  <2> USE <1>3 DEF Answerable, MarkUsed
  <2>1. /\ task' \in Task /\ task'.plan = p /\ task'.pc \in {"grant", "reject"}
        /\ Answerable(p) /\ MarkUsed(p)
        /\ UNCHANGED <<durable, external>>
    BY DEF Approve, Reject, Task, Idle, Appending
  <2>2. TypeOK'
    BY <2>1 DEF TypeOK, PendingApproval
  <2>3. p \in issued
    BY <2>1 DEF FreshInv
  <2>4. FreshInv' /\ PendingInv'
    BY <2>1, <2>3, SameHistory DEF FreshInv, PendingInv
  <2>5. Undecided(p)' /\ Closed(p)'
    <3>1. Undecided(p)'
      BY <2>1, SameHistory DEF PendingInv
    <3>2. pending[p] \in PendingApproval
      BY <2>1 DEF TypeOK
    <3> QED  BY <2>1, <3>1, <3>2 DEF Closed, PendingApproval
  <2>6. TaskInv'
    BY <2>1, <2>5 DEF TaskInv, Planning, Reporting
  <2> QED  BY <2>1, <2>2, <2>4, <2>6, SameHistory
<1>4. ASSUME NEW m \in Mode, NEW t \in Threshold, SetPolicy(m, t)
      PROVE  IInv'
  <2> USE <1>4 DEF SetPolicy
  <2>1. TypeOK'
    BY DEF TypeOK, Policy, Task, Idle, Appending
  <2>2. FreshInv' /\ PendingInv'
    BY SameHistory, PlanAssumption DEF FreshInv, PendingInv, Idle
  <2>3. TaskInv'
    BY DEF TaskInv, Idle, Planning, Reporting
  <2> QED  BY <2>1, <2>2, <2>3, SameHistory
<1> QED  BY <1>1, <1>2, <1>3, <1>4 DEF Call

(* A handler that is cut short leaves a plan that nobody works on; a restart *)
(* forgets the approvals; the clock concerns no invariant.                   *)
LEMMA EnvironmentKeeps ==
    ASSUME IInv, StoreFails \/ Crash \/ Tick
    PROVE  IInv'
<1> USE DEF IInv, durable, StoreFails, Crash, CutShort, Tick
<1>1. TypeOK'
  <2>1. Idle \in Task
    BY DEF Task, Idle
  <2>2. CASE StoreFails
    BY <2>1, <2>2 DEF TypeOK, Task
  <2>3. CASE Crash
    BY <2>1, <2>3 DEF TypeOK, Task
  <2>4. CASE Tick
    BY <2>4 DEF TypeOK
  <2> QED  BY <2>2, <2>3, <2>4
<1>2. FreshInv' /\ PendingInv'
  BY SameHistory, PlanAssumption DEF FreshInv, PendingInv, Idle
<1>3. TaskInv'
  <2>1. CASE StoreFails \/ Crash
    BY <2>1 DEF TaskInv, Idle, Planning, Reporting
  <2>2. CASE Tick
    BY <2>2, SameHistory DEF TaskInv, Closed
  <2> QED  BY <2>1, <2>2
<1> QED  BY <1>1, <1>2, <1>3, SameHistory

(* The steps of a request up to the verdict, and the steps that report: they *)
(* log events that decide nothing, and go on to where TaskInv allows.        *)
LEMMA NeutralStepKeeps ==
    ASSUME IInv, NEW e \in EventRecord, e.plan = task.plan, Neutral(e),
           timeline' = Append(timeline, e), UNCHANGED <<policy, pending, external>>,
           task' = Idle \/ /\ task' \in Task
                           /\ task'.plan = task.plan
                           /\ task.plan \in Plan
                           /\ \/ {task.pc, task'.pc} \subseteq Planning
                              \/ {task.pc, task'.pc} \subseteq Reporting,
           Closed(task.plan) \/ e.type = "approval.requested"
    PROVE  IInv'
<1> USE DEF external
<1>1. task' \in Task /\ task'.plan \in {task.plan, NoPlan}
  <2>1. Idle \in Task /\ Idle.plan = NoPlan
    BY DEF Idle, Task
  <2> QED  BY <2>1
<1>2. TypeOK' /\ FreshInv' /\ PendingInv'
      /\ MutationReleased' /\ ExecutedAtMostOnce' /\ RefusalIsFinal'
  BY <1>1, EmitKeeps DEF Neutral
<1>3. TaskInv'
  <2>1. CASE task' = Idle
    BY <2>1 DEF TaskInv, Idle, Planning, Reporting
  <2>2. CASE /\ task'.plan = task.plan
             /\ task.plan \in Plan
             /\ {task.pc, task'.pc} \subseteq Planning
    <3>1. Undecided(task.plan) /\ task.plan \notin DOMAIN pending
      BY <2>2 DEF IInv, TaskInv
    <3>2. \A p : Undecided(p)' <=> Undecided(p)
      BY NeutralAppend DEF IInv, TypeOK
    <3> QED  BY <2>2, <3>1, <3>2 DEF TaskInv, Planning, Reporting
  <2>3. CASE /\ task'.plan = task.plan
             /\ task.plan \in Plan
             /\ {task.pc, task'.pc} \subseteq Reporting
    <3>1. Closed(task.plan)
      BY <2>3 DEF IInv, TaskInv
    <3> QED  BY <2>3, <3>1 DEF TaskInv, Planning, Reporting, Closed
  <2> QED  BY <2>1, <2>2, <2>3
<1> QED  BY <1>2, <1>3 DEF IInv

LEMMA NeutralEmitKeeps ==
    ASSUME IInv, NEW at, NEW type, NEW data, NEW pc,
           EmitOnly(at, type, data, pc),
           Event(type, task.plan, data) \in EventRecord,
           Neutral(Event(type, task.plan, data)),
           \/ pc = "idle"
           \/ {at, pc} \subseteq Planning
           \/ {at, pc} \subseteq Reporting,
           Closed(task.plan) \/ type = "approval.requested"
    PROVE  IInv'
<1> DEFINE e == Event(type, task.plan, data)
<1>1. /\ task.pc = at
      /\ timeline' = Append(timeline, e)
      /\ task' = Goto(pc)
      /\ UNCHANGED <<policy, pending, external>>
      /\ e.plan = task.plan /\ e.type = type
  BY DEF EmitOnly, Emit, Event
<1>2. task \in Task /\ TaskInv
  BY DEF IInv, TypeOK
<1>3. CASE pc = "idle"
  <2>1. task' = Idle
    BY <1>1, <1>3 DEF Goto
  <2> QED  BY <1>1, <2>1, NeutralStepKeeps
<1>4. CASE pc # "idle" /\ ({at, pc} \subseteq Planning \/ {at, pc} \subseteq Reporting)
  <2>1. task' = [task EXCEPT !.pc = pc] /\ task.plan \in Plan
    BY <1>1, <1>2, <1>4 DEF Goto, TaskInv, Planning, Reporting
  <2>2. task' \in Task /\ task'.plan = task.plan /\ task'.pc = pc
    BY <2>1, <1>2, <1>4 DEF Task, Appending, Planning, Reporting
  <2> QED  BY <1>1, <1>4, <2>1, <2>2, NeutralStepKeeps
<1> QED  BY <1>3, <1>4

LEMMA HandlerKeeps ==
    ASSUME IInv, HandlerStep
    PROVE  IInv'
<1> USE DEF Planning, Reporting
<1>0. /\ TypeOK /\ TaskInv /\ task \in Task /\ policy \in Policy
      /\ task.pc \in Planning \cup Reporting => task.plan \in Plan /\ Closed(task.plan)
      /\ task.pc = "request" => task.plan \in Plan /\ task.plan \in DOMAIN pending
      /\ task.pc = "changed" => task.plan = NoPlan /\ Closed(NoPlan)
  BY PlanAssumption DEF IInv, TypeOK, TaskInv, Closed
<1>1. CASE ProposeStarted
  <2>1. task.pc = "propose"
    BY <1>1 DEF ProposeStarted, EmitOnly
  <2>2. /\ Event("tool.started", task.plan, "propose") \in EventRecord
        /\ Neutral(Event("tool.started", task.plan, "propose"))
    BY <1>0, <2>1 DEF Event, EventRecord, ToolEvent, Tool, Neutral
  <2> QED  BY <1>0, <1>1, <2>1, <2>2, NeutralEmitKeeps DEF ProposeStarted
<1>2. ASSUME NEW ok \in BOOLEAN, Proposed(ok)
      PROVE  IInv'
  <2> DEFINE e == Event(IF ok THEN "tool.completed" ELSE "tool.failed", task.plan, "propose")
  <2>1. /\ task.pc = "proposing"
        /\ timeline' = Append(timeline, e)
        /\ task' = [task EXCEPT !.pc = "plan", !.ok = ok]
        /\ UNCHANGED <<policy, pending, external>>
    BY <1>2 DEF Proposed
  <2>2. e \in EventRecord /\ Neutral(e) /\ e.plan = task.plan
    BY <1>0, <2>1 DEF Event, EventRecord, ToolEvent, Tool, Neutral
  <2>3. task' \in Task /\ task'.plan = task.plan /\ task'.pc = "plan"
    BY <1>0, <2>1 DEF Task, Appending
  <2> HIDE DEF e
  <2> QED  BY <1>0, <2>1, <2>2, <2>3, NeutralStepKeeps
<1>3. CASE PlanCreated
  <2>1. task.pc = "plan"
    BY <1>3 DEF PlanCreated, EmitOnly
  <2>2. /\ Event("plan.created", task.plan, "none") \in EventRecord
        /\ Neutral(Event("plan.created", task.plan, "none"))
    BY <1>0, <2>1 DEF Event, EventRecord, PlainEvent, Neutral
  <2> QED  BY <1>0, <1>3, <2>1, <2>2, NeutralEmitKeeps DEF PlanCreated
<1>4. CASE PlanningFailed
  <2>1. task.pc = "failed"
    BY <1>4 DEF PlanningFailed, EmitOnly
  <2>2. /\ Event("plan.failed", task.plan, "none") \in EventRecord
        /\ Neutral(Event("plan.failed", task.plan, "none"))
    BY <1>0, <2>1 DEF Event, EventRecord, PlainEvent, Neutral
  <2> QED  BY <1>0, <1>4, <2>1, <2>2, NeutralEmitKeeps DEF PlanningFailed
<1>5. CASE ApprovalRequested
  <2> DEFINE until == pending[task.plan].expires
  <2>1. task.pc = "request"
    BY <1>5 DEF ApprovalRequested, EmitOnly
  <2>2. until \in Nat
    BY <1>0, <2>1 DEF TypeOK, PendingApproval
  <2>3. /\ Event("approval.requested", task.plan, until) \in EventRecord
        /\ Neutral(Event("approval.requested", task.plan, until))
    BY <1>0, <2>1, <2>2 DEF Event, EventRecord, OfferEvent, Neutral
  <2> QED  BY <1>5, <2>3, NeutralEmitKeeps DEF ApprovalRequested
<1>6. CASE ExecuteEnded
  <2> DEFINE type == IF task.ok THEN "tool.completed" ELSE "tool.failed"
  <2>1. task.pc = "executed"
    BY <1>6 DEF ExecuteEnded, EmitOnly
  <2>2. /\ Event(type, task.plan, "apply") \in EventRecord
        /\ Neutral(Event(type, task.plan, "apply"))
    BY <1>0, <2>1 DEF Event, EventRecord, ToolEvent, Tool, Neutral
  <2> QED  BY <1>0, <1>6, <2>1, <2>2, NeutralEmitKeeps DEF ExecuteEnded
<1>7. CASE ResultEmitted
  <2> DEFINE type == IF task.ok THEN "plan.completed" ELSE "plan.failed"
  <2>1. task.pc = "result"
    BY <1>7 DEF ResultEmitted, EmitOnly
  <2>2. /\ Event(type, task.plan, "none") \in EventRecord
        /\ Neutral(Event(type, task.plan, "none"))
    BY <1>0, <2>1 DEF Event, EventRecord, PlainEvent, Neutral
  <2> QED  BY <1>0, <1>7, <2>1, <2>2, NeutralEmitKeeps DEF ResultEmitted
<1>8. CASE ArtifactCreated
  <2>1. task.pc = "artifact"
    BY <1>8 DEF ArtifactCreated, EmitOnly
  <2>2. /\ Event("artifact.created", task.plan, "none") \in EventRecord
        /\ Neutral(Event("artifact.created", task.plan, "none"))
    BY <1>0, <2>1 DEF Event, EventRecord, PlainEvent, Neutral
  <2> QED  BY <1>0, <1>8, <2>1, <2>2, NeutralEmitKeeps DEF ArtifactCreated
<1>9. CASE PolicyChanged
  <2>1. task.pc = "changed"
    BY <1>9 DEF PolicyChanged, EmitOnly
  <2>2. /\ Event("capability.policy_changed", task.plan, policy) \in EventRecord
        /\ Neutral(Event("capability.policy_changed", task.plan, policy))
    BY <1>0, <2>1 DEF Event, EventRecord, PolicyEvent, Neutral
  <2> QED  BY <1>0, <1>9, <2>1, <2>2, NeutralEmitKeeps DEF PolicyChanged
<1>10. CASE PolicyEvaluated
  <2>1. task.pc = "policy"
    BY <1>10 DEF PolicyEvaluated
  <2>2. PICK q \in Plan : q = task.plan /\ Undecided(q) /\ q \notin DOMAIN pending
    BY <1>0, <2>1 DEF TaskInv
  <2> DEFINE e == Event("policy.evaluated", q,
                        [policy |-> policy, confidence |-> task.confidence])
             offered == [p \in DOMAIN pending \cup {q} |->
                           IF p = q THEN [expires |-> now + Lifetime, used |-> FALSE]
                           ELSE pending[p]]
  <2>3. timeline' = Append(timeline, e) /\ UNCHANGED <<policy, external>>
    BY <1>10, <2>2 DEF PolicyEvaluated, Emit
  <2>4. \/ task' = Idle /\ pending' = pending
        \/ /\ task' = [task EXCEPT !.pc = "start"]
           /\ pending' = pending
           /\ Releases(policy, task.confidence)
        \/ /\ task' = [task EXCEPT !.pc = "request"]
           /\ pending' = offered
           /\ policy.mode # "disabled"
    BY <1>0, <1>10, <2>2 DEF PolicyEvaluated, Emit, Goto, Task, Idle
  <2>5. /\ e \in EventRecord
        /\ e.plan = q /\ e.type = "policy.evaluated"
        /\ e.data.policy = policy /\ e.data.confidence = task.confidence
    BY <1>0 DEF Event, EventRecord, VerdictEvent, Task
  <2> HIDE DEF e
  <2>6. timeline \in Seq(EventRecord) /\ timeline' \in Seq(EventRecord)
    BY <1>0, <2>3, <2>5, AppendHistory DEF TypeOK
  <2>7. MutationReleased' /\ ExecutedAtMostOnce' /\ RefusalIsFinal'
    BY <2>2, <2>3, <2>5, <2>6, SafeAppend DEF IInv, external
  <2>8. \A p \in Plan \ {q} : Undecided(p)' <=> Undecided(p)
    BY <2>3, <2>5, <2>6, OtherPlans DEF external
  <2>9. ~Started(q)' /\ applied'[q] = 0 /\ ~Logged("approval.granted", q)'
    BY <2>2, <2>3, <2>5, <2>6, LoggedAppend, StartedAppend DEF Undecided, external
  <2>10. policy.mode # "disabled" => ~Refused(q)' /\ Undecided(q)'
    BY <2>2, <2>3, <2>5, <2>6, <2>9, RefusedAppend DEF Undecided
  <2>11. Releases(policy, task.confidence) => Released(q)'
    BY <2>3, <2>5, <2>6, ReleasedAppend
  <2>12. q \in issued /\ issued' = issued
    BY <2>2, <2>3 DEF IInv, FreshInv, external
  <2>13. \A p \in DOMAIN pending : p # q /\ (~pending[p].used => Undecided(p)')
    BY <1>0, <2>2, <2>8 DEF IInv, PendingInv, TypeOK
  <2>14. \A p \in Plan \ issued : Undecided(p)' /\ p \notin DOMAIN pending /\ p # q
    BY <2>8, <2>12 DEF IInv, FreshInv
  <2>15. CASE task' = Idle /\ pending' = pending
    <3>1. TypeOK'
      BY <1>0, <2>3, <2>6, <2>15 DEF TypeOK, external, Task, Idle
    <3>2. FreshInv' /\ PendingInv' /\ TaskInv'
      BY <2>12, <2>13, <2>14, <2>15, PlanAssumption DEF FreshInv, PendingInv, TaskInv, Idle
    <3> QED  BY <2>7, <3>1, <3>2 DEF IInv
  <2>16. CASE /\ task' = [task EXCEPT !.pc = "start"]
              /\ pending' = pending
              /\ Releases(policy, task.confidence)
    <3>1. task' \in Task /\ task'.pc = "start" /\ task'.plan = q
      BY <1>0, <2>2, <2>16 DEF Task, Appending
    <3>2. TypeOK'
      BY <1>0, <2>3, <2>6, <2>16, <3>1 DEF TypeOK, external
    <3>3. FreshInv' /\ PendingInv'
      BY <2>12, <2>13, <2>14, <2>16, <3>1 DEF FreshInv, PendingInv
    <3>4. TaskInv'
      BY <2>2, <2>9, <2>10, <2>11, <2>16, <3>1 DEF TaskInv, Closed, Releases
    <3> QED  BY <2>7, <3>2, <3>3, <3>4 DEF IInv
  <2>17. CASE /\ task' = [task EXCEPT !.pc = "request"]
              /\ pending' = offered
              /\ policy.mode # "disabled"
    <3>1. task' \in Task /\ task'.pc = "request" /\ task'.plan = q
      BY <1>0, <2>2, <2>17 DEF Task, Appending
    <3>2. /\ DOMAIN pending' = DOMAIN pending \cup {q}
          /\ pending'[q] = [expires |-> now + Lifetime, used |-> FALSE]
          /\ \A p \in DOMAIN pending : pending'[p] = pending[p]
      BY <2>2, <2>17
    <3>3. pending'[q] \in PendingApproval
      BY <1>0, <3>2, NumbersAssumption DEF TypeOK, PendingApproval
    <3>4. TypeOK'
      BY <1>0, <2>3, <2>6, <3>1, <3>2, <3>3 DEF TypeOK, external
    <3>5. FreshInv'
      BY <2>12, <2>14, <3>1, <3>2 DEF FreshInv
    <3>6. PendingInv'
      BY <2>10, <2>13, <2>17, <3>2 DEF PendingInv
    <3>7. TaskInv'
      BY <3>1, <3>2 DEF TaskInv
    <3> QED  BY <2>7, <3>4, <3>5, <3>6, <3>7 DEF IInv
  <2> QED  BY <2>4, <2>15, <2>16, <2>17
<1>11. CASE ApprovalGranted
  <2> DEFINE e == Event("approval.granted", task.plan, "none")
  <2>1. /\ task.pc = "grant"
        /\ timeline' = Append(timeline, e)
        /\ task' = [task EXCEPT !.pc = "start"]
        /\ UNCHANGED <<policy, pending, external>>
    BY <1>11 DEF ApprovalGranted, EmitOnly, Emit, Goto
  <2>2. task.plan \in Plan /\ Undecided(task.plan) /\ Closed(task.plan)
    BY <1>0, <2>1 DEF TaskInv
  <2>3. e \in EventRecord /\ e.plan = task.plan /\ e.type = "approval.granted"
    BY <2>2 DEF Event, EventRecord, PlainEvent
  <2>4. task' \in Task /\ task'.plan = task.plan /\ task'.pc = "start"
    BY <1>0, <2>1 DEF Task, Appending
  <2> HIDE DEF e
  <2>5. TypeOK' /\ FreshInv' /\ PendingInv'
        /\ MutationReleased' /\ ExecutedAtMostOnce' /\ RefusalIsFinal'
    BY <2>1, <2>2, <2>3, <2>4, EmitKeeps DEF Undecided
  <2>6. Released(task.plan)' /\ ~Refused(task.plan)' /\ ~Started(task.plan)'
    BY <2>1, <2>2, <2>3, <1>0, StartedAppend, RefusedAppend, ReleasedAppend
       DEF TypeOK, Undecided
  <2>7. applied'[task.plan] = 0
    BY <2>1, <2>2 DEF Undecided, external
  <2> QED  BY <2>1, <2>2, <2>4, <2>5, <2>6, <2>7 DEF IInv, TaskInv, Closed
<1>12. CASE ApprovalRejected
  <2> DEFINE e == Event("approval.rejected", task.plan, "none")
  <2>1. /\ task.pc = "reject"
        /\ timeline' = Append(timeline, e)
        /\ task' = Idle
        /\ UNCHANGED <<policy, pending, external>>
    BY <1>12 DEF ApprovalRejected, EmitOnly, Emit, Goto
  <2>2. task.plan \in Plan /\ Undecided(task.plan) /\ Closed(task.plan)
    BY <1>0, <2>1 DEF TaskInv
  <2>3. e \in EventRecord /\ e.plan = task.plan /\ e.type = "approval.rejected"
    BY <2>2 DEF Event, EventRecord, PlainEvent
  <2>4. task' \in Task /\ task'.plan = NoPlan
    BY <2>1 DEF Task, Idle
  <2> HIDE DEF e
  <2>5. TypeOK' /\ FreshInv' /\ PendingInv'
        /\ MutationReleased' /\ ExecutedAtMostOnce' /\ RefusalIsFinal'
    BY <2>1, <2>2, <2>3, <2>4, EmitKeeps
  <2>6. TaskInv'
    BY <2>1 DEF TaskInv, Idle
  <2> QED  BY <2>5, <2>6 DEF IInv
<1>13. CASE ExecuteStarted
  <2> DEFINE e == Event("tool.started", task.plan, "apply")
  <2>1. /\ task.pc = "start"
        /\ timeline' = Append(timeline, e)
        /\ task' = [task EXCEPT !.pc = "executing"]
        /\ UNCHANGED <<policy, pending, external>>
    BY <1>13 DEF ExecuteStarted, EmitOnly, Emit, Goto
  <2>2. /\ task.plan \in Plan /\ Closed(task.plan) /\ applied[task.plan] = 0
        /\ ~Started(task.plan) /\ ~Refused(task.plan) /\ Released(task.plan)
    BY <1>0, <2>1 DEF TaskInv
  <2>3. /\ e \in EventRecord /\ e.plan = task.plan
        /\ e.type = "tool.started" /\ e.data = "apply"
    BY <2>2 DEF Event, EventRecord, ToolEvent, Tool
  <2>4. task' \in Task /\ task'.plan = task.plan /\ task'.pc = "executing"
    BY <1>0, <2>1 DEF Task, Appending
  <2> HIDE DEF e
  <2>5. TypeOK' /\ FreshInv' /\ PendingInv'
        /\ MutationReleased' /\ ExecutedAtMostOnce' /\ RefusalIsFinal'
    BY <2>1, <2>2, <2>3, <2>4, EmitKeeps
  <2>6. Started(task.plan)' /\ ~Refused(task.plan)'
    BY <2>1, <2>2, <2>3, <1>0, StartedAppend, RefusedAppend DEF TypeOK
  <2>7. applied'[task.plan] = 0
    BY <2>1, <2>2 DEF external
  <2> QED  BY <2>1, <2>2, <2>4, <2>5, <2>6, <2>7 DEF IInv, TaskInv, Closed
<1>14. ASSUME NEW mutates \in BOOLEAN, NEW ok \in BOOLEAN, Execute(mutates, ok)
       PROVE  IInv'
  <2>1. /\ task.pc = "executing"
        /\ applied' \in {applied, [applied EXCEPT ![task.plan] = @ + 1]}
        /\ task' = [task EXCEPT !.pc = "executed", !.ok = ok]
        /\ UNCHANGED <<durable, pending, now, issued, lost>>
    BY <1>14 DEF Execute
  <2>2. /\ task.plan \in Plan /\ Closed(task.plan) /\ applied[task.plan] = 0
        /\ Started(task.plan) /\ ~Refused(task.plan)
    BY <1>0, <2>1 DEF TaskInv
  <2>3. task' \in Task /\ task'.plan = task.plan /\ task'.pc = "executed"
    BY <1>0, <2>1 DEF Task, Appending
  <2>4. /\ applied' \in [Plan -> Nat] /\ applied'[task.plan] \in {0, 1}
        /\ \A p \in Plan \ {task.plan} : applied'[p] = applied[p]
    BY <1>0, <2>1, <2>2 DEF TypeOK
  <2>5. TypeOK'
    BY <1>0, <2>1, <2>3, <2>4 DEF TypeOK, durable
  <2>6. /\ \A p : Started(p)' <=> Started(p)
        /\ \A p : Refused(p)' <=> Refused(p)
        /\ \A type, p : Logged(type, p)' <=> Logged(type, p)
    BY <2>1 DEF Started, Refused, Logged, ToolLogged, IsToolAt, IsAt, durable
  <2>7. \A p \in Plan \ {task.plan} : Undecided(p)' <=> Undecided(p)
    BY <2>4, <2>6 DEF Undecided
  <2>8. task.plan \in issued /\ (task.plan \in DOMAIN pending => pending[task.plan].used)
    BY <2>2 DEF IInv, FreshInv, Undecided, Closed
  <2>9. FreshInv' /\ PendingInv'
    BY <1>0, <2>1, <2>3, <2>7, <2>8 DEF IInv, FreshInv, PendingInv, TypeOK
  <2>10. TaskInv'
    BY <2>1, <2>2, <2>3 DEF TaskInv, Closed
  <2>11. MutationReleased'
    BY <2>1, <2>2, <2>4, <2>6
       DEF IInv, MutationReleased, Started, ToolLogged, IsToolAt, IsAt, ReleasedBefore,
           PolicyReleasedAt, durable
  <2>12. ExecutedAtMostOnce'
    BY <2>1, <2>4 DEF IInv, ExecutedAtMostOnce, IsToolAt, IsAt, durable
  <2>13. RefusalIsFinal'
    BY <2>2, <2>4, <2>6 DEF IInv, RefusalIsFinal, Started
  <2> QED  BY <2>5, <2>9, <2>10, <2>11, <2>12, <2>13 DEF IInv
<1> QED
  BY <1>1, <1>2, <1>3, <1>4, <1>5, <1>6, <1>7, <1>8, <1>9, <1>10, <1>11,
     <1>12, <1>13, <1>14 DEF HandlerStep

-----------------------------------------------------------------------------
LEMMA InductiveInvariant == Spec => []IInv
<1>1. IInv /\ [Next]_vars => IInv'
  <2> SUFFICES ASSUME IInv, [Next]_vars PROVE IInv'
    OBVIOUS
  <2>1. CASE UNCHANGED vars
    <3>1. TypeOK' /\ FreshInv' /\ PendingInv' /\ TaskInv'
      BY <2>1, SameHistory DEF IInv, TypeOK, FreshInv, PendingInv, TaskInv, Closed, vars
    <3> QED  BY <2>1, <3>1, SameHistory DEF IInv, vars
  <2> QED
    BY <2>1, CallKeeps, HandlerKeeps, EnvironmentKeeps DEF Next
<1> QED  BY InitInv, <1>1, PTL DEF Spec

(* The variables keep their types.                                           *)
THEOREM TypeCorrect == Spec => []TypeOK
<1>1. IInv => TypeOK
  BY DEF IInv
<1> QED  BY <1>1, InductiveInvariant, PTL

(* The workbook is touched for a plan only after the policy or a human       *)
(* released that plan, and the timeline said so first                        *)
(* (CapabilityEngine.request and approve, ToolRunner.invoke).                *)
THEOREM OnlyReleasedPlansMutate == Spec => []MutationReleased
<1>1. IInv => MutationReleased
  BY DEF IInv
<1> QED  BY <1>1, InductiveInvariant, PTL

(* No plan is executed twice: approvals are single-use, in memory and across *)
(* restarts (PendingApproval.used).                                          *)
THEOREM NoPlanRunsTwice == Spec => []ExecutedAtMostOnce
<1>1. IInv => ExecutedAtMostOnce
  BY DEF IInv
<1> QED  BY <1>1, InductiveInvariant, PTL

(* What was rejected, or disabled when it was asked for, never runs          *)
(* (CapabilityEngine.reject, the disabled branch of request).                *)
THEOREM RefusedPlansNeverRun == Spec => []RefusalIsFinal
<1>1. IInv => RefusalIsFinal
  BY DEF IInv
<1> QED  BY <1>1, InductiveInvariant, PTL
=============================================================================

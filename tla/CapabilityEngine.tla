------------------------- MODULE CapabilityEngine -------------------------
(***************************************************************************)
(* The capability engine: a request is planned, the capability's policy is *)
(* evaluated, and the mutating tool runs either at once or after a human   *)
(* approval that is single-use and expires.                                *)
(*                                                                         *)
(* The engine runs in one asyncio thread and no statement of a handler     *)
(* suspends it: EventStore.append takes an uncontended lock and then calls *)
(* sqlite3 synchronously, and both Excel tools are plain functions.  So    *)
(* one handler runs at a time, and `task' says where it is.  What can fall *)
(* between two of its steps is a crash of the process, an exception of the *)
(* store, and a tick of the clock.  Each step ends with one durable write, *)
(* because each append is a SQLite transaction of its own.  The connector  *)
(* behind the tools is module ExcelRoadmap; here it may succeed or fail,   *)
(* with or without a mutation.                                             *)
(***************************************************************************)
EXTENDS Naturals, Sequences, FiniteSets

CONSTANTS
    Plan,             \* plans; a request draws a fresh one (new_id)
    NoPlan,
    Confidence,       \* confidences of requests, in percent; absent reads as 0
    Threshold,        \* confidence thresholds an operator sets; None is 0
    Lifetime,         \* ticks for which an approval may be answered (15 minutes)
    MaxTime,          \* bound on the clock
    MaxPolicyChanges, \* bound on capability.policy_changed events
    MaxLost           \* bound on the plans whose handlers are cut short

ASSUME PlanAssumption == NoPlan \notin Plan
ASSUME NumbersAssumption ==
    /\ Confidence \subseteq Nat
    /\ Threshold \subseteq Nat
    /\ Lifetime \in Nat \ {0}
    /\ MaxTime \in Nat
    /\ MaxPolicyChanges \in Nat
    /\ MaxLost \in Nat

VARIABLES
    policy,    \* the setting capability_policy:update_roadmap
    timeline,  \* the events table
    pending,   \* CapabilityEngine._pending, lost when the process ends
    task,      \* the handler that is running
    now,       \* the wall clock
    issued,    \* the plans that were ever created
    applied,   \* how often each plan's mutation reached the workbook
    lost       \* the plans whose handler was cut short

durable  == <<policy, timeline>>
external == <<now, issued, applied, lost>>
vars     == <<policy, timeline, pending, task, now, issued, applied, lost>>

Mode   == {"disabled", "manual", "automatic"}
Policy == [mode : Mode, threshold : Threshold \cup {0}]

\* PendingApproval, keyed by the plan it belongs to: a plan has one approval.
PendingApproval == [expires : Nat, used : BOOLEAN]

\* The points of a handler that end with an append to the timeline.
Appending == {"propose", "proposing", "plan", "failed", "policy", "request",
              "grant", "reject", "start", "executed", "result", "artifact",
              "changed"}
Task == [pc : Appending \cup {"idle", "executing"}, plan : Plan \cup {NoPlan},
         confidence : Confidence \cup {0}, ok : BOOLEAN]
Idle == [pc |-> "idle", plan |-> NoPlan, confidence |-> 0, ok |-> FALSE]

Tool == {"propose", "apply"}

\* What the payload of an event keeps here: the tool; the policy and confidence
\* that were evaluated; the end of an offer; a policy; nothing.  The code's
\* policy.evaluated carries the mode and the confidence (capabilities.py:175-179);
\* the threshold is kept too, so that a property can name what was evaluated.  The
\* plan of an event is its plan id or the correlation id of that plan: the events
\* of the proposing tool carry plan id "planning" and the plan's correlation id.
ToolEvent   == [type : {"tool.started", "tool.completed", "tool.failed"},
                plan : Plan, data : Tool]
VerdictEvent == [type : {"policy.evaluated"}, plan : Plan,
                data : [policy : Policy, confidence : Confidence \cup {0}]]
OfferEvent  == [type : {"approval.requested"}, plan : Plan, data : Nat]
PolicyEvent == [type : {"capability.policy_changed"}, plan : {NoPlan}, data : Policy]
PlainEvent  == [type : {"plan.created", "plan.completed", "plan.failed",
                        "approval.granted", "approval.rejected", "artifact.created"},
                plan : Plan, data : {"none"}]
EventRecord == ToolEvent \cup VerdictEvent \cup OfferEvent \cup PolicyEvent \cup PlainEvent

-----------------------------------------------------------------------------
\* What the timeline says.

Event(type, p, data) == [type |-> type, plan |-> p, data |-> data]

\* Position i of timeline is an event of this type about plan p.
IsAt(i, type, p)         == timeline[i].type = type /\ timeline[i].plan = p
IsToolAt(i, type, p, tl) == IsAt(i, type, p) /\ timeline[i].data = tl

Logged(type, p)         == \E i \in DOMAIN timeline : IsAt(i, type, p)
ToolLogged(type, p, tl) == \E i \in DOMAIN timeline : IsToolAt(i, type, p, tl)

\* Mutant: the confidence is not compared with the threshold.
ReleasesAnyConfidence(pol, c) == pol.mode = "automatic"

\* The policy releases a request without a human (capabilities.py:182-212).
Releases(pol, c) == pol.mode = "automatic" /\ c >= pol.threshold

-----------------------------------------------------------------------------
Init ==
    /\ policy = [mode |-> "manual", threshold |-> 0]
    /\ timeline = <<>>
    /\ pending = <<>>
    /\ task = Idle
    /\ now = 0
    /\ issued = {}
    /\ applied = [p \in Plan |-> 0]
    /\ lost = {}

Goto(pc) == IF pc = "idle" THEN Idle ELSE [task EXCEPT !.pc = pc]

\* One append of the running handler, and where the handler goes from there.
Emit(type, data, pc) ==
    /\ timeline' = Append(timeline, Event(type, task.plan, data))
    /\ task' = Goto(pc)

\* Steps that only write the timeline.
EmitOnly(at, type, data, pc) ==
    /\ task.pc = at
    /\ Emit(type, data, pc)
    /\ UNCHANGED <<policy, pending, external>>

-----------------------------------------------------------------------------
\* request: plan the workflow, evaluate the policy, execute or ask.

\* Mutant: a repeated request takes up the plan that is there.
RequestAgain(p, c) ==
    /\ task = Idle
    /\ issued' = issued \cup {p}
    /\ \E pc \in {"propose", "plan"} :
         task' = [pc |-> pc, plan |-> p, confidence |-> c, ok |-> FALSE]
    /\ UNCHANGED <<durable, pending, now, applied, lost>>

\* The plan is fresh.  Input that does not validate, or a search that does not
\* find exactly one workbook, goes to the plan with nothing prepared.
Request(p, c) ==
    /\ task = Idle
    /\ p \notin issued
    /\ issued' = issued \cup {p}
    /\ \E pc \in {"propose", "plan"} :
         task' = [pc |-> pc, plan |-> p, confidence |-> c, ok |-> FALSE]
    /\ UNCHANGED <<durable, pending, now, applied, lost>>

ProposeStarted == EmitOnly("propose", "tool.started", "propose", "proposing")

\* The read-only tool runs and its end is logged.
Proposed(ok) ==
    /\ task.pc = "proposing"
    /\ timeline' = Append(timeline,
           Event(IF ok THEN "tool.completed" ELSE "tool.failed", task.plan, "propose"))
    /\ task' = [task EXCEPT !.pc = "plan", !.ok = ok]
    /\ UNCHANGED <<policy, pending, external>>

PlanCreated ==
    EmitOnly("plan", "plan.created", "none", IF task.ok THEN "policy" ELSE "failed")

PlanningFailed == EmitOnly("failed", "plan.failed", "none", "idle")

\* The policy is read now; an approval is put in memory before it is announced.
PolicyEvaluated ==
    /\ task.pc = "policy"
    /\ Emit("policy.evaluated", [policy |-> policy, confidence |-> task.confidence],
            IF policy.mode = "disabled" THEN "idle"
            ELSE IF Releases(policy, task.confidence) THEN "start" ELSE "request")
    /\ pending' = IF task'.pc = "request"
                  THEN [p \in DOMAIN pending \cup {task.plan} |->
                          IF p = task.plan
                          THEN [expires |-> now + Lifetime, used |-> FALSE]
                          ELSE pending[p]]
                  ELSE pending
    /\ UNCHANGED <<policy, external>>

ApprovalRequested ==
    EmitOnly("request", "approval.requested", pending[task.plan].expires, "idle")

-----------------------------------------------------------------------------
\* approve and reject.  An unknown or used approval, or a wrong token, is
\* answered with an error and changes nothing, so it is no action here.  The
\* identifier and the token leave the engine with the reply to the request, so
\* only an offer that was announced can be answered.

Answerable(p) == p \in DOMAIN pending /\ ~pending[p].used

\* Mutant: the approval stays open.
MarkUsedForgotten(p) == pending' = pending

MarkUsed(p) == pending' = [pending EXCEPT ![p].used = TRUE]

ApproveExpired(p) ==
    /\ task = Idle
    /\ Answerable(p)
    /\ now >= pending[p].expires
    /\ MarkUsed(p)
    /\ UNCHANGED <<durable, task, external>>

\* Mutant: an offer is still good at the instant it expires.
ApproveAtExpiry(p) ==
    /\ task = Idle
    /\ Answerable(p)
    /\ now <= pending[p].expires
    /\ MarkUsed(p)
    /\ task' = [Idle EXCEPT !.pc = "grant", !.plan = p]
    /\ UNCHANGED <<durable, external>>

\* Mutant: the tool is started and the grant is not logged.
ApproveUnlogged(p) ==
    /\ task = Idle
    /\ Answerable(p)
    /\ now < pending[p].expires
    /\ MarkUsed(p)
    /\ task' = [Idle EXCEPT !.pc = "start", !.plan = p]
    /\ UNCHANGED <<durable, external>>

Approve(p) ==
    /\ task = Idle
    /\ Answerable(p)
    /\ now < pending[p].expires
    /\ MarkUsed(p)
    /\ task' = [Idle EXCEPT !.pc = "grant", !.plan = p]
    /\ UNCHANGED <<durable, external>>

ApprovalGranted == EmitOnly("grant", "approval.granted", "none", "start")

\* Mutant: a rejected offer can still be approved.
RejectLeavesOpen(p) ==
    /\ task = Idle
    /\ Answerable(p)
    /\ task' = [Idle EXCEPT !.pc = "reject", !.plan = p]
    /\ UNCHANGED <<durable, pending, external>>

Reject(p) ==
    /\ task = Idle
    /\ Answerable(p)
    /\ MarkUsed(p)
    /\ task' = [Idle EXCEPT !.pc = "reject", !.plan = p]
    /\ UNCHANGED <<durable, external>>

ApprovalRejected == EmitOnly("reject", "approval.rejected", "none", "idle")

-----------------------------------------------------------------------------
\* The mutating tool, and the result of the plan.

ExecuteStarted == EmitOnly("start", "tool.started", "apply", "executing")

\* The connector returns.  It may report a failure after the workbook was
\* replaced, and a success without a write (no-op).
Execute(mutates, ok) ==
    /\ task.pc = "executing"
    /\ applied' = IF mutates THEN [applied EXCEPT ![task.plan] = @ + 1] ELSE applied
    /\ task' = [task EXCEPT !.pc = "executed", !.ok = ok]
    /\ UNCHANGED <<durable, pending, now, issued, lost>>

\* Mutant: the event does not say which tool ended.
ExecuteEndedAnonymous ==
    EmitOnly("executed", IF task.ok THEN "tool.completed" ELSE "tool.failed", "none",
             "result")

\* Mutant: a tool that failed ends the handler, and the plan stays open.
ExecuteEndedSilently ==
    EmitOnly("executed", IF task.ok THEN "tool.completed" ELSE "tool.failed", "apply",
             IF task.ok THEN "result" ELSE "idle")

ExecuteEnded ==
    EmitOnly("executed", IF task.ok THEN "tool.completed" ELSE "tool.failed", "apply",
             "result")

\* Mutant: the result of the tool is not looked at.
ResultAlwaysCompleted == EmitOnly("result", "plan.completed", "none", "artifact")

ResultEmitted ==
    EmitOnly("result", IF task.ok THEN "plan.completed" ELSE "plan.failed", "none",
             IF task.ok THEN "artifact" ELSE "idle")

ArtifactCreated == EmitOnly("artifact", "artifact.created", "none", "idle")

-----------------------------------------------------------------------------
\* set_policy: the setting is committed before its event is.

PolicyChanges ==
    Len(SelectSeq(timeline, LAMBDA e : e.type = "capability.policy_changed"))

SetPolicy(mode, threshold) ==
    /\ task = Idle
    /\ PolicyChanges < MaxPolicyChanges
    /\ policy' = [mode |-> mode, threshold |-> threshold]
    /\ task' = [Idle EXCEPT !.pc = "changed"]
    /\ UNCHANGED <<timeline, pending, external>>

PolicyChanged == EmitOnly("changed", "capability.policy_changed", policy, "idle")

-----------------------------------------------------------------------------
\* The running handler is cut short: it does nothing more.
CutShort ==
    /\ task' = Idle
    /\ lost' = IF task = Idle THEN lost ELSE lost \cup {task.plan}
    /\ Cardinality(lost') <= MaxLost

\* An append raises (SQLite, or the event's own validation): nothing catches
\* it, and what the handler did to memory stays.
StoreFails ==
    /\ task.pc \in Appending
    /\ CutShort
    /\ UNCHANGED <<durable, pending, now, issued, applied>>

\* The process ends and is started again: what is in memory is gone.
Crash ==
    /\ CutShort
    /\ pending' = <<>>
    /\ UNCHANGED <<durable, now, issued, applied>>

Tick ==
    /\ now < MaxTime
    /\ now' = now + 1
    /\ UNCHANGED <<durable, pending, task, issued, applied, lost>>

-----------------------------------------------------------------------------
\* The steps of the running handler, which the event loop carries on.
HandlerStep ==
    \/ ProposeStarted
    \/ \E ok \in BOOLEAN : Proposed(ok)
    \/ PlanCreated
    \/ PlanningFailed
    \/ PolicyEvaluated
    \/ ApprovalRequested
    \/ ApprovalGranted
    \/ ApprovalRejected
    \/ ExecuteStarted
    \/ \E mutates, ok \in BOOLEAN : Execute(mutates, ok)
    \/ ExecuteEnded
    \/ ResultEmitted
    \/ ArtifactCreated
    \/ PolicyChanged

\* The API calls of the operator and of the meeting pipeline.
Call ==
    \/ \E p \in Plan, c \in Confidence : Request(p, c)
    \/ \E p \in Plan : /\ Logged("approval.requested", p)
                      /\ \/ Approve(p)
                         \/ ApproveExpired(p)
                         \/ Reject(p)
    \/ \E m \in Mode, t \in Threshold : SetPolicy(m, t)

Next == HandlerStep \/ Call \/ StoreFails \/ Crash \/ Tick

Spec == Init /\ [][Next]_vars

-----------------------------------------------------------------------------
TypeOK ==
    /\ policy \in Policy
    /\ timeline \in Seq(EventRecord)
    /\ DOMAIN pending \subseteq Plan
    /\ \A p \in DOMAIN pending : pending[p] \in PendingApproval
    /\ task \in Task
    /\ now \in Nat
    /\ issued \subseteq Plan
    /\ applied \in [Plan -> Nat]
    /\ lost \subseteq Plan \cup {NoPlan}

-----------------------------------------------------------------------------
\* A handler that was started is not left suspended.
FairSpec == Spec /\ WF_vars(HandlerStep)

-----------------------------------------------------------------------------
\* The policy let p through, or a human did, before position i.
PolicyReleasedAt(j, p) ==
    /\ IsAt(j, "policy.evaluated", p)
    /\ timeline[j].data.policy.mode = "automatic"
    /\ timeline[j].data.confidence >= timeline[j].data.policy.threshold
ReleasedBefore(i, p) ==
    \E j \in 1 .. (i - 1) : PolicyReleasedAt(j, p) \/ IsAt(j, "approval.granted", p)

\* The policy let p through or a human did; the policy was disabled or a human
\* refused; what became of p was reported.
Released(p) == ReleasedBefore(Len(timeline) + 1, p)

Refused(p) ==
    \/ Logged("approval.rejected", p)
    \/ \E i \in DOMAIN timeline :
         IsAt(i, "policy.evaluated", p) /\ timeline[i].data.policy.mode = "disabled"

Concluded(p) == Logged("plan.completed", p) \/ Logged("plan.failed", p)

(* No mutating tool runs before the release of its plan, and none runs      *)
(* unannounced: the workbook is touched for a plan only after tool.started, *)
(* which follows an automatic verdict of sufficient confidence or a granted *)
(* approval of that same plan.                                              *)
MutationReleased ==
    \A p \in Plan :
        /\ applied[p] > 0 => ToolLogged("tool.started", p, "apply")
        /\ \A i \in DOMAIN timeline :
             IsToolAt(i, "tool.started", p, "apply") => ReleasedBefore(i, p)

(* A plan is executed at most once, whatever is approved twice, retried     *)
(* after a failure of the store, or answered around a restart.              *)
ExecutedAtMostOnce ==
    \A p \in Plan :
        /\ applied[p] <= 1
        /\ \A i, j \in DOMAIN timeline :
             /\ IsToolAt(i, "tool.started", p, "apply")
             /\ IsToolAt(j, "tool.started", p, "apply")
             => i = j

(* What the operator rejected, or the policy disabled when it was asked, is *)
(* neither granted nor started, before or after.                            *)
RefusalIsFinal ==
    \A p \in Plan :
        Refused(p) => /\ applied[p] = 0
                      /\ ~Logged("approval.granted", p)
                      /\ ~ToolLogged("tool.started", p, "apply")

(* A plan ends one way: it is reported completed only after the tool was,   *)
(* and never both completed and failed.                                     *)
OneOutcome ==
    \A p \in Plan :
        /\ \A i \in DOMAIN timeline : IsAt(i, "plan.completed", p) =>
             \E j \in 1 .. (i - 1) : IsToolAt(j, "tool.completed", p, "apply")
        /\ ~(Logged("plan.completed", p) /\ Logged("plan.failed", p))

(* An approval is answered positively only within the time its offer, as it *)
(* stands on the timeline, promised.                                        *)
GrantedInTime ==
    [][\A i \in DOMAIN timeline :
          (task = Idle /\ task'.pc = "grant" /\ IsAt(i, "approval.requested", task'.plan))
          => now < timeline[i].data]_vars

(* A released plan is concluded on the timeline unless its handler was cut  *)
(* short.                                                                   *)
ReleasedIsConcluded == \A p \in Plan : Released(p) ~> (Concluded(p) \/ p \in lost)

\* The timeline and the workbook, read as the state of ApprovalGate: the furthest
\* thing that was logged of a plan.
StageOf(p) ==
    IF ToolLogged("tool.started", p, "apply") THEN "started"
    ELSE IF Refused(p) THEN "refused"
    ELSE IF Released(p) THEN "released"
    ELSE IF Logged("approval.requested", p) THEN "asked"
    ELSE "undecided"
VerdictOf(p) ==
    IF Logged("plan.completed", p) THEN "completed"
    ELSE IF Logged("plan.failed", p) THEN "failed" ELSE "open"

Gate == INSTANCE ApprovalGate
            WITH stage   <- [p \in Plan |-> StageOf(p)],
                 touched <- applied,
                 verdict <- [p \in Plan |-> VerdictOf(p)]

(* Over crashes, store failures, policy changes and interleaved plans, each *)
(* step of the engine is a step of the gate or none: no plan is granted     *)
(* that was not asked for, starts that was not released, touches the        *)
(* workbook before its start or after its conclusion, or is decided twice.  *)
ImplementsGate == Gate!Spec

-----------------------------------------------------------------------------
\* What documents say and the code does not do.

(* "Mutation cannot execute when disabled" (handoff/docs/01-decision-log.md). *)
DisabledBlocksMutation ==
    [][policy.mode = "disabled" => applied' = applied]_vars
=============================================================================

---------------------------- MODULE ApprovalDesk ----------------------------
(***************************************************************************)
(* The Inspector's side of an approval: the page keeps one, from the reply *)
(* that brings it until it is answered, and a copy that outlives a reload. *)
(* The engine behind it is ApprovalGate, which CapabilityEngine implements,*)
(* with what of its process matters here: which approvals it can still     *)
(* take an answer to, and that it serves one call at a time.               *)
(*                                                                         *)
(* A button is disabled while its call lasts, so each has one call at      *)
(* most; the calls of different buttons overlap, and their replies arrive  *)
(* in any order.  Answers need the identifier and token of the reply,      *)
(* which this page alone has.  The events it is sent are those of          *)
(* TimelineStream; here it is told of decisions, each at any time or       *)
(* never, and at a reload of those that the history holds, which ends at a *)
(* limit.                                                                  *)
(***************************************************************************)
EXTENDS ApprovalGate

CONSTANTS
    NoPlan,
    MaxMishaps    \* bound on failures, restarts, calls given up, and reloads

ASSUME NoPlanAssumption     == NoPlan \notin Plan
ASSUME MaxMishapsAssumption == MaxMishaps \in Nat

Asking == {"ask", "inject"}
Answer == {"approve", "reject"}
Button == Asking \cup Answer

VARIABLES
    issued,     \* plans that were created
    open,       \* CapabilityEngine._pending, as far as it can be answered
    task,       \* the call that is served
    calls,      \* the page's call, by button
    late,       \* what was sent, is not served, and the page does not wait for
    slot,       \* state.pendingApproval
    saved,      \* its copy in sessionStorage
    seen,       \* plans of whose decision the page was told
    clicked,    \* the answers the operator gave, with the plan on screen
    displaced,  \* plans that left the screen, or never reached it, unanswered
    mishaps

gate   == vars
server == <<issued, open, task>>
screen == <<slot, saved, seen, displaced>>
deskVars == <<gate, server, calls, late, screen, clicked, mishaps>>

\* A sent answer has its plan; a request gets it when it is served, and its reply
\* has it when it brings an approval.
NoCall == [at |-> "none", plan |-> NoPlan]
Idle   == [kind |-> "idle", plan |-> NoPlan, button |-> "none"]

\* The plan was granted or rejected, or the policy decided.
Decided(p) == stage[p] \in {"released", "refused", "started"}
Decisions  == {p \in Plan : Decided(p)}

Mishap == mishaps < MaxMishaps /\ mishaps' = mishaps + 1

-----------------------------------------------------------------------------
DeskInit ==
    /\ Init
    /\ issued = {}
    /\ open = {}
    /\ task = Idle
    /\ calls = [b \in Button |-> NoCall]
    /\ late = {}
    /\ slot = NoPlan
    /\ saved = NoPlan
    /\ seen = {}
    /\ clicked = {}
    /\ displaced = {}
    /\ mishaps = 0

-----------------------------------------------------------------------------
\* The operator clicks.

ClickAsk(b) ==
    /\ calls[b].at = "none"
    /\ issued # Plan
    /\ calls' = [calls EXCEPT ![b] = [at |-> "sent", plan |-> NoPlan]]
    /\ UNCHANGED <<gate, server, late, screen, clicked, mishaps>>

ClickAnswer(b) ==
    /\ calls[b].at = "none"
    /\ slot # NoPlan
    /\ calls' = [calls EXCEPT ![b] = [at |-> "sent", plan |-> slot]]
    /\ clicked' = clicked \cup {<<b, slot>>}
    /\ UNCHANGED <<gate, server, late, screen, mishaps>>

-----------------------------------------------------------------------------
\* The server.

TakeAsk(b) ==
    /\ task = Idle
    /\ calls[b].at = "sent"
    /\ \E p \in Plan \ issued :
         /\ issued' = issued \cup {p}
         /\ task' = [kind |-> "ask", plan |-> p, button |-> b]
         /\ calls' = [calls EXCEPT ![b] = [at |-> "running", plan |-> p]]
    /\ UNCHANGED <<gate, open, late, screen, clicked, mishaps>>

\* Mutant: the plan is read when the request goes out.
TakeAnswerOfScreen(b) ==
    /\ task = Idle
    /\ calls[b].at = "sent"
    /\ slot \in open
    /\ open' = open \ {slot}
    /\ task' = [kind |-> b, plan |-> slot, button |-> b]
    /\ calls' = [calls EXCEPT ![b].at = "running"]
    /\ UNCHANGED <<gate, issued, late, screen, clicked, mishaps>>

\* An approval that is unknown, used or expired is answered with an error, which
\* is a reply like any other.
TakeAnswer(b) ==
    /\ task = Idle
    /\ calls[b].at = "sent"
    /\ LET p == calls[b].plan
       IN  \/ /\ p \in open
              /\ open' = open \ {p}
              /\ task' = [kind |-> b, plan |-> p, button |-> b]
              /\ calls' = [calls EXCEPT ![b].at = "running"]
           \/ /\ p \notin open
              /\ calls' = [calls EXCEPT ![b].at = "replied"]
              /\ UNCHANGED <<open, task>>
    /\ UNCHANGED <<gate, issued, late, screen, clicked, mishaps>>

\* What the page gave up may be served still.  A request leaves an approval nobody
\* can give.
TakeLate ==
    /\ task = Idle
    /\ \E a \in late :
         /\ late' = late \ {a}
         /\ \/ /\ a[2] \in open
               /\ open' = open \ {a[2]}
               /\ task' = [kind |-> a[1], plan |-> a[2], button |-> "none"]
               /\ UNCHANGED <<issued, displaced>>
            \/ /\ a[2] = NoPlan
               /\ \E p \in Plan \ issued :
                    /\ issued' = issued \cup {p}
                    /\ task' = [kind |-> "ask", plan |-> p, button |-> "none"]
                    /\ displaced' = displaced \cup {p}
               /\ UNCHANGED open
    /\ UNCHANGED <<gate, calls, slot, saved, seen, clicked, mishaps>>

\* The handler goes on.
Serve ==
    /\ \/ task.kind = "ask" /\ Clear(task.plan)
       \/ task.kind = "approve" /\ Grant(task.plan)
       \/ task # Idle /\ (Start(task.plan) \/ Touch(task.plan))
    /\ UNCHANGED <<server, calls, late, screen, clicked, mishaps>>

\* The handler replies, to the page if it still waits, with what there is to
\* approve.
Reply(plan) ==
    /\ task' = Idle
    /\ calls' = IF task.button = "none" THEN calls
                ELSE [calls EXCEPT ![task.button] = [at |-> "replied", plan |-> plan]]

ReplyOffer ==
    /\ task.kind = "ask"
    /\ Ask(task.plan)
    /\ open' = open \cup {task.plan}
    /\ Reply(task.plan)
    /\ UNCHANGED <<issued, late, screen, clicked, mishaps>>

ReplyResult ==
    /\ \/ task.kind = "ask" /\ Deny(task.plan)
       \/ task.kind = "reject" /\ Reject(task.plan)
       \/ task # Idle /\ \E v \in {"completed", "failed"} : Conclude(task.plan, v)
    /\ Reply(IF task.kind = "ask" THEN NoPlan ELSE task.plan)
    /\ UNCHANGED <<issued, open, late, screen, clicked, mishaps>>

\* The handler raises: the reply is an error, and the page goes on as it was.
Fail ==
    /\ task # Idle
    /\ Mishap
    /\ task' = Idle
    /\ calls' = IF task.button = "none" THEN calls
                ELSE [calls EXCEPT ![task.button] = NoCall]
    /\ UNCHANGED <<gate, issued, open, late, screen, clicked>>

\* The process ends and another starts: approvals and calls are lost with it.
Crash ==
    /\ Mishap
    /\ open' = {}
    /\ task' = Idle
    /\ late' = {}
    /\ calls' = [b \in Button |->
                   IF calls[b].at \in {"sent", "running"} THEN NoCall ELSE calls[b]]
    /\ UNCHANGED <<gate, issued, screen, clicked>>

Expire ==
    /\ \E p \in open : open' = open \ {p}
    /\ UNCHANGED <<gate, issued, task, calls, late, screen, clicked, mishaps>>

-----------------------------------------------------------------------------
\* The page.

\* Mutant: the copy is stored as it is, and the storage makes a text of it.
ShowsUnwritten(p) ==
    /\ slot' = p
    /\ saved' = "[object Object]"
    /\ displaced' = displaced \cup ({slot} \ {p, NoPlan})
    /\ UNCHANGED seen

Shows(p) ==
    /\ slot' = p
    /\ saved' = p
    /\ displaced' = displaced \cup ({slot} \ {p, NoPlan})
    /\ UNCHANGED seen

\* captureApproval: what there is to approve takes the slot.
Captured(b) ==
    /\ calls[b].at = "replied"
    /\ calls' = [calls EXCEPT ![b] = NoCall]
    /\ IF calls[b].plan = NoPlan THEN UNCHANGED screen ELSE Shows(calls[b].plan)
    /\ UNCHANGED <<gate, server, late, clicked, mishaps>>

\* approvePlan and rejectPlan go on after their reply: the slot is cleared, whatever
\* is in it by now.
Answered(b) ==
    /\ calls[b].at = "replied"
    /\ calls' = [calls EXCEPT ![b] = NoCall]
    /\ slot' = NoPlan
    /\ saved' = NoPlan
    /\ displaced' = displaced \cup ({slot} \ {calls[b].plan, NoPlan})
    /\ UNCHANGED <<gate, server, late, seen, clicked, mishaps>>

\* Mutant: a decision clears the slot without a look at what is in it.
SeeAny(p) ==
    /\ Decided(p) /\ p \notin seen
    /\ seen' = seen \cup {p}
    /\ slot' = NoPlan
    /\ UNCHANGED <<gate, server, calls, late, saved, displaced, clicked, mishaps>>

\* approval.granted or approval.rejected arrives; the copy stays.
See(p) ==
    /\ Decided(p) /\ p \notin seen
    /\ seen' = seen \cup {p}
    /\ slot' = IF slot = p THEN NoPlan ELSE slot
    /\ UNCHANGED <<gate, server, calls, late, saved, displaced, clicked, mishaps>>

\* What was sent may be served whether the page waits for it or not; the requests of
\* one button that were given up count as one.
Unserved == {<<b, calls[b].plan>> : b \in {a \in Button : calls[a].at = "sent"}}

\* The connection breaks or the call takes too long: the page gives it up.  A request
\* that is being served, or was, leaves an approval nobody can give.
GiveUp(b) ==
    /\ calls[b].at # "none"
    /\ Mishap
    /\ calls' = [calls EXCEPT ![b] = NoCall]
    /\ task' = IF task.button = b THEN [task EXCEPT !.button = "none"] ELSE task
    /\ late' = late \cup {a \in Unserved : a[1] = b}
    /\ displaced' = IF b \in Asking THEN displaced \cup ({calls[b].plan} \ {NoPlan})
                    ELSE displaced
    /\ UNCHANGED <<gate, issued, open, slot, saved, seen, clicked>>

AllGivenUp ==
    /\ Mishap
    /\ calls' = [b \in Button |-> NoCall]
    /\ task' = [task EXCEPT !.button = "none"]
    /\ late' = late \cup Unserved
    /\ displaced' = displaced \cup ({calls[b].plan : b \in Asking} \ {NoPlan})
    /\ UNCHANGED <<gate, issued, open, saved, clicked>>

\* Mutant: the history is loaded before the copy is restored.
ReloadHistoryFirst ==
    /\ AllGivenUp
    /\ slot' = saved
    /\ seen' \in SUBSET Decisions

\* The page is loaded again: the copy is restored, and then the history is applied.
\* It tells of the decisions it holds, which are not all: it ends at a limit.  Of the
\* others the page is told while it is connected, or never.
Reload ==
    /\ AllGivenUp
    /\ \E told \in SUBSET Decisions :
         /\ slot' = IF saved \in told THEN NoPlan ELSE saved
         /\ seen' = told

-----------------------------------------------------------------------------
DeskNext ==
    \/ \E b \in Asking : ClickAsk(b) \/ TakeAsk(b) \/ Captured(b)
    \/ \E b \in Answer : ClickAnswer(b) \/ TakeAnswer(b) \/ Answered(b)
    \/ TakeLate \/ Serve \/ ReplyOffer \/ ReplyResult
    \/ Fail \/ Crash \/ Expire
    \/ \E p \in Plan : See(p)
    \/ \E b \in Button : GiveUp(b)
    \/ Reload

DeskSpec == DeskInit /\ [][DeskNext]_deskVars

-----------------------------------------------------------------------------
CallRecord == [at : {"none", "sent", "running", "replied"}, plan : Plan \cup {NoPlan}]
TaskRecord == [kind : {"idle", "ask"} \cup Answer, plan : Plan \cup {NoPlan},
               button : Button \cup {"none"}]

DeskTypeOK ==
    /\ stage \in [Plan -> Stage]
    /\ touched \in [Plan -> 0 .. 1]
    /\ verdict \in [Plan -> Verdict]
    /\ {issued, open, seen, displaced} \subseteq SUBSET Plan
    /\ task \in TaskRecord
    /\ calls \in [Button -> CallRecord]
    /\ late \subseteq (Answer \X Plan) \cup (Asking \X {NoPlan})
    /\ clicked \subseteq Answer \X Plan
    /\ {slot, saved} \subseteq Plan \cup {NoPlan}
    /\ mishaps \in Nat

(* What the engine does with an approval is what the operator clicked while *)
(* that approval, and no other, was on the screen, however calls and        *)
(* replies overlap, break off or arrive late.                               *)
AnswersAreTheOperators ==
    [][\A p \in Plan : stage[p] = "asked" =>
          /\ stage'[p] = "released" => <<"approve", p>> \in clicked
          /\ stage'[p] = "refused"  => <<"reject", p>> \in clicked]_deskVars

(* An approval that can be given is on the screen or in a reply on its way, *)
(* unless a later one took its place, the reply to an answer cleared it, or *)
(* its own reply did not arrive.                                            *)
OpenIsOnScreen ==
    \A p \in open \ displaced :
        slot = p \/ \E b \in Asking : calls[b] = [at |-> "replied", plan |-> p]

(* The page offers no approval of whose decision it was told since it was   *)
(* loaded, by a live event or by the history, neither from the copy that    *)
(* the decision left behind nor by a reply.  A decision beyond the limit of *)
(* the history is not told at all: its copy may be offered again.           *)
SeenIsOffScreen == slot \notin seen
=============================================================================

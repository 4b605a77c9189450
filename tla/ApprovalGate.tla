---------------------------- MODULE ApprovalGate ----------------------------
(***************************************************************************)
(* What the capability engine promises, whatever happens to its process:   *)
(* a plan runs only through the gate.  The policy clears it or denies it,  *)
(* or a human is asked, who grants it or rejects it; a plan that is        *)
(* through starts once, touches the workbook at most once, and is          *)
(* concluded in one way.  There is no process here, no memory, clock or    *)
(* handler: a plan may stop anywhere, and nothing undoes a decision.       *)
(***************************************************************************)
EXTENDS Naturals

CONSTANT Plan

VARIABLES
    stage,     \* how far each plan has come
    touched,   \* how often each plan changed the workbook
    verdict    \* how each plan was concluded

vars == <<stage, touched, verdict>>

Stage   == {"undecided", "asked", "released", "refused", "started"}
Verdict == {"open", "completed", "failed"}

Init ==
    /\ stage = [p \in Plan |-> "undecided"]
    /\ touched = [p \in Plan |-> 0]
    /\ verdict = [p \in Plan |-> "open"]

Moves(p, from, to) ==
    /\ stage[p] = from
    /\ verdict[p] = "open"
    /\ stage' = [stage EXCEPT ![p] = to]
    /\ UNCHANGED <<touched, verdict>>

\* The policy decides.
Clear(p) == Moves(p, "undecided", "released")
Deny(p)  == Moves(p, "undecided", "refused")
Ask(p)   == Moves(p, "undecided", "asked")

\* The human decides.
Grant(p)  == Moves(p, "asked", "released")
Reject(p) == Moves(p, "asked", "refused")

Start(p) == Moves(p, "released", "started")

Touch(p) ==
    /\ stage[p] = "started"
    /\ verdict[p] = "open"
    /\ touched[p] = 0
    /\ touched' = [touched EXCEPT ![p] = 1]
    /\ UNCHANGED <<stage, verdict>>

Conclude(p, v) ==
    /\ verdict[p] = "open"
    /\ \/ stage[p] = "started"
       \/ stage[p] = "undecided" /\ v = "failed"
    /\ verdict' = [verdict EXCEPT ![p] = v]
    /\ UNCHANGED <<stage, touched>>

Next ==
    \E p \in Plan :
        \/ Clear(p) \/ Deny(p) \/ Ask(p) \/ Grant(p) \/ Reject(p)
        \/ Start(p) \/ Touch(p)
        \/ \E v \in {"completed", "failed"} : Conclude(p, v)

Spec == Init /\ [][Next]_vars
=============================================================================

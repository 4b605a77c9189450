--------------------------- MODULE MeetingRecord ---------------------------
(***************************************************************************)
(* What the runtime promises of its record, whatever happens to its        *)
(* process or to the store: there is one meeting at a time, its segments   *)
(* come in the order in which they were made and stay until the next one   *)
(* starts, and every fact comes from a segment that is there.  Nothing     *)
(* takes a step back: a process that ends, a write that fails and a        *)
(* process that starts on what is there leave the record alone.            *)
(*                                                                         *)
(* There is no process here, no memory, mode, handler or timeline.  The    *)
(* record is what the next process would begin with.                       *)
(***************************************************************************)
EXTENDS Naturals, Sequences

VARIABLES
    meeting,      \* the last meeting, by its number, and whether it goes on
    transcript,   \* its segments
    facts         \* its facts, by the segments they come from

vars == <<meeting, transcript, facts>>

Held(list) == {list[i] : i \in DOMAIN list}
Said == {segment.id : segment \in Held(transcript)}

Init ==
    /\ meeting = [id |-> 0, active |-> FALSE]
    /\ transcript = <<>>
    /\ facts = <<>>

\* A meeting that was not there before, with nothing in it.
Start(id) ==
    /\ ~meeting.active
    /\ id > meeting.id
    /\ meeting' = [id |-> id, active |-> TRUE]
    /\ transcript' = <<>>
    /\ facts' = <<>>

\* A meeting ends with all that was said.  When the store failed at its start, the
\* record knows it only from its end.
End(id) ==
    /\ id >= meeting.id
    /\ meeting' = [id |-> id, active |-> FALSE]
    /\ UNCHANGED <<transcript, facts>>

\* A segment may come after the end of its meeting.
Speak(segment) ==
    /\ \A id \in Said : id < segment.id
    /\ transcript' = Append(transcript, segment)
    /\ UNCHANGED <<meeting, facts>>

Extract(segment) ==
    /\ segment \in Said
    /\ facts' = Append(facts, segment)
    /\ UNCHANGED <<meeting, transcript>>

Next ==
    \/ Start(meeting'.id) \/ End(meeting'.id)
    \/ \E segment \in Held(transcript') : Speak(segment)
    \/ \E segment \in Said : Extract(segment)

Spec == Init /\ [][Next]_vars
=============================================================================

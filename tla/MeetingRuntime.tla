-------------------------- MODULE MeetingRuntime --------------------------
(***************************************************************************)
(* The runtime's session: the agent's mode, the meeting, its transcript    *)
(* and its facts, the events that record them, and the projection that a   *)
(* new process rebuilds from those events.                                 *)
(*                                                                         *)
(* A handler is a list of operations, `todo', and runs to its end before   *)
(* another one starts, because nothing in it suspends it: each operation   *)
(* changes memory and ends with one durable write.  The exception is       *)
(* inject_transcript, which waits once, between its partial and its final  *)
(* segment; the handlers that wait there are in `suspended' and resume in  *)
(* their order, with any others between them.                              *)
(*                                                                         *)
(* Events that no projection reads (audio levels, wake scores, partial     *)
(* segments, rejected transitions, messages) are of type "other".  The     *)
(* capability request at the end of inject_transcript and ask is module    *)
(* CapabilityEngine.                                                       *)
(***************************************************************************)
EXTENDS Naturals, Sequences, FiniteSets, SequencesExt

CONSTANTS
    Requested,      \* modes that are asked for
    Hint,           \* names of speakers
    NoHint,
    Spoken,         \* texts that are injected
    RebuildLimit,   \* events a new process rebuilds from (10000)
    MaxEvents,      \* bound: no call is made on a longer timeline
    MaxMeetings,    \* bound on meetings
    MaxSegments,    \* bound on injected transcripts
    MaxFailures     \* bound on crashes and store failures

AgentState == {"mic_off", "standby", "transcribing", "interactive", "error_recoverable"}

\* What is said: how many facts are extracted from it, its phrases, and who is said
\* to speak.
Text == [facts : Nat, phrases : SUBSET {"activation", "deactivation"},
         hint : Hint \cup {NoHint}]

ASSUME InputAssumption == Requested \subseteq AgentState /\ Spoken \subseteq Text
ASSUME HintAssumption == NoHint \notin Hint
ASSUME BoundAssumption ==
    /\ RebuildLimit \in Nat
    /\ MaxEvents \in Nat /\ MaxMeetings \in Nat
    /\ MaxSegments \in Nat /\ MaxFailures \in Nat

\* The transitions of the mode; a request for the present mode is accepted too.
Allowed(from) ==
    CASE from \in {"mic_off", "standby"} ->
             {"mic_off", "standby", "transcribing", "interactive"}
      [] OTHER -> AgentState

VARIABLES
    saved,      \* the setting agent_state
    timeline,   \* the events table
    state,      \* AgentStateMachine._state
    buffered,   \* the audio ring buffer holds frames
    meeting,
    transcript,
    facts,
    hints,      \* SimpleOnlineDiarizer._hint_map: names in the order they came
    todo,       \* what the running handler has still to do
    suspended,  \* inject_transcript handlers that wait
    meetings,   \* meetings started so far
    segments,   \* final segments made so far
    inherited,  \* how many of them an earlier process made
    tainted,    \* a store failure left memory and timeline apart
    failures

durable    == <<saved, timeline>>
projection == <<meeting, transcript, facts>>
counters   == <<meetings, segments, inherited>>
vars == <<saved, timeline, state, buffered, meeting, transcript, facts, hints, todo,
          suspended, meetings, segments, inherited, tainted, failures>>

NoMeeting == [id |-> 0, active |-> FALSE]
Meeting   == [id : Nat, active : BOOLEAN]

\* A segment has the number of its speaker's cluster; the hint it came from is kept
\* for the properties.
Segment == [id : Nat, meeting : Nat, speaker : Nat, hint : Hint \cup {NoHint}]

Event(type, data) == [type |-> type, data |-> data]
Other             == Event("other", <<>>)

Changed(from, to) == Event("agent.state_changed", <<from, to>>)
StateChange(to, reason) == [op |-> "state", to |-> to, reason |-> reason]
Emission(event)         == [op |-> "emit", event |-> event]
Say                     == Emission(Other)

-----------------------------------------------------------------------------
\* _rebuild_projection: the oldest events of the session, up to the limit.

EmptyProjection == [meeting |-> NoMeeting, transcript |-> <<>>, facts |-> <<>>]

\* Mutant: a new meeting keeps the segments and facts of the one before.
ProjectKeeping(p, e) ==
    CASE e.type = "meeting.started" -> [p EXCEPT !.meeting = [id |-> e.data, active |-> TRUE]]
      [] e.type = "meeting.ended" /\ p.meeting # NoMeeting ->
             [p EXCEPT !.meeting = [id |-> e.data, active |-> FALSE]]
      [] e.type = "transcript.final" -> [p EXCEPT !.transcript = Append(@, e.data)]
      [] e.type = "meeting.fact_extracted" -> [p EXCEPT !.facts = Append(@, e.data)]
      [] OTHER -> p

Project(p, e) ==
    CASE e.type = "meeting.started" ->
             [EmptyProjection EXCEPT !.meeting = [id |-> e.data, active |-> TRUE]]
      [] e.type = "meeting.ended" /\ p.meeting # NoMeeting ->
             [p EXCEPT !.meeting = [id |-> e.data, active |-> FALSE]]
      [] e.type = "transcript.final" -> [p EXCEPT !.transcript = Append(@, e.data)]
      [] e.type = "meeting.fact_extracted" -> [p EXCEPT !.facts = Append(@, e.data)]
      [] OTHER -> p

Rebuilt ==
    LET last == IF Len(timeline) < RebuildLimit THEN Len(timeline) ELSE RebuildLimit
        p[i \in 0 .. last] == IF i = 0 THEN EmptyProjection
                              ELSE Project(p[i - 1], timeline[i])
    IN  p[last]

-----------------------------------------------------------------------------
Init ==
    /\ saved = "mic_off"
    /\ timeline = <<Other>>   \* agent.session_started
    /\ state = "mic_off"
    /\ buffered = FALSE
    /\ meeting = NoMeeting
    /\ transcript = <<>>
    /\ facts = <<>>
    /\ hints = <<>>
    /\ todo = <<>>
    /\ suspended = <<>>
    /\ meetings = 0
    /\ segments = 0
    /\ inherited = 0
    /\ tainted = FALSE
    /\ failures = 0

\* The write that ends an operation: it commits and the handler goes on with the
\* operations `next', or the store raises and the handler is over.
Ends(event, next) ==
    \/ /\ timeline' = Append(timeline, event)
       /\ todo' = next
       /\ UNCHANGED <<tainted, failures>>
    \/ /\ failures < MaxFailures
       /\ failures' = failures + 1
       /\ tainted' = TRUE
       /\ todo' = <<>>
       /\ UNCHANGED timeline

Stored == failures' = failures

Running(op) == todo # <<>> /\ Head(todo).op = op

-----------------------------------------------------------------------------
\* Operations that several handlers share.

Emit ==
    /\ Running("emit")
    /\ Ends(Head(todo).event, Tail(todo))
    /\ UNCHANGED <<saved, state, buffered, projection, hints, suspended, counters>>

RejectTransition ==
    /\ Running("state")
    /\ Head(todo).to \notin Allowed(state)
    /\ Ends(Other, Tail(todo))
    /\ UNCHANGED <<saved, state, buffered, projection, hints, suspended, counters>>

\* Mutant: the buffer is not cleared.
ChangeStateKeepingAudio ==
    /\ Running("state")
    /\ Head(todo).to \in Allowed(state)
    /\ state' = Head(todo).to
    /\ saved' = state'
    /\ todo' = <<Emission(Changed(state, state'))>> \o Tail(todo)
    /\ UNCHANGED <<timeline, buffered, projection, hints, suspended, counters, tainted,
                   failures>>

\* Mutant: the setting is left to the next shutdown.
ChangeStateUnsaved ==
    /\ Running("state")
    /\ Head(todo).to \in Allowed(state)
    /\ state' = Head(todo).to
    /\ buffered' = (buffered /\ state' # "mic_off")
    /\ todo' = <<Emission(Changed(state, state'))>> \o Tail(todo)
    /\ UNCHANGED <<durable, projection, hints, suspended, counters, tainted, failures>>

\* set_state: the mode and the buffer change, then the setting is written; the
\* event is the next operation.
ChangeState ==
    /\ Running("state")
    /\ Head(todo).to \in Allowed(state)
    /\ state' = Head(todo).to
    /\ buffered' = (buffered /\ state' # "mic_off")
    /\ \/ /\ saved' = state'
          /\ todo' = <<Emission(Changed(state, state'))>> \o Tail(todo)
          /\ UNCHANGED <<tainted, failures>>
       \/ /\ failures < MaxFailures
          /\ failures' = failures + 1
          /\ tainted' = TRUE
          /\ todo' = <<>>
          /\ UNCHANGED saved
    /\ UNCHANGED <<timeline, projection, hints, suspended, counters>>

-----------------------------------------------------------------------------
\* Calls.  One is taken up when no handler runs.

Call == todo = <<>> /\ Len(timeline) < MaxEvents

SetState(to) ==
    /\ Call
    /\ todo' = <<StateChange(to, "ui_command")>>
    /\ UNCHANGED <<durable, state, buffered, projection, hints, suspended, counters,
                   tainted, failures>>

\* A frame is refused when the microphone is off; otherwise it is buffered, its
\* level announced, and at times the wake detector runs on the buffer.
Ingest(checked, detected) ==
    /\ Call
    /\ state # "mic_off"
    /\ buffered' = TRUE
    /\ detected => checked
    /\ todo' = <<Say>>
               \o (IF checked THEN <<Say>> ELSE <<>>)
               \o (IF ~detected THEN <<>>
                   ELSE <<Say, IF state = "interactive"
                               THEN StateChange("standby", "deactivation")
                               ELSE StateChange("interactive", "activation")>>)
    /\ UNCHANGED <<durable, state, projection, hints, suspended, counters, tainted,
                   failures>>

\* Mutant: an active meeting is replaced.
StartMeetingAgain ==
    /\ Call
    /\ meetings < MaxMeetings
    /\ todo' = <<[op |-> "start"]>>
    /\ UNCHANGED <<durable, state, buffered, projection, hints, suspended, counters,
                   tainted, failures>>

StartMeeting ==
    /\ Call
    /\ ~meeting.active
    /\ meetings < MaxMeetings
    /\ todo' = <<[op |-> "start"]>>
    /\ UNCHANGED <<durable, state, buffered, projection, hints, suspended, counters,
                   tainted, failures>>

\* A meeting that was ended before can be ended again.
EndMeeting ==
    /\ Call
    /\ meeting # NoMeeting
    /\ todo' = <<Emission(Event("meeting.summary_created", <<meeting.id, Len(transcript)>>)),
                 [op |-> "end"]>>
    /\ UNCHANGED <<durable, state, buffered, projection, hints, suspended, counters,
                   tainted, failures>>

\* inject_transcript, up to its wait; without an active meeting it starts one.
Inject(text) ==
    /\ Call
    /\ segments + Len(suspended) < MaxSegments
    /\ meeting.active \/ meetings < MaxMeetings
    /\ todo' = (IF meeting.active THEN <<>> ELSE <<[op |-> "start"]>>)
               \o <<[op |-> "partial", text |-> text]>>
    /\ UNCHANGED <<durable, state, buffered, projection, hints, suspended, counters,
                   tainted, failures>>

\* The oldest handler that waits goes on.
Resume ==
    /\ todo = <<>>
    /\ suspended # <<>>
    /\ todo' = <<[op |-> "final", text |-> Head(suspended)]>>
    /\ suspended' = Tail(suspended)
    /\ UNCHANGED <<durable, state, buffered, projection, hints, counters, tainted, failures>>

\* ask with no roadmap update in it, analyze_now, enrolment: one event.
Note ==
    /\ Call
    /\ todo' = <<Say>>
    /\ UNCHANGED <<durable, state, buffered, projection, hints, suspended, counters,
                   tainted, failures>>

\* The settings are written one by one, and a new buffer length makes a new, empty
\* buffer; a value that does not convert raises after some of them.
UpdateSettings ==
    /\ Call
    /\ buffered' \in {buffered, FALSE}
    /\ todo' \in {<<Say>>, <<>>}
    /\ UNCHANGED <<durable, state, projection, hints, suspended, counters, tainted,
                   failures>>

-----------------------------------------------------------------------------
\* Operations of meetings.

\* Mutant: the facts of the meeting before are kept.
MeetingStartsKeepingFacts ==
    /\ Running("start")
    /\ meetings' = meetings + 1
    /\ meeting' = [id |-> meetings', active |-> TRUE]
    /\ transcript' = <<>>
    /\ Ends(Event("meeting.started", meeting'.id), Tail(todo))
    /\ UNCHANGED <<saved, state, buffered, facts, hints, suspended, segments, inherited>>

\* Memory changes first; then the mode follows the meeting.
MeetingStarts ==
    /\ Running("start")
    /\ meetings' = meetings + 1
    /\ meeting' = [id |-> meetings', active |-> TRUE]
    /\ transcript' = <<>>
    /\ facts' = <<>>
    /\ Ends(Event("meeting.started", meeting'.id),
            (IF state = "standby"
             THEN <<StateChange("transcribing", "meeting_started")>> ELSE <<>>)
            \o Tail(todo))
    /\ UNCHANGED <<saved, state, buffered, hints, suspended, segments, inherited>>

\* Mutant: memory changes before the event is stored.
MeetingEndsUnstored ==
    /\ Running("end")
    /\ Ends(Event("meeting.ended", meeting.id),
            IF state \in {"transcribing", "interactive"}
            THEN <<StateChange("standby", "meeting_ended")>> ELSE <<>>)
    /\ meeting' = [meeting EXCEPT !.active = FALSE]
    /\ UNCHANGED <<saved, state, buffered, transcript, facts, hints, suspended, counters>>

\* Memory changes only when the event is stored.
MeetingEnds ==
    /\ Running("end")
    /\ Ends(Event("meeting.ended", meeting.id),
            IF state \in {"transcribing", "interactive"}
            THEN <<StateChange("standby", "meeting_ended")>> ELSE <<>>)
    /\ meeting' = IF Stored THEN [meeting EXCEPT !.active = FALSE] ELSE meeting
    /\ UNCHANGED <<saved, state, buffered, transcript, facts, hints, suspended, counters>>

\* assign: a name that is new gets the next number; no name is number 1, as is the
\* first name.
Learned(hint) ==
    IF hint \in {NoHint} \cup ToSet(hints) THEN hints ELSE Append(hints, hint)

\* Mutant: a name gets the number that was given out last.
LastSpeaker(hint) == IF hint = NoHint THEN 1 ELSE Len(Learned(hint))

Speaker(hint) ==
    IF hint = NoHint THEN 1
    ELSE CHOOSE i \in DOMAIN Learned(hint) : Learned(hint)[i] = hint

\* The speaker is assigned before the segment is stored.
PartialSegment ==
    /\ Running("partial")
    /\ Ends(Other, <<>>)
    /\ hints' = Learned(Head(todo).text.hint)
    /\ suspended' = IF Stored THEN Append(suspended, Head(todo).text)
                    ELSE suspended
    /\ UNCHANGED <<saved, state, buffered, projection, counters>>

\* The phrases are looked for in turn, the second in the mode the first left.
PhraseChanges(text) ==
    LET wakes  == "activation" \in text.phrases /\ state = "standby"
        sleeps == "deactivation" \in text.phrases /\ (wakes \/ state = "interactive")
    IN  (IF wakes THEN <<StateChange("interactive", "activation")>> ELSE <<>>)
        \o (IF sleeps THEN <<StateChange("standby", "deactivation")>> ELSE <<>>)

\* The final segment goes to the meeting there is now.
FinalSegment ==
    /\ Running("final")
    /\ segments' = segments + 1
    /\ LET text    == Head(todo).text
           segment == [id |-> segments', meeting |-> meeting.id,
                       speaker |-> Speaker(text.hint), hint |-> text.hint]
       IN  /\ hints' = Learned(text.hint)
           /\ Ends(Event("transcript.final", segment),
                   [i \in 1 .. text.facts |-> [op |-> "fact", segment |-> segment.id]]
                   \o PhraseChanges(text))
           /\ transcript' = Append(transcript, segment)
    /\ UNCHANGED <<saved, state, buffered, meeting, facts, suspended, meetings, inherited>>

\* Mutant: the fact is traced to the segment before.
FactOfPreviousSegment ==
    /\ Running("fact")
    /\ Ends(Event("meeting.fact_extracted", Head(todo).segment - 1), Tail(todo))
    /\ facts' = Append(facts, Head(todo).segment - 1)
    /\ UNCHANGED <<saved, state, buffered, meeting, transcript, hints, suspended, counters>>

FactExtracted ==
    /\ Running("fact")
    /\ Ends(Event("meeting.fact_extracted", Head(todo).segment), Tail(todo))
    /\ facts' = Append(facts, Head(todo).segment)
    /\ UNCHANGED <<saved, state, buffered, meeting, transcript, hints, suspended, counters>>

-----------------------------------------------------------------------------
\* The process ends and another one starts on its data.
Restart ==
    /\ failures < MaxFailures
    /\ failures' = failures + 1
    /\ state' = saved
    /\ buffered' = FALSE
    /\ meeting' = Rebuilt.meeting
    /\ transcript' = Rebuilt.transcript
    /\ facts' = Rebuilt.facts
    /\ hints' = <<>>
    /\ todo' = <<>>
    /\ suspended' = <<>>
    /\ tainted' = FALSE
    /\ inherited' = segments
    /\ UNCHANGED <<durable, meetings, segments>>

Operation ==
    \/ Emit \/ RejectTransition \/ ChangeState
    \/ MeetingStarts \/ MeetingEnds
    \/ PartialSegment \/ FinalSegment \/ FactExtracted

Next ==
    \/ Operation
    \/ \E to \in Requested : SetState(to)
    \/ \E checked, detected \in BOOLEAN : Ingest(checked, detected)
    \/ StartMeeting \/ EndMeeting \/ Resume \/ Note \/ UpdateSettings
    \/ \E text \in Spoken : Inject(text)
    \/ Restart

Spec == Init /\ [][Next]_vars

-----------------------------------------------------------------------------
EventType == {"other", "agent.state_changed", "meeting.started", "meeting.ended",
              "meeting.summary_created", "transcript.final", "meeting.fact_extracted"}
Ops == {"state", "emit", "start", "end", "partial", "final", "fact"}

TypeOK ==
    /\ saved \in AgentState
    /\ state \in AgentState
    /\ \A i \in DOMAIN timeline : timeline[i].type \in EventType
    /\ buffered \in BOOLEAN
    /\ meeting \in Meeting
    /\ transcript \in Seq(Segment)
    /\ facts \in Seq(1 .. segments)
    /\ hints \in Seq(Hint)
    /\ \A i \in DOMAIN todo : todo[i].op \in Ops
    /\ suspended \in Seq(Text)
    /\ {meetings, segments, inherited, failures} \subseteq Nat
    /\ tainted \in BOOLEAN

At(i, type) == timeline[i].type = type

(* When the microphone is off no audio is kept, whatever frames, wake       *)
(* detections and mode changes came before.                                 *)
MicOffKeepsNothing == state = "mic_off" => ~buffered

(* The mode a new process would take up is the mode there is.               *)
ModeSurvivesRestart == ~tainted => saved = state

(* The meeting, transcript and facts that a new process would rebuild from   *)
(* the timeline are those in memory, at every point of every handler and     *)
(* however transcripts overlap with the start and end of meetings.           *)
(* "Inspector data can be rebuilt from persisted events" (handoff/tasks/     *)
(* 08-meeting-store-timeline/TASK.md) holds no longer when the timeline is   *)
(* longer than the rebuild limit.                                            *)
ProjectionSurvivesRestart ==
    ~tainted => Rebuilt = [meeting |-> meeting, transcript |-> transcript, facts |-> facts]

(* Every fact comes from a segment of the transcript it is shown with, also *)
(* after a store failure or a restart.                                      *)
FactsAreTraceable ==
    \A i \in DOMAIN facts : \E j \in DOMAIN transcript : transcript[j].id = facts[i]

(* Whom the transcript shows as one speaker was named as one, and the other *)
(* way round, however transcripts overlap; but only among the segments of   *)
(* one process, since the next gives out the numbers anew, in meetings that *)
(* it takes up too, and not for segments without a name, which have the     *)
(* number of the first that was named.                                      *)
SpeakersAreToldApart ==
    \A i, j \in DOMAIN transcript :
        LET one == transcript[i]
            two == transcript[j]
        IN  /\ one.id > inherited /\ two.id > inherited
            /\ NoHint \notin {one.hint, two.hint}
            => (one.speaker = two.speaker <=> one.hint = two.hint)

(* A meeting starts only after the one before it has ended.                 *)
OneMeetingAtATime ==
    \A i, j \in DOMAIN timeline :
        i < j /\ At(i, "meeting.started") /\ At(j, "meeting.started") =>
            \E k \in i .. j : At(k, "meeting.ended") /\ timeline[k].data = timeline[i].data

\* What a new process would begin with, at every moment.
Record == INSTANCE MeetingRecord WITH
              meeting <- Rebuilt.meeting,
              transcript <- Rebuilt.transcript,
              facts <- Rebuilt.facts

(* What a new process would begin with changes as MeetingRecord says: by    *)
(* meetings that start when none goes on and end, segments and facts that   *)
(* are added, and never by a failure or a restart.                          *)
ImplementsRecord == Record!Spec

=============================================================================

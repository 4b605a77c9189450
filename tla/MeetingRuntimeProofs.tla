----------------------- MODULE MeetingRuntimeProofs -----------------------
(***************************************************************************)
(* What the runtime's session guarantees, for every set of modes, names    *)
(* and texts and for every bound.  The two properties of the mode are      *)
(* inductive as they stand.                                                *)
(*                                                                         *)
(* The properties of meetings, transcripts and facts are about two copies  *)
(* of them: the one in memory and the one that the timeline projects to.   *)
(* What a timeline projects to is a recursion over its events (Replay),    *)
(* which lemmas ReplayNext and ReplayPrefix, proved by induction, reduce   *)
(* to one event more.  Every step is then one of a few kinds: it shows in  *)
(* no projection (Quiet), it records one event of a meeting in memory and  *)
(* in the timeline, unless the store fails between the two (Records), or   *)
(* it is a restart.  On that rest the invariants: what is in memory is     *)
(* what the timeline projects to (SurvivalInv), facts have their segments  *)
(* in both copies (FactsInv), a meeting that is open in the timeline is    *)
(* the active one (MeetingsInv), and numbers of speakers are places in the *)
(* list of names (SpeakersInv).  With RecordInv, that no meeting in the    *)
(* timeline is newer than the one in memory, the runtime implements        *)
(* MeetingRecord.                                                          *)
(***************************************************************************)
EXTENDS MeetingRuntime, Induction

(* An operation that only writes the timeline leaves the mode alone, and a  *)
(* store failure in it is remembered.                                       *)
LEMMA EndsTaints ==
    ASSUME NEW event, NEW next, Ends(event, next)
    PROVE  tainted' = tainted \/ tainted' = TRUE
  BY DEF Ends

(* The steps other than ChangeState, Ingest and Restart keep the mode and   *)
(* the setting, and put nothing into the buffer.                            *)
LEMMA OtherSteps ==
    ASSUME Next,
           ~ChangeState,
           ~Restart,
           ~(\E checked, detected \in BOOLEAN : Ingest(checked, detected))
    PROVE  /\ UNCHANGED <<state, saved>>
           /\ buffered' = buffered \/ buffered' = FALSE
           /\ tainted' = tainted \/ tainted' = TRUE
  <1>1. CASE Emit
    BY <1>1, EndsTaints DEF Emit
  <1>2. CASE RejectTransition
    BY <1>2, EndsTaints DEF RejectTransition
  <1>3. CASE MeetingStarts
    BY <1>3, EndsTaints DEF MeetingStarts
  <1>4. CASE MeetingEnds
    BY <1>4, EndsTaints DEF MeetingEnds
  <1>5. CASE PartialSegment
    BY <1>5, EndsTaints DEF PartialSegment
  <1>6. CASE FinalSegment
    BY <1>6, EndsTaints DEF FinalSegment
  <1>7. CASE FactExtracted
    BY <1>7, EndsTaints DEF FactExtracted
  <1>8. CASE \/ \E to \in Requested : SetState(to)
             \/ \E text \in Spoken : Inject(text)
             \/ StartMeeting \/ EndMeeting \/ Resume \/ Note
    BY <1>8 DEF SetState, Inject, StartMeeting, EndMeeting, Resume, Note, durable
  <1>9. CASE UpdateSettings
    BY <1>9 DEF UpdateSettings, durable
  <1> QED
    BY <1>1, <1>2, <1>3, <1>4, <1>5, <1>6, <1>7, <1>8, <1>9 DEF Next, Operation

(* With the microphone off the runtime keeps no audio: set_state clears the *)
(* ring buffer, ingest_audio refuses frames, and a new process has none.    *)
THEOREM MicOffIsSilent == Spec => []MicOffKeepsNothing
  <1>1. Init => MicOffKeepsNothing
    BY DEF Init, MicOffKeepsNothing
  <1>2. MicOffKeepsNothing /\ [Next]_vars => MicOffKeepsNothing'
    <2> SUFFICES ASSUME MicOffKeepsNothing, [Next]_vars
                 PROVE  MicOffKeepsNothing'
      OBVIOUS
    <2>1. CASE ChangeState
      BY <2>1 DEF ChangeState, MicOffKeepsNothing
    <2>2. CASE \E checked, detected \in BOOLEAN : Ingest(checked, detected)
      BY <2>2 DEF Ingest, MicOffKeepsNothing
    <2>3. CASE Restart
      BY <2>3 DEF Restart, MicOffKeepsNothing
    <2>4. CASE Next /\ ~ChangeState /\ ~Restart
               /\ ~(\E checked, detected \in BOOLEAN : Ingest(checked, detected))
      BY <2>4, OtherSteps DEF MicOffKeepsNothing
    <2>5. CASE UNCHANGED vars
      BY <2>5 DEF vars, MicOffKeepsNothing
    <2> QED
      BY <2>1, <2>2, <2>3, <2>4, <2>5
  <1> QED
    BY <1>1, <1>2, PTL DEF Spec

(* The setting agent_state is the mode in memory, from every change of the  *)
(* mode on and across restarts, unless a store failure kept one of them     *)
(* from being written.                                                      *)
THEOREM ModeIsDurable == Spec => []ModeSurvivesRestart
  <1>1. Init => ModeSurvivesRestart
    BY DEF Init, ModeSurvivesRestart
  <1>2. ModeSurvivesRestart /\ [Next]_vars => ModeSurvivesRestart'
    <2> SUFFICES ASSUME ModeSurvivesRestart, [Next]_vars
                 PROVE  ModeSurvivesRestart'
      OBVIOUS
    <2>1. CASE ChangeState
      BY <2>1 DEF ChangeState, ModeSurvivesRestart
    <2>2. CASE \E checked, detected \in BOOLEAN : Ingest(checked, detected)
      BY <2>2 DEF Ingest, ModeSurvivesRestart, durable
    <2>3. CASE Restart
      BY <2>3 DEF Restart, ModeSurvivesRestart, durable
    <2>4. CASE Next /\ ~ChangeState /\ ~Restart
               /\ ~(\E checked, detected \in BOOLEAN : Ingest(checked, detected))
      BY <2>4, OtherSteps DEF ModeSurvivesRestart
    <2>5. CASE UNCHANGED vars
      BY <2>5 DEF vars, ModeSurvivesRestart
    <2> QED
      BY <2>1, <2>2, <2>3, <2>4, <2>5
  <1> QED
    BY <1>1, <1>2, PTL DEF Spec

-----------------------------------------------------------------------------
Replays(p, tl, n) ==
    p = [i \in 0 .. n |-> IF i = 0 THEN EmptyProjection ELSE Project(p[i - 1], tl[i])]

(* What the timeline holds up to event n projects to.                       *)
Replay(tl, n) ==
    LET p[i \in 0 .. n] == IF i = 0 THEN EmptyProjection ELSE Project(p[i - 1], tl[i])
    IN  p[n]

(* Segments numbered up to n, and what can be made of them.                 *)
SegmentUpTo(n) == [id : 1 .. n, meeting : Nat, speaker : Nat, hint : Hint \cup {NoHint}]
Projection(n)  == [meeting : Meeting, transcript : Seq(SegmentUpTo(n)), facts : Seq(1 .. n)]

(* Events that no projection reads, and all events.                         *)
PassiveEvent == [type : {"other"}, data : {<<>>}]
                \cup [type : {"agent.state_changed"}, data : AgentState \X AgentState]
                \cup [type : {"meeting.summary_created"}, data : Nat \X Nat]

StoredEvent(n) == PassiveEvent
                  \cup [type : {"meeting.started", "meeting.ended"}, data : Nat]
                  \cup [type : {"transcript.final"}, data : SegmentUpTo(n)]
                  \cup [type : {"meeting.fact_extracted"}, data : 1 .. n]

(* The operations that handlers are made of.                                *)
Reason == {"ui_command", "activation", "deactivation", "meeting_started", "meeting_ended"}

TodoItem(n) == [op : {"state"}, to : AgentState, reason : Reason]
               \cup [op : {"emit"}, event : PassiveEvent]
               \cup [op : {"start", "end"}]
               \cup [op : {"partial", "final"}, text : Text]
               \cup [op : {"fact"}, segment : 1 .. n]

(* The copy in memory, and the copy a new process would make if it read the *)
(* whole timeline.                                                          *)
Pack(m, t, f) == [meeting |-> m, transcript |-> t, facts |-> f]
Memory == Pack(meeting, transcript, facts)
Known == Replay(timeline, Len(timeline))

(* The types of the state; a meeting that is to end is there.               *)
ModesTyped ==
    /\ saved \in AgentState /\ state \in AgentState
    /\ meetings \in Nat /\ segments \in Nat /\ inherited \in Nat /\ failures \in Nat
    /\ hints \in Seq(Hint)
    /\ suspended \in Seq(Text)

FlagsTyped == buffered \in BOOLEAN /\ tainted \in BOOLEAN

RecordsTyped ==
    /\ timeline \in Seq(StoredEvent(segments))
    /\ Memory \in Projection(segments)
    /\ todo \in Seq(TodoItem(segments))
    /\ \A i \in DOMAIN todo : todo[i].op = "end" => meeting # NoMeeting
    /\ \A n \in 0 .. Len(timeline) : Replay(timeline, n) \in Projection(segments)

TypeInv == ModesTyped /\ FlagsTyped /\ RecordsTyped

(* What a call leaves to do.                                                *)
Fresh(list) ==
    /\ list \in Seq(TodoItem(segments))
    /\ \A i \in DOMAIN list :
          /\ list[i].op # "fact"
          /\ list[i].op = "start" => i = 1 /\ ~meeting.active
          /\ list[i].op = "end" => meeting # NoMeeting

(* An operation leaves to do what came after it, and more that meetings are *)
(* no part of.                                                              *)
GoesOn ==
    \A i \in DOMAIN todo' : \/ todo'[i].op \in {"state", "emit"}
                            \/ \E j \in 2 .. Len(todo) : todo'[i] = todo[j]

(* An operation records an event: it changes memory as the projection of    *)
(* the event does, or stops at a store failure.                             *)
Records(e) ==
    /\ tainted' = tainted \/ tainted' = TRUE
    /\ \/ timeline' = Append(timeline, e) /\ Memory' = Project(Memory, e)
       \/ /\ timeline' = timeline /\ Memory' \in {Memory, Project(Memory, e)}
          /\ tainted' = TRUE /\ todo' = <<>>

(* A step that no projection shows.                                         *)
Quiet ==
    /\ UNCHANGED <<projection, counters>>
    /\ \/ UNCHANGED timeline
       \/ \E e \in PassiveEvent : timeline' = Append(timeline, e)
    /\ tainted' = tainted \/ tainted' = TRUE
    /\ todo' \in Seq(TodoItem(segments))
    /\ GoesOn \/ Fresh(todo')

(* The segments of a projection, and that its facts come from them.         *)
Ids(p) == {p.transcript[i].id : i \in DOMAIN p.transcript}
Traced(p) == \A i \in DOMAIN p.facts : p.facts[i] \in Ids(p)

(* A meeting starts as the first thing a handler does, and no fact follows. *)
StartsFirst ==
    \A i \in DOMAIN todo :
        /\ todo[i].op = "start" => i = 1
        /\ todo[i].op = "fact" => todo[1].op # "start"

(* Facts are traced in memory, in what any part of the timeline projects    *)
(* to, and before they are made.                                            *)
FactsInv ==
    /\ StartsFirst
    /\ Traced(Memory)
    /\ \A n \in 0 .. Len(timeline) : Traced(Replay(timeline, n))
    /\ \A i \in DOMAIN todo :
          todo[i].op = "fact" => todo[i].segment \in Ids(Memory) \cap Ids(Known)

(* What is in memory is what the timeline projects to.                      *)
SurvivalInv ==
    Len(timeline) <= RebuildLimit /\ ~tainted => Known = Memory

(* A meeting that the timeline shows as started and not as ended.           *)
Open(i) ==
    /\ At(i, "meeting.started")
    /\ \A k \in i .. Len(timeline) :
          ~(At(k, "meeting.ended") /\ timeline[k].data = timeline[i].data)

(* A meeting that is to start finds none that is active, and a meeting that *)
(* is open is the active one, in both copies.                               *)
StartsInactive == \A i \in DOMAIN todo : todo[i].op = "start" => ~meeting.active

OpenIsKnown ==
    \A i \in DOMAIN timeline :
        Open(i) => /\ meeting.id = timeline[i].data /\ meeting.active
                   /\ Known.meeting.id = timeline[i].data /\ Known.meeting.active

MeetingsInv ==
    Len(timeline) <= RebuildLimit => OneMeetingAtATime /\ StartsInactive /\ OpenIsKnown

(* The number of a speaker that this process named is the place of the name *)
(* in the list of names.                                                    *)
SpeakersInv ==
    /\ inherited <= segments
    /\ \A i, j \in DOMAIN hints : hints[i] = hints[j] => i = j
    /\ \A i \in DOMAIN transcript :
          transcript[i].id > inherited /\ transcript[i].hint # NoHint =>
              /\ transcript[i].speaker \in DOMAIN hints
              /\ hints[transcript[i].speaker] = transcript[i].hint

(* A meeting that the timeline projects to and that goes on is the one in   *)
(* memory, and none that it projects to is newer.                           *)
RecordInv ==
    Len(timeline) <= RebuildLimit =>
        /\ Known.meeting.active => meeting = Known.meeting
        /\ Known.meeting.id <= meeting.id /\ meeting.id <= meetings

-----------------------------------------------------------------------------
(* The projection of a timeline, event by event.                            *)

(* Every part of every timeline projects to something.                      *)
LEMMA ReplayExists ==
    ASSUME NEW tl
    PROVE  \A n \in Nat : \E p : Replays(p, tl, n)
<1> DEFINE T == {n \in Nat : \E p : Replays(p, tl, n)}
<1>1. 0 \in T
  <2> DEFINE p == [i \in 0 .. 0 |-> EmptyProjection]
  <2>1. Replays(p, tl, 0)
    BY DEF Replays
  <2> QED
    BY <2>1
<1>2. ASSUME NEW n \in Nat, n \in T PROVE n + 1 \in T
  <2>1. PICK p : Replays(p, tl, n)
    BY <1>2
  <2> DEFINE q == [i \in 0 .. n + 1 |-> IF i = n + 1 THEN Project(p[n], tl[n + 1]) ELSE p[i]]
  <2>2. Replays(q, tl, n + 1)
    <3>1. \A i \in 0 .. n : q[i] = p[i]
      OBVIOUS
    <3>2. \A i \in 0 .. n : p[i] = IF i = 0 THEN EmptyProjection ELSE Project(p[i - 1], tl[i])
      BY <2>1 DEF Replays
    <3>3. \A i \in 0 .. n + 1 :
             q[i] = IF i = 0 THEN EmptyProjection ELSE Project(q[i - 1], tl[i])
      <4> TAKE i \in 0 .. n + 1
      <4>1. CASE i = n + 1
        BY <4>1, <3>1
      <4>2. CASE i \in 0 .. n
        <5> HIDE DEF q
        <5>1. i # 0 => q[i - 1] = p[i - 1]
          BY <4>2, <3>1
        <5> QED
        BY <4>2, <5>1, <3>1, <3>2
      <4> QED
        BY <4>1, <4>2
    <3> QED
      BY <3>3 DEF Replays
  <2> QED
    BY <2>2
<1> HIDE DEF T
<1>3. Nat \subseteq T
  BY <1>1, <1>2, Induction
<1> QED
  BY <1>3 DEF T

(* Two timelines that begin alike project alike that far.                   *)
LEMMA ReplayAgrees ==
    ASSUME NEW tl, NEW tm, NEW p, NEW q, NEW k \in Nat, NEW n \in Nat, k <= n,
           Replays(p, tl, k), Replays(q, tm, n),
           \A i \in 1 .. k : tl[i] = tm[i]
    PROVE  p[k] = q[k]
<1> DEFINE T == {i \in Nat : i <= k => p[i] = q[i]}
<1>1. 0 \in T
  BY DEF Replays
<1>2. ASSUME NEW i \in Nat, i \in T PROVE i + 1 \in T
  <2> SUFFICES ASSUME i + 1 <= k PROVE p[i + 1] = q[i + 1]
    OBVIOUS
  <2>1. p[i] = q[i]
    BY <1>2
  <2>2. p[i + 1] = Project(p[i], tl[i + 1]) /\ q[i + 1] = Project(q[i], tm[i + 1])
    BY DEF Replays
  <2> QED
    BY <2>1, <2>2
<1> HIDE DEF T
<1>3. Nat \subseteq T
  BY <1>1, <1>2, Induction
<1> QED
  BY <1>3 DEF T

(* No event projects to nothing.                                            *)
LEMMA ReplayFirst == \A tl : Replay(tl, 0) = EmptyProjection
<1> TAKE tl
<1> DEFINE p == CHOOSE z : Replays(z, tl, 0)
<1>1. Replays(p, tl, 0)
  BY ReplayExists
<1> QED
  BY <1>1 DEF Replay, Replays

(* One event more is projected on what came before it.                      *)
LEMMA ReplayNext ==
    \A tl : \A n \in Nat : Replay(tl, n + 1) = Project(Replay(tl, n), tl[n + 1])
<1> TAKE tl
<1> TAKE n \in Nat
<1> PICK m \in Nat : m = n + 1
  OBVIOUS
<1> DEFINE p == CHOOSE z : Replays(z, tl, n)
           q == CHOOSE z : Replays(z, tl, m)
<1>1. Replays(p, tl, n) /\ Replays(q, tl, m)
  BY ReplayExists
<1> HIDE DEF p, q
<1>2. p[n] = q[n]
  <2>1. n <= m
    OBVIOUS
  <2> QED
    BY <1>1, <2>1, ReplayAgrees, SMTT(60)
<1>3. q[m] = Project(q[n], tl[m])
  BY <1>1 DEF Replays
<1> QED
  BY <1>2, <1>3 DEF Replay, Replays, p, q

(* Only the events that are read count.                                     *)
LEMMA ReplayPrefix ==
    \A tl, tm : \A n \in Nat :
       (\A i \in 1 .. n : tl[i] = tm[i]) => Replay(tl, n) = Replay(tm, n)
<1> TAKE tl, tm
<1> TAKE n \in Nat
<1> DEFINE p == CHOOSE z : Replays(z, tl, n)
           q == CHOOSE z : Replays(z, tm, n)
<1>1. Replays(p, tl, n) /\ Replays(q, tm, n)
  BY ReplayExists
<1> HIDE DEF p, q
<1>2. (\A i \in 1 .. n : tl[i] = tm[i]) => p[n] = q[n]
  BY <1>1, ReplayAgrees
<1> QED
  BY <1>2 DEF Replay, Replays, p, q

-----------------------------------------------------------------------------
(* The shapes of events and of what is to do.                               *)

(* A timeline that grows keeps the projections of its parts.                *)
LEMMA ReplayGrows ==
    ASSUME NEW S, NEW tl \in Seq(S), NEW e \in S
    PROVE  LET tm == Append(tl, e)
           IN  /\ Len(tm) = Len(tl) + 1
               /\ \A n \in 0 .. Len(tl) : Replay(tm, n) = Replay(tl, n)
               /\ Replay(tm, Len(tm)) = Project(Replay(tl, Len(tl)), e)
<1> DEFINE tm == Append(tl, e)
<1>1. Len(tl) \in Nat /\ Len(tm) = Len(tl) + 1 /\ tm[Len(tl) + 1] = e
  OBVIOUS
<1>2. \A i \in 1 .. Len(tl) : tm[i] = tl[i]
  OBVIOUS
<1> HIDE DEF tm
<1>3. \A n \in 0 .. Len(tl) : Replay(tm, n) = Replay(tl, n)
  <2> TAKE n \in 0 .. Len(tl)
  <2>1. n \in Nat /\ \A i \in 1 .. n : tm[i] = tl[i]
    BY <1>1, <1>2
  <2> QED
    BY <2>1, ReplayPrefix
<1>4. Replay(tm, Len(tl) + 1) = Project(Replay(tm, Len(tl)), e)
  BY <1>1, ReplayNext
<1>5. Replay(tm, Len(tl)) = Replay(tl, Len(tl))
  BY <1>1, <1>3
<1> QED
  BY <1>1, <1>3, <1>4, <1>5 DEF tm

(* What an operation that is to do carries.                                 *)
LEMMA ItemShapes ==
    \A n : \A x \in TodoItem(n) :
        /\ x.op \in Ops
        /\ x.op = "state" => x.to \in AgentState
        /\ x.op = "emit" => x.event \in PassiveEvent
        /\ x.op \in {"partial", "final"} => x.text \in Text
        /\ x.op = "fact" => x.segment \in 1 .. n
BY DEF TodoItem, Ops

(* What a stored event carries.                                             *)
LEMMA EventShapes ==
    \A n : \A x \in StoredEvent(n) :
        /\ x.type \in EventType
        /\ x \notin PassiveEvent =>
              x.type \notin {"other", "agent.state_changed", "meeting.summary_created"}
        /\ x.type \in {"meeting.started", "meeting.ended"} => x.data \in Nat
        /\ x.type = "transcript.final" => x.data \in SegmentUpTo(n)
        /\ x.type = "meeting.fact_extracted" => x.data \in 1 .. n
BY DEF StoredEvent, PassiveEvent, EventType

(* The events that no projection reads.                                     *)
LEMMA PassiveEvents ==
    /\ Other \in PassiveEvent
    /\ \A a, b \in AgentState : Changed(a, b) \in PassiveEvent
    /\ \A a, b \in Nat : Event("meeting.summary_created", <<a, b>>) \in PassiveEvent
    /\ \A e \in PassiveEvent : \A p : Project(p, e) = p
BY DEF PassiveEvent, Other, Changed, Event, Project

(* The operations that handlers are made of.                                *)
LEMMA Items ==
    ASSUME NEW n
    PROVE  /\ \A e \in PassiveEvent : Emission(e) \in TodoItem(n)
           /\ \A to \in AgentState : \A reason \in Reason : StateChange(to, reason) \in TodoItem(n)
           /\ [op |-> "start"] \in TodoItem(n) /\ [op |-> "end"] \in TodoItem(n)
           /\ \A t \in Text : /\ [op |-> "partial", text |-> t] \in TodoItem(n)
                              /\ [op |-> "final", text |-> t] \in TodoItem(n)
           /\ \A s \in 1 .. n : [op |-> "fact", segment |-> s] \in TodoItem(n)
BY DEF TodoItem, Emission, StateChange

(* What holds up to one number of segments holds up to a greater one.       *)
LEMMA Monotone ==
    ASSUME NEW n \in Nat, NEW m \in Nat, n <= m
    PROVE  /\ StoredEvent(n) \subseteq StoredEvent(m)
           /\ TodoItem(n) \subseteq TodoItem(m)
           /\ \A s \in Seq(StoredEvent(n)) : s \in Seq(StoredEvent(m))
           /\ \A s \in Seq(TodoItem(n)) : s \in Seq(TodoItem(m))
           /\ Projection(n) \subseteq Projection(m)
<1>1. 1 .. n \subseteq 1 .. m
  OBVIOUS
<1>2. SegmentUpTo(n) \subseteq SegmentUpTo(m)
  BY <1>1 DEF SegmentUpTo
<1>3. StoredEvent(n) \subseteq StoredEvent(m) /\ TodoItem(n) \subseteq TodoItem(m)
  BY <1>1, <1>2 DEF StoredEvent, TodoItem
<1>4. \A A, B : A \subseteq B => \A s \in Seq(A) : s \in Seq(B)
  OBVIOUS
<1> HIDE DEF Projection
<1>5. Projection(n) \subseteq Projection(m)
  BY <1>1, <1>2, <1>4 DEF Projection
<1> QED
  BY <1>3, <1>4, <1>5

-----------------------------------------------------------------------------
(* Operations that no projection shows.                                     *)

(* The head and the tail of a list.                                         *)
LEMMA Lists ==
    ASSUME NEW S, NEW s \in Seq(S), s # <<>>
    PROVE  /\ Head(s) = s[1] /\ Head(s) \in S /\ Len(s) \in Nat /\ Len(s) >= 1
           /\ Tail(s) \in Seq(S) /\ Len(Tail(s)) = Len(s) - 1
           /\ \A i \in DOMAIN Tail(s) : i + 1 \in 2 .. Len(s) /\ Tail(s)[i] = s[i + 1]
OBVIOUS

(* A handler goes on with new operations and then with its own.             *)
LEMMA TailGoesOn ==
    ASSUME TypeInv, todo # <<>>, NEW new \in Seq(TodoItem(segments)),
           \A i \in DOMAIN new : new[i].op \in {"state", "emit"},
           todo' \in {<<>>, new, new \o Tail(todo)}
    PROVE  todo' \in Seq(TodoItem(segments)) /\ GoesOn
<1>1. todo \in Seq(TodoItem(segments)) /\ <<>> \in Seq(TodoItem(segments))
  BY DEF TypeInv, RecordsTyped
<1>2. CASE todo' = <<>>
  BY <1>1, <1>2 DEF GoesOn
<1>3. CASE todo' = new
  BY <1>3 DEF GoesOn
<1>4. CASE todo' = new \o Tail(todo)
  <2> PICK rest \in Seq(TodoItem(segments)) :
         /\ rest = Tail(todo)
         /\ \A i \in DOMAIN rest : i + 1 \in 2 .. Len(todo) /\ rest[i] = todo[i + 1]
    <3>1. Tail(todo) \in Seq(TodoItem(segments))
      BY <1>1, Lists
    <3>2. \A i \in DOMAIN Tail(todo) : i + 1 \in 2 .. Len(todo) /\ Tail(todo)[i] = todo[i + 1]
      BY <1>1, Lists
    <3> QED
      BY <3>1, <3>2
  <2> PICK list : list = todo'
    OBVIOUS
  <2>1. list = new \o rest
    BY <1>4
  <2>2. list \in Seq(TodoItem(segments))
    BY <2>1
  <2>3. \A i \in DOMAIN list : \/ i \in DOMAIN new /\ list[i] = new[i]
                               \/ i - Len(new) \in DOMAIN rest /\ list[i] = rest[i - Len(new)]
    BY <2>1
  <2>4. \A i \in DOMAIN list : \/ list[i].op \in {"state", "emit"}
                               \/ \E j \in 2 .. Len(todo) : list[i] = todo[j]
    <3> TAKE i \in DOMAIN list
    <3>1. CASE i \in DOMAIN new /\ list[i] = new[i]
      BY <3>1
    <3>2. CASE i - Len(new) \in DOMAIN rest /\ list[i] = rest[i - Len(new)]
      BY <3>2
    <3> QED
      BY <3>1, <3>2, <2>3
  <2> QED
    BY <2>2, <2>4 DEF GoesOn
<1> QED
  BY <1>2, <1>3, <1>4

(* A handler goes on, or is over.                                           *)
LEMMA TailOnly ==
    ASSUME TypeInv, todo # <<>>, todo' \in {<<>>, Tail(todo)}
    PROVE  todo' \in Seq(TodoItem(segments)) /\ GoesOn
<1>1. todo \in Seq(TodoItem(segments)) /\ <<>> \in Seq(TodoItem(segments))
  BY DEF TypeInv, RecordsTyped
<1>2. CASE todo' = <<>>
  BY <1>1, <1>2 DEF GoesOn
<1>3. CASE todo' = Tail(todo)
  BY <1>1, <1>3, Lists DEF GoesOn
<1> QED
  BY <1>2, <1>3

(* What is done next is an operation.                                       *)
LEMMA HeadItem ==
    ASSUME TypeInv, todo # <<>>
    PROVE  Head(todo) \in TodoItem(segments)
BY Lists DEF TypeInv, RecordsTyped

(* Changes of mode, emissions and partial segments are in no projection.    *)
LEMMA QuietOperations ==
    ASSUME TypeInv, Emit \/ RejectTransition \/ ChangeState \/ PartialSegment
    PROVE  Quiet
<1>1. CASE Emit
  <2>1. Head(todo).event \in PassiveEvent /\ todo' \in {<<>>, Tail(todo)} /\ todo # <<>>
    BY <1>1, HeadItem, ItemShapes DEF Emit, Running, Ends
  <2>2. \/ timeline' = timeline
        \/ timeline' = Append(timeline, Head(todo).event)
    BY <1>1 DEF Emit, Ends
  <2>3. UNCHANGED <<projection, counters>> /\ (tainted' = tainted \/ tainted' = TRUE)
    BY <1>1 DEF Emit, Ends
  <2> QED
    BY <2>1, <2>2, <2>3, TailOnly DEF Quiet
<1>2. CASE RejectTransition
  <2>1. todo' \in {<<>>, Tail(todo)} /\ todo # <<>>
    BY <1>2 DEF RejectTransition, Running, Ends
  <2>2. \/ timeline' = timeline
        \/ timeline' = Append(timeline, Other)
    BY <1>2 DEF RejectTransition, Ends
  <2>3. UNCHANGED <<projection, counters>> /\ (tainted' = tainted \/ tainted' = TRUE)
    BY <1>2 DEF RejectTransition, Ends
  <2> QED
    BY <2>1, <2>2, <2>3, TailOnly, PassiveEvents DEF Quiet
<1>3. CASE ChangeState
  <2> DEFINE new == <<Emission(Changed(state, state'))>>
  <2>1. todo # <<>> /\ todo' \in {<<>>, new, new \o Tail(todo)}
    BY <1>3 DEF ChangeState, Running
  <2>2. state \in AgentState /\ state' \in AgentState
    BY <1>3, HeadItem, ItemShapes DEF ChangeState, Running, TypeInv, ModesTyped
  <2>3. Emission(Changed(state, state')) \in TodoItem(segments)
    BY <2>2, PassiveEvents, Items
  <2>4. new \in Seq(TodoItem(segments)) /\ \A i \in DOMAIN new : new[i].op \in {"state", "emit"}
    BY <2>3 DEF Emission
  <2> HIDE DEF new
  <2>5. todo' \in Seq(TodoItem(segments)) /\ GoesOn
    BY <2>1, <2>4, TailGoesOn
  <2>6. /\ UNCHANGED <<projection, counters, timeline>>
        /\ tainted' = tainted \/ tainted' = TRUE
    BY <1>3 DEF ChangeState
  <2> QED
    BY <2>5, <2>6 DEF Quiet
<1>4. CASE PartialSegment
  <2>1. todo' = <<>> /\ todo # <<>>
    BY <1>4 DEF PartialSegment, Running, Ends
  <2>2. \/ timeline' = timeline
        \/ timeline' = Append(timeline, Other)
    BY <1>4 DEF PartialSegment, Ends
  <2>3. UNCHANGED <<projection, counters>> /\ (tainted' = tainted \/ tainted' = TRUE)
    BY <1>4 DEF PartialSegment, Ends
  <2> QED
    BY <2>1, <2>2, <2>3, TailOnly, PassiveEvents DEF Quiet
<1> QED
  BY <1>1, <1>2, <1>3, <1>4

-----------------------------------------------------------------------------
(* Calls.                                                                   *)

Calls ==
    \/ \E to \in Requested : SetState(to)
    \/ \E checked, detected \in BOOLEAN : Ingest(checked, detected)
    \/ StartMeeting \/ EndMeeting \/ Resume \/ Note \/ UpdateSettings
    \/ \E text \in Spoken : Inject(text)

(* A handler of one operation.                                              *)
LEMMA FreshOne ==
    ASSUME NEW x \in TodoItem(segments), x.op # "fact",
           x.op = "start" => ~meeting.active,
           x.op = "end" => meeting # NoMeeting
    PROVE  Fresh(<<x>>)
BY DEF Fresh

(* A handler that neither starts nor ends a meeting.                        *)
LEMMA FreshMany ==
    ASSUME NEW s \in Seq(TodoItem(segments)),
           \A i \in DOMAIN s : s[i].op \in {"state", "emit", "partial", "final"}
    PROVE  Fresh(s)
BY DEF Fresh

(* A call leaves a list of operations of its own.                           *)
LEMMA CallsAreFresh ==
    ASSUME TypeInv, Calls
    PROVE  Fresh(todo')
<1> USE DEF Say
<1>1. /\ Emission(Other) \in TodoItem(segments) /\ Emission(Other).op = "emit"
      /\ \A to \in AgentState : \A reason \in Reason :
            /\ StateChange(to, reason) \in TodoItem(segments)
            /\ StateChange(to, reason).op = "state"
  BY Items, PassiveEvents DEF Emission, StateChange
<1>2. Requested \subseteq AgentState /\ Spoken \subseteq Text
  BY InputAssumption
<1> PICK list : list = todo'
  OBVIOUS
<1>3. CASE \E to \in Requested : SetState(to)
  <2> PICK to \in AgentState : todo' = <<StateChange(to, "ui_command")>>
    BY <1>2, <1>3 DEF SetState
  <2>1. StateChange(to, "ui_command") \in TodoItem(segments)
    BY <1>1 DEF Reason
  <2>2. StateChange(to, "ui_command").op = "state"
    BY DEF StateChange
  <2> QED
    BY <2>1, <2>2, FreshOne
<1>4. CASE \E checked, detected \in BOOLEAN : Ingest(checked, detected)
  <2> PICK checked \in BOOLEAN, detected \in BOOLEAN : Ingest(checked, detected)
    BY <1>4
  <2> DEFINE change == IF state = "interactive" THEN StateChange("standby", "deactivation")
                       ELSE StateChange("interactive", "activation")
             say == Emission(Other)
  <2>1. change \in TodoItem(segments) /\ change.op = "state"
    <3>1. "standby" \in AgentState /\ "interactive" \in AgentState
      BY DEF AgentState
    <3>2. /\ StateChange("standby", "deactivation") \in TodoItem(segments)
          /\ StateChange("interactive", "activation") \in TodoItem(segments)
      BY <1>1, <3>1 DEF Reason
    <3> QED
      BY <3>2 DEF StateChange
  <2>2. say \in TodoItem(segments) /\ say.op = "emit"
    BY <1>1
  <2>3. list = <<say>> \o (IF checked THEN <<say>> ELSE <<>>)
               \o (IF ~detected THEN <<>> ELSE <<say, change>>)
    BY DEF Ingest
  <2> HIDE DEF say, change
  <2>4. list \in Seq(TodoItem(segments))
    BY <2>1, <2>2, <2>3
  <2>5. \A i \in DOMAIN list : list[i] \in {say, change}
    BY <2>3
  <2> QED
    BY <2>1, <2>2, <2>4, <2>5, FreshMany
<1>5. CASE StartMeeting
  <2>1. ~meeting.active /\ todo' = <<[op |-> "start"]>>
    BY <1>5 DEF StartMeeting
  <2> QED
    BY <2>1, Items, FreshOne
<1>6. CASE EndMeeting
  <2> DEFINE x == Emission(Event("meeting.summary_created", <<meeting.id, Len(transcript)>>))
             y == [op |-> "end"]
  <2>1. meeting.id \in Nat /\ Len(transcript) \in Nat
    BY DEF TypeInv, RecordsTyped, Memory, Pack, Projection, Meeting
  <2>2. x \in TodoItem(segments) /\ x.op = "emit" /\ y \in TodoItem(segments) /\ y.op = "end"
    BY <2>1, PassiveEvents, Items DEF Emission
  <2>3. list = <<x, y>> /\ meeting # NoMeeting
    BY <1>6 DEF EndMeeting
  <2> HIDE DEF x, y
  <2>4. Fresh(list)
    BY <2>2, <2>3 DEF Fresh
  <2> QED
    BY <2>4
<1>7. CASE Resume
  <2>1. Head(suspended) \in Text
    BY <1>7, Lists DEF Resume, TypeInv, ModesTyped
  <2>2. todo' = <<[op |-> "final", text |-> Head(suspended)]>>
    BY <1>7 DEF Resume
  <2> QED
    BY <2>1, <2>2, Items, FreshOne
<1>8. CASE Note
  BY <1>1, <1>8, FreshOne DEF Note
<1>9. CASE UpdateSettings
  <2>1. list = <<Emission(Other)>> \/ list = <<>>
    BY <1>9 DEF UpdateSettings
  <2>2. Fresh(<<>>)
    BY DEF Fresh
  <2> QED
    BY <1>1, <2>1, <2>2, FreshOne
<1>10. CASE \E text \in Spoken : Inject(text)
  <2> PICK text \in Spoken : Inject(text)
    BY <1>10
  <2> DEFINE x == [op |-> "start"]
             y == [op |-> "partial", text |-> text]
  <2>1. x \in TodoItem(segments) /\ x.op = "start" /\ y \in TodoItem(segments) /\ y.op = "partial"
    BY <1>2, Items
  <2>2. list = (IF meeting.active THEN <<>> ELSE <<x>>) \o <<y>>
    BY DEF Inject
  <2> HIDE DEF x, y
  <2>3. CASE meeting.active
    <3>1. list = <<y>>
      BY <2>2, <2>3
    <3> QED
      BY <3>1, <2>1, FreshOne
  <2>4. CASE ~meeting.active
    <3>1. list = <<x>> \o <<y>>
      BY <2>2, <2>4
    <3>2. /\ list \in Seq(TodoItem(segments))
          /\ Len(list) = 2 /\ list[1] = x /\ list[2] = y
      BY <3>1, <2>1
    <3>3. Fresh(list)
      BY <3>2, <2>1, <2>4 DEF Fresh
    <3> QED
      BY <3>3
  <2> QED
    BY <2>3, <2>4
<1> QED
  BY <1>3, <1>4, <1>5, <1>6, <1>7, <1>8, <1>9, <1>10 DEF Calls

(* A call changes nothing that a projection shows.                          *)
LEMMA CallsAreQuiet ==
    ASSUME TypeInv, Calls
    PROVE  Quiet
<1>1. UNCHANGED <<projection, counters, timeline, tainted>>
  BY DEF Calls, SetState, Ingest, StartMeeting, EndMeeting, Inject, Resume, Note,
     UpdateSettings, durable
<1> QED
  BY <1>1, CallsAreFresh DEF Quiet, Fresh

(* The steps, by what they do to memory.                                    *)
LEMMA Steps ==
    ASSUME TypeInv, Next
    PROVE  \/ Quiet \/ MeetingStarts \/ MeetingEnds \/ FinalSegment \/ FactExtracted
           \/ Restart
BY QuietOperations, CallsAreQuiet DEF Next, Operation, Calls

-----------------------------------------------------------------------------
(* Operations that record an event of a meeting.                            *)

(* What the events of meetings do to a projection.                          *)
LEMMA ProjectCases ==
    \A m, t, f, d :
        /\ Project(Pack(m, t, f), Event("meeting.started", d)) =
              Pack([id |-> d, active |-> TRUE], <<>>, <<>>)
        /\ m # NoMeeting => Project(Pack(m, t, f), Event("meeting.ended", d)) =
                               Pack([id |-> d, active |-> FALSE], t, f)
        /\ Project(Pack(m, t, f), Event("transcript.final", d)) = Pack(m, Append(t, d), f)
        /\ Project(Pack(m, t, f), Event("meeting.fact_extracted", d)) = Pack(m, t, Append(f, d))
<1> TAKE m, t, f, d
<1> DEFINE p == Pack(m, t, f)
<1>1. p.meeting = m /\ p.transcript = t /\ p.facts = f
  BY DEF Pack
<1>2. Project(p, Event("meeting.started", d)) = Pack([id |-> d, active |-> TRUE], <<>>, <<>>)
  BY DEF Project, Event, EmptyProjection, Pack
<1>3. m # NoMeeting => Project(p, Event("meeting.ended", d)) =
                          Pack([id |-> d, active |-> FALSE], t, f)
  BY DEF Project, Event, Pack
<1>4. Project(p, Event("transcript.final", d)) = Pack(m, Append(t, d), f)
  BY DEF Project, Event, Pack
<1>5. Project(p, Event("meeting.fact_extracted", d)) = Pack(m, t, Append(f, d))
  BY DEF Project, Event, Pack
<1> QED
  BY <1>2, <1>3, <1>4, <1>5

(* The end of no meeting changes nothing.                                   *)
LEMMA NothingEnds ==
    \A p, d : p.meeting = NoMeeting => Project(p, Event("meeting.ended", d)) = p
BY DEF Project, Event

(* A projection is a meeting, a transcript and facts.                       *)
LEMMA PackTyped ==
    ASSUME NEW n, NEW m \in Meeting, NEW t \in Seq(SegmentUpTo(n)), NEW f \in Seq(1 .. n)
    PROVE  Pack(m, t, f) \in Projection(n)
BY DEF Projection, Pack

(* The parts of a projection.                                               *)
LEMMA Unpacked ==
    /\ \A n : \A p \in Projection(n) :
          /\ p.meeting \in Meeting /\ p.transcript \in Seq(SegmentUpTo(n))
          /\ p.facts \in Seq(1 .. n)
          /\ p = Pack(p.meeting, p.transcript, p.facts)
    /\ \A m, t, f : /\ Pack(m, t, f).meeting = m /\ Pack(m, t, f).transcript = t
                    /\ Pack(m, t, f).facts = f
BY DEF Projection, Pack

(* A meeting that ends keeps its number.                                    *)
LEMMA EndedMeeting ==
    ASSUME NEW m \in Meeting
    PROVE  [m EXCEPT !.active = FALSE] = [id |-> m.id, active |-> FALSE]
<1> PICK a, b : a = [m EXCEPT !.active = FALSE] /\ b = [id |-> m.id, active |-> FALSE]
  OBVIOUS
<1>1. a.id = b.id /\ a.active = b.active
  BY DEF Meeting
<1>2. a \in Meeting /\ b \in Meeting
  BY DEF Meeting
<1>3. a = b
  BY <1>1, <1>2 DEF Meeting
<1> QED
  BY <1>3

(* The events there are.                                                    *)
LEMMA EventCases ==
    ASSUME NEW n, NEW e \in StoredEvent(n)
    PROVE  \/ e \in PassiveEvent
           \/ \E d \in Nat : e \in {Event("meeting.started", d), Event("meeting.ended", d)}
           \/ \E d \in SegmentUpTo(n) : e = Event("transcript.final", d)
           \/ \E d \in 1 .. n : e = Event("meeting.fact_extracted", d)
<1>1. e.data = e.data /\ e.type = e.type
  OBVIOUS
<1>2. CASE e \in [type : {"meeting.started", "meeting.ended"}, data : Nat]
  BY <1>2 DEF Event
<1>3. CASE e \in [type : {"transcript.final"}, data : SegmentUpTo(n)]
  BY <1>3 DEF Event
<1>4. CASE e \in [type : {"meeting.fact_extracted"}, data : 1 .. n]
  BY <1>4 DEF Event
<1> QED
  BY <1>2, <1>3, <1>4 DEF StoredEvent

(* Events that can be stored.                                               *)
LEMMA EventsTyped ==
    ASSUME NEW n
    PROVE  /\ \A d \in Nat : /\ Event("meeting.started", d) \in StoredEvent(n)
                             /\ Event("meeting.ended", d) \in StoredEvent(n)
           /\ \A d \in SegmentUpTo(n) : Event("transcript.final", d) \in StoredEvent(n)
           /\ \A d \in 1 .. n : Event("meeting.fact_extracted", d) \in StoredEvent(n)
           /\ PassiveEvent \subseteq StoredEvent(n)
BY DEF StoredEvent, Event

(* A projection stays one with each event.                                  *)
LEMMA ProjectTyped ==
    ASSUME NEW n \in Nat, NEW p \in Projection(n), NEW e \in StoredEvent(n)
    PROVE  Project(p, e) \in Projection(n)
<1> PICK m \in Meeting, t \in Seq(SegmentUpTo(n)), f \in Seq(1 .. n) : p = Pack(m, t, f)
  BY Unpacked
<1>1. CASE e \in PassiveEvent
  BY <1>1, PassiveEvents
<1>2. ASSUME NEW d \in Nat, e = Event("meeting.started", d)
      PROVE  Project(p, e) \in Projection(n)
  <2>1. [id |-> d, active |-> TRUE] \in Meeting
    BY DEF Meeting
  <2>2. <<>> \in Seq(SegmentUpTo(n)) /\ <<>> \in Seq(1 .. n)
    OBVIOUS
  <2>3. Project(p, e) = Pack([id |-> d, active |-> TRUE], <<>>, <<>>)
    BY <1>2, ProjectCases
  <2> QED
    BY <2>1, <2>2, <2>3, PackTyped
<1>3. ASSUME NEW d \in Nat, e = Event("meeting.ended", d)
      PROVE  Project(p, e) \in Projection(n)
  <2>1. [id |-> d, active |-> FALSE] \in Meeting
    BY DEF Meeting
  <2>2. CASE m = NoMeeting
    <3>1. p.meeting = NoMeeting
      BY <2>2, Unpacked
    <3> QED
      BY <1>3, <3>1, NothingEnds
  <2>3. CASE m # NoMeeting
    BY <1>3, <2>1, <2>3, ProjectCases, PackTyped
  <2> QED
    BY <2>2, <2>3
<1>4. ASSUME NEW d \in SegmentUpTo(n), e = Event("transcript.final", d)
      PROVE  Project(p, e) \in Projection(n)
  <2>1. Append(t, d) \in Seq(SegmentUpTo(n))
    OBVIOUS
  <2>2. Project(p, e) = Pack(m, Append(t, d), f)
    BY <1>4, ProjectCases
  <2> QED
    BY <2>1, <2>2, PackTyped
<1>5. ASSUME NEW d \in 1 .. n, e = Event("meeting.fact_extracted", d)
      PROVE  Project(p, e) \in Projection(n)
  <2>1. Append(f, d) \in Seq(1 .. n)
    OBVIOUS
  <2>2. Project(p, e) = Pack(m, t, Append(f, d))
    BY <1>5, ProjectCases
  <2> QED
    BY <2>1, <2>2, PackTyped
<1> QED
  BY <1>1, <1>2, <1>3, <1>4, <1>5, EventCases

(* The start of a meeting: memory changes, and its event with it or not.    *)
LEMMA StartRecords ==
    ASSUME TypeInv, MeetingStarts
    PROVE  /\ Records(Event("meeting.started", meetings + 1))
           /\ meetings' = meetings + 1 /\ UNCHANGED <<segments, inherited, hints>>
           /\ Memory' = Pack([id |-> meetings + 1, active |-> TRUE], <<>>, <<>>)
           /\ todo # <<>> /\ Head(todo).op = "start"
           /\ todo' \in Seq(TodoItem(segments)) /\ GoesOn
<1>1. /\ meetings' = meetings + 1 /\ UNCHANGED <<segments, inherited, hints>>
      /\ Memory' = Pack([id |-> meetings + 1, active |-> TRUE], <<>>, <<>>)
      /\ todo # <<>> /\ Head(todo).op = "start"
  BY DEF MeetingStarts, Memory, Running, Pack
<1>2. Memory' = Project(Memory, Event("meeting.started", meetings + 1))
  BY <1>1, ProjectCases DEF Memory
<1>3. Records(Event("meeting.started", meetings + 1))
  BY <1>1, <1>2 DEF MeetingStarts, Ends, Records
<1>4. PICK change, new : /\ change = StateChange("transcribing", "meeting_started")
                         /\ new \in {<<>>, <<change>>}
                         /\ todo' \in {<<>>, new \o Tail(todo)}
  BY DEF MeetingStarts, Ends
<1>5. change \in TodoItem(segments) /\ change.op = "state"
  <2>1. StateChange("transcribing", "meeting_started") \in TodoItem(segments)
    BY Items DEF AgentState, Reason
  <2> QED
    BY <1>4, <2>1 DEF StateChange
<1>6. new \in Seq(TodoItem(segments)) /\ \A i \in DOMAIN new : new[i].op \in {"state", "emit"}
  <2>1. CASE new = <<>>
    BY <2>1
  <2>2. CASE new = <<change>>
    BY <2>2, <1>5
  <2> QED
    BY <1>4, <2>1, <2>2
<1> QED
  BY <1>1, <1>3, <1>4, <1>6, TailGoesOn

(* The end of a meeting: memory changes only with its event.                *)
LEMMA EndRecords ==
    ASSUME TypeInv, MeetingEnds
    PROVE  /\ Records(Event("meeting.ended", meeting.id))
           /\ UNCHANGED <<counters, hints, transcript>>
           /\ todo' \in Seq(TodoItem(segments))
           /\ \A i \in DOMAIN todo' : todo'[i].op = "state"
<1>1. /\ todo # <<>> /\ todo[1].op = "end" /\ 1 \in DOMAIN todo
      /\ meeting # NoMeeting /\ meeting \in Meeting
  <2>1. todo # <<>> /\ todo[1].op = "end" /\ 1 \in DOMAIN todo /\ meeting # NoMeeting
    BY Lists DEF TypeInv, RecordsTyped, Running, MeetingEnds
  <2>2. Memory.meeting \in Meeting
    BY Unpacked DEF TypeInv, RecordsTyped
  <2> QED
    BY <2>1, <2>2, Unpacked DEF Memory
<1>2. [id |-> meeting.id, active |-> FALSE] = [meeting EXCEPT !.active = FALSE]
  BY <1>1, EndedMeeting
<1>3. Project(Memory, Event("meeting.ended", meeting.id)) =
      Pack([meeting EXCEPT !.active = FALSE], transcript, facts)
  BY <1>1, <1>2, ProjectCases DEF Memory
<1>4. Records(Event("meeting.ended", meeting.id))
  <2>1. CASE failures' = failures
    <3>1. Memory' = Project(Memory, Event("meeting.ended", meeting.id))
      BY <1>3, <2>1 DEF MeetingEnds, Stored, Memory, Pack
    <3>2. timeline' = Append(timeline, Event("meeting.ended", meeting.id)) /\ tainted' = tainted
      BY <2>1 DEF MeetingEnds, Ends, TypeInv, ModesTyped
    <3> QED
      BY <3>1, <3>2 DEF Records
  <2>2. CASE failures' # failures
    <3>1. Memory' = Memory
      BY <2>2 DEF MeetingEnds, Stored, Memory, Pack
    <3> QED
      BY <2>2, <3>1 DEF MeetingEnds, Ends, Records
  <2> QED
    BY <2>1, <2>2
<1>5. PICK change, new : /\ change = StateChange("standby", "meeting_ended")
                         /\ new \in {<<>>, <<change>>}
                         /\ todo' \in {<<>>, new}
  BY DEF MeetingEnds, Ends
<1>6. change \in TodoItem(segments) /\ change.op = "state"
  <2>1. StateChange("standby", "meeting_ended") \in TodoItem(segments)
    BY Items DEF AgentState, Reason
  <2> QED
    BY <1>5, <2>1 DEF StateChange
<1>7. new \in Seq(TodoItem(segments)) /\ \A i \in DOMAIN new : new[i].op = "state"
  <2>1. CASE new = <<>>
    BY <2>1
  <2>2. CASE new = <<change>>
    BY <2>2, <1>6
  <2> QED
    BY <1>5, <2>1, <2>2
<1>8. UNCHANGED <<counters, hints, transcript>>
  BY DEF MeetingEnds
<1> QED
  <2>1. CASE todo' = <<>>
    BY <1>1, <1>4, <1>8, <2>1
  <2>2. CASE todo' = new
    BY <1>1, <1>4, <1>7, <1>8, <2>2
  <2> QED
    BY <1>5, <2>1, <2>2

(* A fact: memory changes, and its event with it or not.                    *)
LEMMA FactRecords ==
    ASSUME TypeInv, FactExtracted
    PROVE  /\ Records(Event("meeting.fact_extracted", Head(todo).segment))
           /\ todo # <<>> /\ Head(todo).op = "fact" /\ Head(todo).segment \in 1 .. segments
           /\ facts' = Append(facts, Head(todo).segment)
           /\ UNCHANGED <<counters, hints, meeting, transcript>>
           /\ todo' \in Seq(TodoItem(segments)) /\ GoesOn
<1>1. /\ facts' = Append(facts, Head(todo).segment)
      /\ UNCHANGED <<counters, hints, meeting, transcript>>
      /\ todo # <<>> /\ Head(todo).op = "fact" /\ todo' \in {<<>>, Tail(todo)}
  BY DEF FactExtracted, Running, Ends
<1>2. Memory' = Project(Memory, Event("meeting.fact_extracted", Head(todo).segment))
  <2>1. Memory' = Pack(meeting, transcript, Append(facts, Head(todo).segment))
    BY <1>1 DEF Memory, Pack
  <2> QED
    BY <2>1, ProjectCases DEF Memory
<1>3. Records(Event("meeting.fact_extracted", Head(todo).segment))
  BY <1>2 DEF FactExtracted, Ends, Records
<1>4. Head(todo).segment \in 1 .. segments
  BY <1>1, HeadItem, ItemShapes
<1> QED
  BY <1>1, <1>3, <1>4, TailOnly

(* A name that is given has a number, and numbers given before stay.        *)
LEMMA SpeakerIsKnown ==
    ASSUME hints \in Seq(Hint), NEW hint \in Hint \cup {NoHint}
    PROVE  /\ Learned(hint) \in Seq(Hint)
           /\ Len(Learned(hint)) >= Len(hints)
           /\ \A i \in DOMAIN hints : Learned(hint)[i] = hints[i]
           /\ Speaker(hint) \in Nat
           /\ hint # NoHint => /\ Speaker(hint) \in DOMAIN Learned(hint)
                               /\ Learned(hint)[Speaker(hint)] = hint
<1>1. /\ Learned(hint) \in Seq(Hint)
      /\ Len(Learned(hint)) >= Len(hints)
      /\ \A i \in DOMAIN hints : Learned(hint)[i] = hints[i]
  BY DEF Learned
<1>2. CASE hint = NoHint
  BY <1>1, <1>2 DEF Speaker
<1>3. CASE hint # NoHint
  <2>1. \E i \in DOMAIN Learned(hint) : Learned(hint)[i] = hint
    <3>1. CASE hint \in ToSet(hints)
      BY <1>3, <3>1 DEF ToSet, Learned
    <3>2. CASE hint \notin ToSet(hints)
      <4>1. Learned(hint) = Append(hints, hint)
        BY <1>3, <3>2 DEF Learned
      <4>2. /\ Len(hints) + 1 \in DOMAIN Append(hints, hint)
            /\ Append(hints, hint)[Len(hints) + 1] = hint
        BY <1>3
      <4> QED
        BY <4>1, <4>2
    <3> QED
      BY <3>1, <3>2
  <2>2. Speaker(hint) \in DOMAIN Learned(hint) /\ Learned(hint)[Speaker(hint)] = hint
    BY <1>3, <2>1 DEF Speaker
  <2> QED
    BY <1>1, <2>2
<1> QED
  BY <1>2, <1>3

NewSegment(text) == [id |-> segments + 1, meeting |-> meeting.id,
                     speaker |-> Speaker(text.hint), hint |-> text.hint]

(* A function on 1 .. n is a list.                                          *)
LEMMA FunctionsAreLists ==
    ASSUME NEW S, NEW n \in Nat, NEW s \in [1 .. n -> S]
    PROVE  s \in Seq(S)
OBVIOUS

(* What two lists hold, the list of both holds.                             *)
LEMMA Joined ==
    ASSUME NEW S, NEW s \in Seq(S), NEW t \in Seq(S), NEW P,
           \A i \in DOMAIN s : s[i] \in P, \A i \in DOMAIN t : t[i] \in P
    PROVE  s \o t \in Seq(S) /\ \A i \in DOMAIN (s \o t) : (s \o t)[i] \in P
<1> PICK u : u = s \o t
  OBVIOUS
<1>1. /\ u \in Seq(S)
      /\ \A i \in DOMAIN u : \/ i \in DOMAIN s /\ u[i] = s[i]
                             \/ i - Len(s) \in DOMAIN t /\ u[i] = t[i - Len(s)]
  OBVIOUS
<1>2. \A i \in DOMAIN u : u[i] \in P
  BY <1>1
<1> QED
  BY <1>1, <1>2

(* A final segment: memory changes, and its event with it or not.           *)
LEMMA FinalRecords ==
    ASSUME TypeInv, FinalSegment
    PROVE  LET text == Head(todo).text
           IN  /\ todo # <<>> /\ Head(todo).op = "final" /\ text \in Text
               /\ NewSegment(text) \in SegmentUpTo(segments + 1)
               /\ Records(Event("transcript.final", NewSegment(text)))
               /\ transcript' = Append(transcript, NewSegment(text))
               /\ segments' = segments + 1
               /\ UNCHANGED <<meetings, inherited, meeting, facts>>
               /\ hints' = Learned(text.hint)
               /\ todo' \in Seq(TodoItem(segments + 1))
               /\ \A i \in DOMAIN todo' :
                     \/ todo'[i].op = "state"
                     \/ todo'[i].op = "fact" /\ todo'[i].segment = segments + 1
<1> DEFINE text == Head(todo).text
<1>1. /\ todo # <<>> /\ Head(todo).op = "final"
      /\ segments' = segments + 1 /\ hints' = Learned(text.hint)
      /\ UNCHANGED <<meetings, inherited, meeting, facts>>
      /\ transcript' = Append(transcript, NewSegment(text))
  BY DEF FinalSegment, Running, NewSegment
<1>2. text \in Text
  BY <1>1, HeadItem, ItemShapes
<1>3. PICK told : told = text
  OBVIOUS
<1>4. /\ told \in Text /\ told.facts \in Nat /\ told.hint \in Hint \cup {NoHint}
      /\ segments \in Nat /\ hints \in Seq(Hint) /\ meeting.id \in Nat
  <2>1. told.facts \in Nat /\ told.hint \in Hint \cup {NoHint}
    BY <1>2, <1>3 DEF Text
  <2>2. meeting \in Meeting
    BY Unpacked DEF TypeInv, RecordsTyped, Memory
  <2> QED
    BY <1>2, <1>3, <2>1, <2>2 DEF TypeInv, ModesTyped, Meeting
<1>5. NewSegment(text) \in SegmentUpTo(segments + 1)
  <2>1. Speaker(told.hint) \in Nat
    BY <1>4, SpeakerIsKnown
  <2>2. segments + 1 \in 1 .. segments + 1
    BY <1>4
  <2> QED
    BY <1>3, <1>4, <2>1, <2>2 DEF NewSegment, SegmentUpTo
<1>6. Records(Event("transcript.final", NewSegment(text)))
  <2>1. Memory' = Pack(meeting, Append(transcript, NewSegment(text)), facts)
    BY <1>1 DEF Memory, Pack
  <2>2. Memory' = Project(Memory, Event("transcript.final", NewSegment(text)))
    BY <2>1, ProjectCases DEF Memory
  <2>3. \/ timeline' = Append(timeline, Event("transcript.final", NewSegment(text)))
           /\ tainted' = tainted
        \/ timeline' = timeline /\ tainted' = TRUE /\ todo' = <<>>
    BY <1>1 DEF FinalSegment, Ends, NewSegment
  <2> QED
    BY <2>2, <2>3 DEF Records
<1>7. /\ todo' \in Seq(TodoItem(segments + 1))
      /\ \A i \in DOMAIN todo' :
            \/ todo'[i].op = "state"
            \/ todo'[i].op = "fact" /\ todo'[i].segment = segments + 1
  <2> PICK fact, wake, sleep :
         /\ fact = [op |-> "fact", segment |-> segments + 1]
         /\ wake = StateChange("interactive", "activation")
         /\ sleep = StateChange("standby", "deactivation")
    OBVIOUS
  <2> DEFINE N == segments + 1
  <2>1. fact \in TodoItem(N) /\ fact.op = "fact" /\ fact.segment = N
    <3>1. N \in 1 .. N
      BY <1>4
    <3> QED
      BY <3>1, Items
  <2>2. /\ wake \in TodoItem(N) /\ wake.op = "state"
        /\ sleep \in TodoItem(N) /\ sleep.op = "state"
    <3>1. StateChange("interactive", "activation") \in TodoItem(N)
      BY Items DEF AgentState, Reason
    <3>2. StateChange("standby", "deactivation") \in TodoItem(N)
      BY Items DEF AgentState, Reason
    <3> QED
      BY <3>1, <3>2 DEF StateChange
  <2>3. PICK wakes \in {<<>>, <<wake>>}, sleeps \in {<<>>, <<sleep>>} :
           PhraseChanges(told) = wakes \o sleeps
    BY DEF PhraseChanges
  <2>4. todo' \in {<<>>, [i \in 1 .. told.facts |-> fact] \o (wakes \o sleeps)}
    BY <1>1, <1>3, <2>3 DEF FinalSegment, Ends
  <2> HIDE DEF N
  <2> DEFINE new == {fact, wake, sleep}
  <2>5. wakes \in Seq(TodoItem(N)) /\ \A i \in DOMAIN wakes : wakes[i] \in new
    <3>1. CASE wakes = <<>>
      BY <3>1
    <3>2. CASE wakes = <<wake>>
      BY <3>2, <2>2
    <3> QED
      BY <3>1, <3>2
  <2>6. sleeps \in Seq(TodoItem(N)) /\ \A i \in DOMAIN sleeps : sleeps[i] \in new
    <3>1. CASE sleeps = <<>>
      BY <3>1
    <3>2. CASE sleeps = <<sleep>>
      BY <3>2, <2>2
    <3> QED
      BY <3>1, <3>2
  <2> PICK traced : traced = [i \in 1 .. told.facts |-> fact]
    OBVIOUS
  <2>7. traced \in Seq(TodoItem(N)) /\ \A i \in DOMAIN traced : traced[i] \in new
    <3>1. traced \in [1 .. told.facts -> TodoItem(N)] /\ told.facts \in Nat
      BY <1>4, <2>1
    <3>2. traced \in Seq(TodoItem(N))
      BY <3>1, FunctionsAreLists
    <3>3. \A i \in DOMAIN traced : traced[i] = fact
      OBVIOUS
    <3> QED
      BY <3>2, <3>3
  <2> HIDE DEF new
  <2> PICK list : list = traced \o (wakes \o sleeps)
    OBVIOUS
  <2>8. list \in Seq(TodoItem(N)) /\ \A i \in DOMAIN list : list[i] \in new
    <3> DEFINE changes == wakes \o sleeps
    <3>1. changes \in Seq(TodoItem(N)) /\ \A i \in DOMAIN changes : changes[i] \in new
      BY <2>5, <2>6, Joined
    <3> HIDE DEF changes
    <3>2. /\ traced \o changes \in Seq(TodoItem(N))
          /\ \A i \in DOMAIN (traced \o changes) : (traced \o changes)[i] \in new
      BY <2>7, <3>1, Joined
    <3> QED
      BY <3>2 DEF changes
  <2>9. todo' \in {<<>>, list}
    BY <2>4
  <2>10. CASE todo' = <<>>
    BY <2>10
  <2>11. CASE todo' = list
    BY <2>8, <2>11, <2>1, <2>2 DEF N, new
  <2> QED
    BY <2>9, <2>10, <2>11 DEF N
<1> QED
  BY <1>1, <1>2, <1>5, <1>6, <1>7

(* What every step but a restart does to the timeline and to memory.        *)
LEMMA StepsRecord ==
    ASSUME TypeInv, Next, ~Restart
    PROVE  /\ segments' \in Nat /\ segments <= segments'
           /\ todo' \in Seq(TodoItem(segments'))
           /\ \A i \in DOMAIN todo' : todo'[i].op = "end" => meeting' # NoMeeting
           /\ \/ /\ UNCHANGED <<timeline, Memory>>
                 /\ tainted' = tainted \/ tainted' = TRUE
              \/ \E e \in StoredEvent(segments') :
                    /\ Records(e)
                    /\ e.type = "meeting.fact_extracted" =>
                          FactExtracted /\ e.data = Head(todo).segment
<1>1. segments \in Nat /\ \A i \in DOMAIN todo : todo[i].op = "end" => meeting # NoMeeting
  BY DEF TypeInv, ModesTyped, RecordsTyped
<1>2. todo \in Seq(TodoItem(segments))
  BY DEF TypeInv, RecordsTyped
<1>3. GoesOn => \A i \in DOMAIN todo' : todo'[i].op = "end" => meeting # NoMeeting
  <2> SUFFICES ASSUME GoesOn, NEW i \in DOMAIN todo', todo'[i].op = "end"
               PROVE  meeting # NoMeeting
    OBVIOUS
  <2>1. PICK j \in 2 .. Len(todo) : todo'[i] = todo[j]
    BY DEF GoesOn
  <2>2. j \in DOMAIN todo
    BY <1>2, <2>1
  <2> QED
    BY <1>1, <2>1, <2>2
<1>4. CASE Quiet
  <2>1. segments' = segments /\ Memory' = Memory /\ meeting' = meeting
    BY <1>4 DEF Quiet, projection, counters, Memory
  <2>2. ASSUME NEW e \in PassiveEvent, timeline' = Append(timeline, e)
        PROVE  /\ e \in StoredEvent(segments') /\ Records(e)
               /\ e.type # "meeting.fact_extracted"
    <3>1. e.type # "meeting.fact_extracted"
      BY DEF PassiveEvent
    <3> QED
      BY <1>4, <2>1, <2>2, <3>1, EventsTyped, PassiveEvents DEF Quiet, Records
  <2>3. \A i \in DOMAIN todo' : todo'[i].op = "end" => meeting' # NoMeeting
    BY <1>3, <1>4, <2>1 DEF Quiet, Fresh
  <2> QED
    BY <1>1, <1>4, <2>1, <2>2, <2>3 DEF Quiet
<1>5. CASE MeetingStarts
  <2>1. meeting' = [id |-> meetings + 1, active |-> TRUE] /\ meetings \in Nat
    BY <1>5 DEF MeetingStarts, TypeInv, ModesTyped
  <2>2. meeting'.active
    BY <2>1
  <2>3. meeting' # NoMeeting
    BY <2>2 DEF NoMeeting
  <2>4. Event("meeting.started", meetings + 1) \in StoredEvent(segments)
    BY <2>1, EventsTyped
  <2>5. Event("meeting.started", meetings + 1).type # "meeting.fact_extracted"
    BY DEF Event
  <2> QED
    BY <1>1, <1>5, <2>3, <2>4, <2>5, StartRecords
<1>6. CASE MeetingEnds
  <2>1. meeting.id \in Nat
    BY Unpacked DEF TypeInv, RecordsTyped, Memory, Meeting
  <2>2. Event("meeting.ended", meeting.id) \in StoredEvent(segments)
    BY <2>1, EventsTyped
  <2>3. segments' = segments
    BY <1>6, EndRecords DEF counters
  <2>4. Event("meeting.ended", meeting.id).type # "meeting.fact_extracted"
    BY DEF Event
  <2> QED
    BY <1>1, <1>6, <2>2, <2>3, <2>4, EndRecords
<1>7. CASE FinalSegment
  <2>1. Event("transcript.final", NewSegment(Head(todo).text)) \in StoredEvent(segments + 1)
    BY <1>7, FinalRecords, EventsTyped
  <2>2. \A i \in DOMAIN todo' : todo'[i].op # "end"
    BY <1>7, FinalRecords
  <2>3. Event("transcript.final", NewSegment(Head(todo).text)).type # "meeting.fact_extracted"
    BY DEF Event
  <2> QED
    BY <1>1, <1>7, <2>1, <2>2, <2>3, FinalRecords
<1>8. CASE FactExtracted
  <2>1. segments' = segments /\ meeting' = meeting
    BY <1>8, FactRecords DEF counters
  <2>2. Event("meeting.fact_extracted", Head(todo).segment) \in StoredEvent(segments)
    BY <1>8, FactRecords, EventsTyped
  <2>3. Event("meeting.fact_extracted", Head(todo).segment).data = Head(todo).segment
    BY DEF Event
  <2> QED
    BY <1>1, <1>3, <1>8, <2>1, <2>2, <2>3, FactRecords
<1> QED
  BY <1>4, <1>5, <1>6, <1>7, <1>8, Steps

-----------------------------------------------------------------------------
(* Types.                                                                   *)

(* A new process projects a part of the timeline, all of it when it is      *)
(* short.                                                                   *)
LEMMA RebuiltIsReplay ==
    ASSUME TypeInv
    PROVE  \E n \in 0 .. Len(timeline) :
              Rebuilt = Replay(timeline, n) /\ (Len(timeline) <= RebuildLimit => n = Len(timeline))
<1>1. Len(timeline) \in Nat /\ RebuildLimit \in Nat
  BY BoundAssumption DEF TypeInv, RecordsTyped
<1>2. Rebuilt = Replay(timeline, IF Len(timeline) < RebuildLimit THEN Len(timeline)
                                 ELSE RebuildLimit)
  BY DEF Rebuilt, Replay
<1>3. CASE Len(timeline) < RebuildLimit
  <2>1. Rebuilt = Replay(timeline, Len(timeline))
    BY <1>2, <1>3
  <2> QED
    BY <1>1, <2>1
<1>4. CASE ~(Len(timeline) < RebuildLimit)
  <2>1. Rebuilt = Replay(timeline, RebuildLimit)
    BY <1>2, <1>4
  <2>2. /\ RebuildLimit \in 0 .. Len(timeline)
        /\ Len(timeline) <= RebuildLimit => RebuildLimit = Len(timeline)
    BY <1>1, <1>4
  <2> QED
    BY <2>1, <2>2
<1> QED
  BY <1>3, <1>4

(* A new process has in memory what it rebuilt, and nothing else.           *)
LEMMA RestartRebuilds ==
    ASSUME TypeInv, Restart
    PROVE  /\ Memory' = Rebuilt /\ Rebuilt \in Projection(segments)
           /\ UNCHANGED <<timeline, segments>>
           /\ hints' = <<>> /\ todo' = <<>> /\ inherited' = segments
<1>1. Rebuilt \in Projection(segments)
  <2>1. PICK n \in 0 .. Len(timeline) : Rebuilt = Replay(timeline, n)
    BY RebuiltIsReplay
  <2> QED
    BY <2>1 DEF TypeInv, RecordsTyped
<1>2. Memory' = Pack(Rebuilt.meeting, Rebuilt.transcript, Rebuilt.facts)
  BY DEF Restart, Memory, Pack
<1>3. Memory' = Rebuilt
  BY <1>1, <1>2, Unpacked
<1> QED
  BY <1>1, <1>3 DEF Restart, durable

(* Each step keeps the types of the timeline, of memory and of what is to   *)
(* do.                                                                      *)
LEMMA NextRecordsTyped == ASSUME TypeInv, Next PROVE RecordsTyped'
<1>1. /\ timeline \in Seq(StoredEvent(segments)) /\ Memory \in Projection(segments)
      /\ segments \in Nat
      /\ \A n \in 0 .. Len(timeline) : Replay(timeline, n) \in Projection(segments)
  BY DEF TypeInv, ModesTyped, RecordsTyped
<1>2. CASE Restart
  <2>1. Memory' \in Projection(segments')
    BY <1>2, RestartRebuilds
  <2>2. <<>> \in Seq(TodoItem(segments'))
    OBVIOUS
  <2>3. UNCHANGED <<timeline, segments>> /\ todo' = <<>>
    BY <1>2, RestartRebuilds
  <2> QED
    BY <1>1, <2>1, <2>2, <2>3 DEF RecordsTyped
<1>3. CASE ~Restart
  <2> PICK m, tl, mem : m = segments' /\ tl = timeline' /\ mem = Memory'
    OBVIOUS
  <2>1. /\ m \in Nat /\ segments <= m
        /\ todo' \in Seq(TodoItem(m))
        /\ \A i \in DOMAIN todo' : todo'[i].op = "end" => meeting' # NoMeeting
        /\ \/ tl = timeline /\ mem = Memory
           \/ \E e \in StoredEvent(m) : Records(e)
    BY <1>3, StepsRecord
  <2>2. /\ timeline \in Seq(StoredEvent(m)) /\ Memory \in Projection(m)
        /\ \A n \in 0 .. Len(timeline) : Replay(timeline, n) \in Projection(m)
    BY <1>1, <2>1, Monotone
  <2>3. /\ tl \in Seq(StoredEvent(m)) /\ mem \in Projection(m)
        /\ \A n \in 0 .. Len(tl) : Replay(tl, n) \in Projection(m)
    <3>1. CASE tl = timeline /\ mem = Memory
      BY <2>2, <3>1
    <3>2. ASSUME NEW e \in StoredEvent(m), Records(e)
          PROVE  /\ tl \in Seq(StoredEvent(m)) /\ mem \in Projection(m)
                 /\ \A n \in 0 .. Len(tl) : Replay(tl, n) \in Projection(m)
      <4>1. Project(Memory, e) \in Projection(m)
        BY <2>1, <2>2, ProjectTyped
      <4>2. /\ mem \in {Memory, Project(Memory, e)}
            /\ tl = timeline \/ tl = Append(timeline, e)
        BY <3>2 DEF Records
      <4>3. CASE tl = timeline
        BY <2>2, <4>1, <4>2, <4>3
      <4>4. CASE tl = Append(timeline, e)
        <5>1. Len(timeline) \in Nat /\ tl \in Seq(StoredEvent(m))
          BY <2>2, <4>4
        <5>2. /\ Len(tl) = Len(timeline) + 1
              /\ \A n \in 0 .. Len(timeline) : Replay(tl, n) = Replay(timeline, n)
              /\ Replay(tl, Len(tl)) = Project(Replay(timeline, Len(timeline)), e)
          BY <2>2, <4>4, ReplayGrows
        <5>3. Replay(tl, Len(tl)) \in Projection(m)
          BY <2>1, <2>2, <5>1, <5>2, ProjectTyped
        <5>4. \A n \in 0 .. Len(tl) : n \in 0 .. Len(timeline) \/ n = Len(tl)
          BY <5>1, <5>2
        <5> QED
          BY <2>2, <4>1, <4>2, <5>1, <5>2, <5>3, <5>4
      <4> QED
        BY <4>2, <4>3, <4>4
    <3> QED
      BY <2>1, <3>1, <3>2
  <2> QED
    BY <2>1, <2>3 DEF RecordsTyped
<1> QED
  BY <1>2, <1>3

(* Each step keeps the types of modes, counters and lists of names and      *)
(* texts.                                                                   *)
LEMMA NextModesTyped == ASSUME TypeInv, Next PROVE ModesTyped'
<1>1. ModesTyped
  BY DEF TypeInv
<1>2. CASE Emit \/ RejectTransition \/ MeetingStarts \/ MeetingEnds \/ FactExtracted
  <2>1. /\ UNCHANGED <<saved, state, segments, inherited, hints, suspended>>
        /\ meetings' = meetings \/ meetings' = meetings + 1
        /\ failures' = failures \/ failures' = failures + 1
    BY <1>2 DEF Emit, RejectTransition, MeetingStarts, MeetingEnds, FactExtracted, Ends,
       counters
  <2> QED
    BY <1>1, <2>1 DEF ModesTyped
<1>3. CASE ChangeState
  <2>1. state' \in AgentState
    BY <1>3, HeadItem, ItemShapes DEF ChangeState, Running
  <2>2. saved' \in {saved, state'}
    BY <1>3 DEF ChangeState
  <2> QED
    BY <1>1, <1>3, <2>1, <2>2 DEF ModesTyped, ChangeState, counters
<1>4. CASE PartialSegment
  <2>1. Head(todo).text \in Text /\ Head(todo).text.hint \in Hint \cup {NoHint}
    BY <1>4, HeadItem, ItemShapes DEF PartialSegment, Running, Text
  <2>2. hints' \in Seq(Hint)
    BY <1>1, <1>4, <2>1, SpeakerIsKnown DEF ModesTyped, PartialSegment
  <2>3. suspended' \in Seq(Text)
    BY <1>1, <1>4, <2>1 DEF ModesTyped, PartialSegment
  <2> QED
    BY <1>1, <1>4, <2>2, <2>3 DEF ModesTyped, PartialSegment, Ends, counters
<1>5. CASE FinalSegment
  <2>1. Head(todo).text.hint \in Hint \cup {NoHint}
    BY <1>5, FinalRecords DEF Text
  <2>2. hints' \in Seq(Hint)
    BY <1>1, <1>5, <2>1, SpeakerIsKnown, FinalRecords DEF ModesTyped
  <2> QED
    BY <1>1, <1>5, <2>2 DEF ModesTyped, FinalSegment, Ends
<1>6. CASE Calls
  <2>1. UNCHANGED <<saved, state, hints, counters, failures>>
    BY <1>6 DEF Calls, SetState, Ingest, StartMeeting, EndMeeting, Inject, Resume, Note,
       UpdateSettings, durable
  <2>2. suspended' = suspended \/ (suspended # <<>> /\ suspended' = Tail(suspended))
    BY <1>6 DEF Calls, SetState, Ingest, StartMeeting, EndMeeting, Inject, Resume, Note,
       UpdateSettings
  <2>3. suspended' \in Seq(Text)
    BY <1>1, <2>2, Lists DEF ModesTyped
  <2> QED
    BY <1>1, <2>1, <2>3 DEF ModesTyped, counters
<1>7. CASE Restart
  <2>1. <<>> \in Seq(Hint) /\ <<>> \in Seq(Text)
    OBVIOUS
  <2> QED
    BY <1>1, <1>7, <2>1 DEF ModesTyped, Restart, durable
<1> QED
  BY <1>2, <1>3, <1>4, <1>5, <1>6, <1>7 DEF Next, Operation, Calls

(* Each step keeps the types of the two flags.                              *)
LEMMA NextFlagsTyped == ASSUME FlagsTyped, Next PROVE FlagsTyped'
<1>1. CASE Emit \/ RejectTransition \/ MeetingStarts \/ MeetingEnds \/ FactExtracted
           \/ PartialSegment \/ FinalSegment
  <2>1. buffered' = buffered /\ (tainted' = tainted \/ tainted' = TRUE)
    BY <1>1 DEF Emit, RejectTransition, MeetingStarts, MeetingEnds, FactExtracted,
       PartialSegment, FinalSegment, Ends
  <2> QED
    BY <2>1, Zenon DEF FlagsTyped
<1>2. CASE ChangeState
  <2>1. buffered' \in BOOLEAN
    BY <1>2, Zenon DEF ChangeState
  <2>2. tainted' = tainted \/ tainted' = TRUE
    BY <1>2 DEF ChangeState
  <2> QED
    BY <2>1, <2>2, Zenon DEF FlagsTyped
<1>3. CASE Calls
  <2>1. buffered' = buffered \/ buffered' = TRUE \/ buffered' = FALSE
    BY <1>3 DEF Calls, SetState, Ingest, StartMeeting, EndMeeting, Inject, Resume, Note,
       UpdateSettings
  <2>2. tainted' = tainted
    BY <1>3 DEF Calls, SetState, Ingest, StartMeeting, EndMeeting, Inject, Resume, Note,
       UpdateSettings
  <2> QED
    BY <2>1, <2>2, Zenon DEF FlagsTyped
<1>4. CASE Restart
  BY <1>4, Zenon DEF Restart, FlagsTyped
<1> QED
  BY <1>1, <1>2, <1>3, <1>4 DEF Next, Operation, Calls

(* The first process starts with every variable of its type.                *)
LEMMA InitTyped == Init => TypeInv
<1> SUFFICES ASSUME Init PROVE TypeInv
  OBVIOUS
<1>1. ModesTyped
  <2>1. "mic_off" \in AgentState /\ <<>> \in Seq(Hint) /\ <<>> \in Seq(Text)
    BY DEF AgentState
  <2> QED
    BY <2>1 DEF Init, ModesTyped
<1>2. EmptyProjection \in Projection(0)
  BY DEF EmptyProjection, Projection, NoMeeting, Meeting
<1>3. Memory = EmptyProjection /\ segments = 0 /\ timeline = <<Other>> /\ todo = <<>>
  BY DEF Init, Memory, Pack, EmptyProjection
<1>4. Other \in StoredEvent(0)
  BY PassiveEvents, EventsTyped
<1>5. timeline \in Seq(StoredEvent(0)) /\ Len(timeline) = 1 /\ timeline[1] = Other
  BY <1>3, <1>4
<1>6. Replay(timeline, 0) = EmptyProjection
  BY ReplayFirst
<1>7. Replay(timeline, 1) = EmptyProjection
  <2>1. Replay(timeline, 0 + 1) = Project(Replay(timeline, 0), timeline[0 + 1])
    BY ReplayNext
  <2> QED
    BY <1>5, <1>6, <2>1, PassiveEvents
<1>8. \A n \in 0 .. Len(timeline) : Replay(timeline, n) \in Projection(segments)
  BY <1>2, <1>3, <1>5, <1>6, <1>7
<1>9. todo \in Seq(TodoItem(segments)) /\ DOMAIN todo = {}
  BY <1>3
<1>10. FlagsTyped
  BY Zenon DEF Init, FlagsTyped
<1> QED
  BY <1>1, <1>2, <1>3, <1>5, <1>8, <1>9, <1>10 DEF TypeInv, RecordsTyped

(* A stutter keeps the types.                                               *)
LEMMA StutterTyped == ASSUME TypeInv, UNCHANGED vars PROVE TypeInv'
BY DEF vars, TypeInv, ModesTyped, FlagsTyped, RecordsTyped, Memory

(* The types always hold.                                                   *)
LEMMA Typing == Spec => []TypeInv
<1>1. TypeInv /\ [Next]_vars => TypeInv'
  BY NextRecordsTyped, NextModesTyped, NextFlagsTyped, StutterTyped DEF TypeInv
<1> QED
  BY <1>1, InitTyped, PTL DEF Spec

(* The types are as strong as TypeOK.                                       *)
LEMMA TypesFollow == TypeInv => TypeOK
<1> SUFFICES ASSUME TypeInv PROVE TypeOK
  OBVIOUS
<1>1. /\ meeting \in Meeting /\ transcript \in Seq(SegmentUpTo(segments))
      /\ facts \in Seq(1 .. segments)
  BY Unpacked DEF TypeInv, RecordsTyped, Memory
<1>2. SegmentUpTo(segments) \subseteq Segment
  BY DEF SegmentUpTo, Segment
<1>3. transcript \in Seq(Segment)
  BY <1>1, <1>2
<1>4. \A i \in DOMAIN timeline : timeline[i].type \in EventType
  BY EventShapes DEF TypeInv, RecordsTyped
<1>5. \A i \in DOMAIN todo : todo[i].op \in Ops
  BY ItemShapes DEF TypeInv, RecordsTyped
<1> QED
  BY <1>1, <1>3, <1>4, <1>5 DEF TypeInv, ModesTyped, FlagsTyped, TypeOK

(* Every variable has its type: in particular facts have the numbers of     *)
(* segments that were made, whatever operations, failures and restarts came *)
(* before.                                                                  *)
THEOREM TypeCorrect == Spec => []TypeOK
BY Typing, TypesFollow, PTL

-----------------------------------------------------------------------------
(* What a new process takes up.                                             *)

(* Known is what a new process would rebuild if it read the whole timeline. *)
LEMMA KnownGrows ==
    ASSUME TypeInv, NEW n \in Nat, segments <= n, NEW e \in StoredEvent(n),
           timeline' = Append(timeline, e)
    PROVE  /\ Len(timeline) \in Nat /\ Len(timeline') = Len(timeline) + 1
           /\ Known' = Project(Known, e)
           /\ \A k \in 0 .. Len(timeline) : Replay(timeline', k) = Replay(timeline, k)
<1>1. timeline \in Seq(StoredEvent(n))
  BY Monotone DEF TypeInv, ModesTyped, RecordsTyped
<1>2. Len(timeline) \in Nat
  BY <1>1
<1> PICK tl : tl = timeline'
  OBVIOUS
<1>3. tl = Append(timeline, e)
  OBVIOUS
<1> QED
  BY <1>1, <1>2, <1>3, ReplayGrows DEF Known

(* Each step keeps memory what the whole timeline projects to.              *)
LEMMA NextSurvives == ASSUME TypeInv, SurvivalInv, Next PROVE SurvivalInv'
<1> SUFFICES ASSUME Len(timeline') <= RebuildLimit, ~tainted' PROVE Known' = Memory'
  BY DEF SurvivalInv
<1>1. CASE Restart
  BY <1>1, RestartRebuilds, RebuiltIsReplay DEF Known
<1>2. CASE UNCHANGED <<timeline, Memory>> /\ (tainted' = tainted \/ tainted' = TRUE)
  BY <1>2 DEF SurvivalInv, Known
<1>3. ASSUME NEW e, NEW n \in Nat, segments <= n, e \in StoredEvent(n), Records(e)
      PROVE  Known' = Memory'
  <2>1. /\ ~tainted /\ timeline' = Append(timeline, e) /\ Memory' = Project(Memory, e)
    BY <1>3 DEF Records
  <2>2. Len(timeline') = Len(timeline) + 1 /\ Known' = Project(Known, e) /\ Len(timeline) \in Nat
    BY <1>3, <2>1, KnownGrows
  <2>3. RebuildLimit \in Nat
    BY BoundAssumption
  <2>4. Known = Memory
    BY <2>1, <2>2, <2>3 DEF SurvivalInv
  <2> QED
    BY <2>1, <2>2, <2>4
<1>4. CASE ~Restart
  BY <1>2, <1>3, <1>4, StepsRecord
<1> QED
  BY <1>1, <1>4

(* While the timeline is not longer than what a new process reads, and no   *)
(* store failure came between, a new process takes up the meeting, the      *)
(* transcript and the facts there are.                                      *)
THEOREM ProjectionIsRebuilt ==
    Spec => [](Len(timeline) <= RebuildLimit => ProjectionSurvivesRestart)
<1>1. Init => SurvivalInv
  <2> SUFFICES ASSUME Init PROVE Known = Memory
    BY DEF SurvivalInv
  <2>1. /\ Memory = EmptyProjection /\ Len(timeline) = 1 /\ timeline[1] = Other
    BY DEF Init, Memory, Pack, EmptyProjection
  <2>2. Replay(timeline, 0 + 1) = Project(Replay(timeline, 0), timeline[0 + 1])
    BY ReplayNext
  <2> QED
    BY <2>1, <2>2, ReplayFirst, PassiveEvents DEF Known
<1>2. TypeInv /\ SurvivalInv /\ [Next]_vars => SurvivalInv'
  <2>1. ASSUME SurvivalInv, UNCHANGED vars PROVE SurvivalInv'
    BY <2>1 DEF vars, SurvivalInv, Known, Memory
  <2> QED
    BY <2>1, NextSurvives
<1>3. TypeInv /\ SurvivalInv => (Len(timeline) <= RebuildLimit => ProjectionSurvivesRestart)
  BY RebuiltIsReplay DEF SurvivalInv, ProjectionSurvivesRestart, Known, Memory, Pack
<1> QED
  BY <1>1, <1>2, <1>3, Typing, PTL DEF Spec

-----------------------------------------------------------------------------
(* Facts.                                                                   *)

(* The segments of a projection.                                            *)
LEMMA IdsOf == \A m, t, f : Ids(Pack(m, t, f)) = {t[i].id : i \in DOMAIN t}
BY DEF Ids, Pack

(* When the facts of a projection are traced.                               *)
LEMMA TracedPack ==
    \A m, t, f : Traced(Pack(m, t, f)) <=>
                     \A i \in DOMAIN f : f[i] \in Ids(Pack(m, t, f))
BY DEF Traced, Pack

(* An event takes no segment away, but for the start of a meeting.          *)
LEMMA IdsGrow ==
    ASSUME NEW n \in Nat, NEW p \in Projection(n), NEW e \in StoredEvent(n)
    PROVE  /\ e.type # "meeting.started" => Ids(p) \subseteq Ids(Project(p, e))
           /\ e.type = "transcript.final" => e.data.id \in Ids(Project(p, e))
           /\ Traced(p) /\ (e.type = "meeting.fact_extracted" => e.data \in Ids(p)) =>
                 Traced(Project(p, e))
<1> PICK m \in Meeting, t \in Seq(SegmentUpTo(n)), f \in Seq(1 .. n) : p = Pack(m, t, f)
  BY Unpacked
<1> PICK q : q = Project(p, e)
  OBVIOUS
<1> DEFINE Goal == /\ e.type # "meeting.started" => Ids(p) \subseteq Ids(q)
                   /\ e.type = "transcript.final" => e.data.id \in Ids(q)
                   /\ Traced(p) /\ (e.type = "meeting.fact_extracted" => e.data \in Ids(p)) =>
                         Traced(q)
<1>1. CASE e \in PassiveEvent
  <2>1. q = p
    BY <1>1, PassiveEvents
  <2>2. e.type # "transcript.final"
    BY <1>1 DEF PassiveEvent
  <2> QED
    BY <2>1, <2>2
<1>2. ASSUME NEW d \in Nat, e = Event("meeting.started", d) PROVE Goal
  <2>1. q = Pack([id |-> d, active |-> TRUE], <<>>, <<>>)
    BY <1>2, ProjectCases
  <2>2. Traced(q)
    BY <2>1, TracedPack
  <2>3. e.type = "meeting.started"
    BY <1>2 DEF Event
  <2> QED
    BY <2>2, <2>3
<1>3. ASSUME NEW d \in Nat, e = Event("meeting.ended", d) PROVE Goal
  <2>1. e.type = "meeting.ended"
    BY <1>3 DEF Event
  <2>2. CASE m = NoMeeting
    <3>1. p.meeting = NoMeeting
      BY <2>2, Unpacked
    <3>2. q = p
      BY <1>3, <3>1, NothingEnds
    <3> QED
      BY <2>1, <3>2
  <2>3. CASE m # NoMeeting
    <3>1. q = Pack([id |-> d, active |-> FALSE], t, f)
      BY <1>3, <2>3, ProjectCases
    <3>2. Ids(q) = Ids(p)
      BY <3>1, IdsOf
    <3>3. Traced(p) => Traced(q)
      BY <3>1, <3>2, TracedPack
    <3> QED
      BY <2>1, <3>2, <3>3
  <2> QED
    BY <2>2, <2>3
<1>4. ASSUME NEW d \in SegmentUpTo(n), e = Event("transcript.final", d) PROVE Goal
  <2>1. e.type = "transcript.final" /\ e.data = d
    BY <1>4 DEF Event
  <2>2. q = Pack(m, Append(t, d), f)
    BY <1>4, ProjectCases
  <2> PICK u : u = Append(t, d)
    OBVIOUS
  <2>3. /\ \A i \in DOMAIN t : i \in DOMAIN u /\ u[i] = t[i]
        /\ Len(t) + 1 \in DOMAIN u /\ u[Len(t) + 1] = d
    OBVIOUS
  <2>4. Ids(p) \subseteq Ids(q) /\ d.id \in Ids(q)
    <3>1. Ids(p) = {t[i].id : i \in DOMAIN t} /\ Ids(q) = {u[i].id : i \in DOMAIN u}
      <4>1. p = Pack(m, t, f) /\ q = Pack(m, u, f)
        BY <2>2
      <4>2. Ids(Pack(m, t, f)) = {t[i].id : i \in DOMAIN t}
        BY ONLY IdsOf
      <4>3. Ids(Pack(m, u, f)) = {u[i].id : i \in DOMAIN u}
        BY ONLY IdsOf
      <4> QED
        BY ONLY <4>1, <4>2, <4>3
    <3>2. \A i \in DOMAIN t : t[i].id \in {u[j].id : j \in DOMAIN u}
      BY <2>3
    <3>3. d.id \in {u[j].id : j \in DOMAIN u}
      BY <2>3
    <3> QED
      BY <3>1, <3>2, <3>3
  <2>5. Traced(p) => Traced(q)
    BY <2>2, <2>4, TracedPack
  <2> QED
    BY <2>1, <2>4, <2>5
<1>5. ASSUME NEW d \in 1 .. n, e = Event("meeting.fact_extracted", d) PROVE Goal
  <2>1. e.type = "meeting.fact_extracted" /\ e.data = d
    BY <1>5 DEF Event
  <2>2. q = Pack(m, t, Append(f, d))
    BY <1>5, ProjectCases
  <2>3. Ids(q) = Ids(p)
    BY <2>2, IdsOf
  <2> PICK g : g = Append(f, d)
    OBVIOUS
  <2>4. \A i \in DOMAIN g : g[i] = d \/ (i \in DOMAIN f /\ g[i] = f[i])
    OBVIOUS
  <2>5. Traced(p) /\ d \in Ids(p) => Traced(q)
    BY <2>2, <2>3, <2>4, TracedPack
  <2> QED
    BY <2>1, <2>3, <2>5
<1> QED
  BY <1>1, <1>2, <1>3, <1>4, <1>5, EventCases

(* What is known and what is in memory are projections.                     *)
LEMMA KnownTyped ==
    ASSUME TypeInv, NEW n \in Nat, segments <= n
    PROVE  Known \in Projection(n) /\ Memory \in Projection(n) /\ Len(timeline) \in Nat
<1>1. Len(timeline) \in Nat
  BY DEF TypeInv, RecordsTyped
<1>2. Known \in Projection(segments)
  BY <1>1 DEF TypeInv, RecordsTyped, Known
<1> QED
  BY <1>1, <1>2, Monotone DEF TypeInv, ModesTyped, RecordsTyped

(* What is traced stays traced, in memory and in what any part of the       *)
(* timeline projects to.                                                    *)
LEMMA NextTraced ==
    ASSUME TypeInv, FactsInv, Next
    PROVE  Traced(Memory') /\ \A n \in 0 .. Len(timeline') : Traced(Replay(timeline', n))
<1>1. CASE Restart
  <2>1. Memory' = Rebuilt /\ timeline' = timeline
    BY <1>1, RestartRebuilds
  <2>2. PICK n \in 0 .. Len(timeline) : Rebuilt = Replay(timeline, n)
    BY RebuiltIsReplay
  <2> QED
    BY <2>1, <2>2 DEF FactsInv
<1>2. CASE UNCHANGED <<timeline, Memory>>
  BY <1>2 DEF FactsInv
<1>3. ASSUME NEW n \in Nat, segments <= n, NEW e \in StoredEvent(n), Records(e),
             e.type = "meeting.fact_extracted" =>
                 FactExtracted /\ e.data = Head(todo).segment
      PROVE  Traced(Memory') /\ \A k \in 0 .. Len(timeline') : Traced(Replay(timeline', k))
  <2>1. Known \in Projection(n) /\ Memory \in Projection(n) /\ Len(timeline) \in Nat
    BY <1>3, KnownTyped
  <2>2. e.type = "meeting.fact_extracted" => e.data \in Ids(Memory) \cap Ids(Known)
    <3>1. CASE e.type = "meeting.fact_extracted"
      <4>1. FactExtracted /\ e.data = Head(todo).segment
        BY <1>3, <3>1
      <4>2. 1 \in DOMAIN todo /\ todo[1] = Head(todo) /\ todo[1].op = "fact"
        BY <4>1, Lists, FactRecords DEF TypeInv, RecordsTyped
      <4> QED
        BY <4>1, <4>2 DEF FactsInv
    <3> QED
      BY <3>1
  <2>3. Traced(Memory) /\ Traced(Known)
    BY <2>1 DEF FactsInv, Known
  <2>4. Traced(Project(Memory, e)) /\ Traced(Project(Known, e))
    BY <1>3, <2>1, <2>2, <2>3, IdsGrow
  <2>5. Traced(Memory')
    BY <1>3, <2>3, <2>4 DEF Records
  <2>6. CASE timeline' = Append(timeline, e)
    <3>1. /\ Len(timeline') = Len(timeline) + 1
          /\ Known' = Project(Known, e)
          /\ \A k \in 0 .. Len(timeline) : Replay(timeline', k) = Replay(timeline, k)
      BY <1>3, <2>6, KnownGrows
    <3>2. \A k \in 0 .. Len(timeline') : k \in 0 .. Len(timeline) \/ k = Len(timeline')
      BY <2>1, <3>1
    <3>3. Traced(Replay(timeline', Len(timeline')))
      BY <2>4, <3>1 DEF Known
    <3>4. \A k \in 0 .. Len(timeline) : Traced(Replay(timeline', k))
      BY <3>1 DEF FactsInv
    <3> QED
      BY <2>5, <3>2, <3>3, <3>4
  <2>7. CASE timeline' = timeline
    BY <2>5, <2>7 DEF FactsInv
  <2> QED
    BY <1>3, <2>6, <2>7 DEF Records
<1> QED
  BY <1>1, <1>2, <1>3, StepsRecord

(* What is left of a handler that goes on has its facts from it.            *)
LEMMA FactsGoOn ==
    ASSUME TypeInv, FactsInv, GoesOn, todo' \in Seq(TodoItem(segments)),
           \A i \in DOMAIN todo : todo[i].op = "fact" =>
              Ids(Memory) \subseteq Ids(Memory') /\ Ids(Known) \subseteq Ids(Known')
    PROVE  /\ StartsFirst'
           /\ \A i \in DOMAIN todo' : todo'[i].op = "fact" =>
                 todo'[i].segment \in Ids(Memory') \cap Ids(Known')
<1>1. \A j \in 2 .. Len(todo) : j \in DOMAIN todo /\ j # 1
  BY DEF TypeInv, RecordsTyped
<1>2. \A i \in DOMAIN todo' : todo'[i].op # "start"
  <2> TAKE i \in DOMAIN todo'
  <2>1. CASE todo'[i].op \in {"state", "emit"}
    BY <2>1
  <2>2. ASSUME NEW j \in 2 .. Len(todo), todo'[i] = todo[j] PROVE todo'[i].op # "start"
    BY <1>1, <2>2 DEF FactsInv, StartsFirst
  <2> QED
    BY <2>1, <2>2 DEF GoesOn
<1>3. \A i \in DOMAIN todo' : todo'[i].op = "fact" =>
                 todo'[i].segment \in Ids(Memory') \cap Ids(Known')
  <2> SUFFICES ASSUME NEW i \in DOMAIN todo', todo'[i].op = "fact"
               PROVE  todo'[i].segment \in Ids(Memory') \cap Ids(Known')
    OBVIOUS
  <2>1. PICK j \in 2 .. Len(todo) : todo'[i] = todo[j]
    BY DEF GoesOn
  <2>2. j \in DOMAIN todo /\ todo[j].op = "fact"
    BY <1>1, <2>1
  <2> QED
    BY <2>1, <2>2 DEF FactsInv
<1>4. StartsFirst'
  <2>1. \A i \in DOMAIN todo' : todo'[i].op = "fact" => todo'[1].op # "start"
    <3> SUFFICES ASSUME NEW i \in DOMAIN todo', todo'[i].op = "fact", todo'[1].op = "start"
                 PROVE  FALSE
      OBVIOUS
    <3>1. 1 \in DOMAIN todo'
      OBVIOUS
    <3> QED
      BY <1>2, <3>1
  <2> QED
    BY <1>2, <2>1 DEF StartsFirst
<1> QED
  BY <1>3, <1>4

(* A handler with neither start nor fact has nothing to trace.              *)
LEMMA NothingLeft ==
    ASSUME todo' \in Seq(TodoItem(segments')),
           \A i \in DOMAIN todo' : todo'[i].op \notin {"start", "fact"}
    PROVE  /\ StartsFirst'
           /\ \A i \in DOMAIN todo' : todo'[i].op = "fact" =>
                 todo'[i].segment \in Ids(Memory') \cap Ids(Known')
BY DEF StartsFirst

(* The facts that are left to do come from a segment that is in memory and  *)
(* in the timeline.                                                         *)
LEMMA NextFactsLeft ==
    ASSUME TypeInv, FactsInv, Next
    PROVE  /\ StartsFirst'
           /\ \A i \in DOMAIN todo' : todo'[i].op = "fact" =>
                 todo'[i].segment \in Ids(Memory') \cap Ids(Known')
<1>1. CASE Restart
  <2>1. todo' = <<>> /\ <<>> \in Seq(TodoItem(segments'))
    BY <1>1, RestartRebuilds
  <2> QED
    BY <2>1, NothingLeft
<1>2. CASE Quiet
  <2>1. Memory' = Memory /\ segments' = segments /\ todo' \in Seq(TodoItem(segments))
    BY <1>2 DEF Quiet, projection, counters, Memory
  <2>2. Known' = Known
    <3>1. CASE timeline' = timeline
      BY <3>1 DEF Known
    <3>2. ASSUME NEW e \in PassiveEvent, timeline' = Append(timeline, e) PROVE Known' = Known
      <4>1. e \in StoredEvent(segments) /\ segments \in Nat
        BY EventsTyped DEF TypeInv, ModesTyped
      <4>2. Known' = Project(Known, e)
        BY <3>2, <4>1, KnownGrows
      <4> QED
        BY <4>2, PassiveEvents
    <3> QED
      BY <1>2, <3>1, <3>2 DEF Quiet
  <2>3. CASE GoesOn
    BY <2>1, <2>2, <2>3, FactsGoOn
  <2>4. CASE Fresh(todo')
    <3>1. /\ \A i \in DOMAIN todo' : todo'[i].op # "fact"
          /\ \A i \in DOMAIN todo' : todo'[i].op = "start" => i = 1
      BY <2>4 DEF Fresh
    <3> QED
      BY <3>1 DEF StartsFirst
  <2> QED
    BY <1>2, <2>3, <2>4 DEF Quiet
<1>3. CASE MeetingStarts
  <2>1. todo # <<>> /\ Head(todo).op = "start" /\ todo' \in Seq(TodoItem(segments)) /\ GoesOn
    BY <1>3, StartRecords
  <2>2. todo[1].op = "start"
    BY <2>1, Lists DEF TypeInv, RecordsTyped
  <2>3. \A i \in DOMAIN todo : todo[i].op # "fact"
    BY <2>2 DEF FactsInv, StartsFirst
  <2>4. \A i \in DOMAIN todo : todo[i].op = "fact" =>
           Ids(Memory) \subseteq Ids(Memory') /\ Ids(Known) \subseteq Ids(Known')
    BY <2>3
  <2> QED
    BY <2>1, <2>4, FactsGoOn
<1>4. CASE MeetingEnds
  <2>1. /\ todo' \in Seq(TodoItem(segments)) /\ segments' = segments
        /\ \A i \in DOMAIN todo' : todo'[i].op = "state"
    BY <1>4, EndRecords DEF counters
  <2> QED
    BY <2>1, NothingLeft
<1>5. CASE FinalSegment
  <2> PICK new, e : new = NewSegment(Head(todo).text) /\ e = Event("transcript.final", new)
    OBVIOUS
  <2> PICK n \in Nat : n = segments + 1
    BY DEF TypeInv, ModesTyped
  <2>1. /\ segments' = n /\ segments <= n
        /\ Records(e) /\ new \in SegmentUpTo(n)
        /\ todo' \in Seq(TodoItem(n))
        /\ \A i \in DOMAIN todo' :
              \/ todo'[i].op = "state"
              \/ todo'[i].op = "fact" /\ todo'[i].segment = n
    BY <1>5, FinalRecords DEF TypeInv, ModesTyped
  <2>2. new.id = n /\ e.type = "transcript.final" /\ e.data = new
    BY DEF NewSegment, Event
  <2>3. e \in StoredEvent(n)
    BY <2>1, EventsTyped
  <2>4. CASE todo' = <<>>
    BY <2>1, <2>4, NothingLeft
  <2>5. CASE timeline' = Append(timeline, e) /\ Memory' = Project(Memory, e)
    <3>1. Known' = Project(Known, e)
      BY <2>1, <2>3, <2>5, KnownGrows
    <3>2. Known \in Projection(n) /\ Memory \in Projection(n)
      BY <2>1, KnownTyped
    <3>3. n \in Ids(Memory') \cap Ids(Known')
      BY <2>2, <2>3, <2>5, <3>1, <3>2, IdsGrow
    <3>4. \A i \in DOMAIN todo' : todo'[i].op # "start"
      BY <2>1
    <3>5. StartsFirst'
      <4> SUFFICES ASSUME todo' # <<>> PROVE StartsFirst'
        BY <2>1, <2>4
      <4>1. 1 \in DOMAIN todo'
        BY <2>1
      <4> QED
        BY <3>4, <4>1 DEF StartsFirst
    <3> QED
      BY <2>1, <3>3, <3>5
  <2> QED
    BY <2>1, <2>4, <2>5 DEF Records
<1>6. CASE FactExtracted
  <2> PICK e : e = Event("meeting.fact_extracted", Head(todo).segment)
    OBVIOUS
  <2>1. /\ Records(e) /\ Head(todo).segment \in 1 .. segments
        /\ todo' \in Seq(TodoItem(segments)) /\ GoesOn
    BY <1>6, FactRecords
  <2>2. e \in StoredEvent(segments) /\ e.type # "meeting.started" /\ segments \in Nat
    BY <2>1, EventsTyped DEF Event, TypeInv, ModesTyped
  <2>3. Known \in Projection(segments) /\ Memory \in Projection(segments)
    BY <2>2, KnownTyped
  <2>4. Ids(Memory) \subseteq Ids(Project(Memory, e)) /\ Ids(Known) \subseteq Ids(Project(Known, e))
    BY <2>2, <2>3, IdsGrow
  <2>5. Ids(Memory) \subseteq Ids(Memory')
    BY <2>1, <2>4 DEF Records
  <2>6. Ids(Known) \subseteq Ids(Known')
    <3>1. CASE timeline' = timeline
      BY <3>1 DEF Known
    <3>2. CASE timeline' = Append(timeline, e)
      BY <2>2, <2>4, <3>2, KnownGrows
    <3> QED
      BY <2>1, <3>1, <3>2 DEF Records
  <2> QED
    BY <2>1, <2>5, <2>6, FactsGoOn
<1> QED
  BY <1>1, <1>2, <1>3, <1>4, <1>5, <1>6, Steps

(* The first process has no facts.                                          *)
LEMMA InitFacts == Init => FactsInv
<1> SUFFICES ASSUME Init PROVE FactsInv
  OBVIOUS
<1>1. /\ Memory = EmptyProjection /\ Len(timeline) = 1 /\ timeline[1] = Other /\ todo = <<>>
  BY DEF Init, Memory, Pack, EmptyProjection
<1>2. Replay(timeline, 0 + 1) = Project(Replay(timeline, 0), timeline[0 + 1])
  BY ReplayNext
<1>3. Replay(timeline, 0) = EmptyProjection /\ Replay(timeline, 1) = EmptyProjection
  BY <1>1, <1>2, ReplayFirst, PassiveEvents
<1>4. Traced(EmptyProjection)
  BY DEF Traced, EmptyProjection
<1>5. \A n \in 0 .. Len(timeline) : n = 0 \/ n = 1
  BY <1>1
<1> QED
  BY <1>1, <1>3, <1>4, <1>5 DEF FactsInv, StartsFirst

(* Each step keeps facts traceable.                                         *)
LEMMA NextFacts == TypeInv /\ FactsInv /\ [Next]_vars => FactsInv'
<1>1. ASSUME FactsInv, UNCHANGED vars PROVE FactsInv'
  BY <1>1 DEF vars, FactsInv, Known, Memory, StartsFirst
<1>2. ASSUME TypeInv, FactsInv, Next PROVE FactsInv'
  BY <1>2, NextTraced, NextFactsLeft DEF FactsInv
<1> QED
  BY <1>1, <1>2

(* Every fact in memory comes from a segment that is in memory.             *)
THEOREM FactsAreTraced == Spec => []FactsAreTraceable
<1>1. FactsInv => FactsAreTraceable
  <2> SUFFICES ASSUME Traced(Memory), NEW i \in DOMAIN facts
               PROVE  \E j \in DOMAIN transcript : transcript[j].id = facts[i]
    BY DEF FactsInv, FactsAreTraceable
  <2>1. facts[i] \in {transcript[j].id : j \in DOMAIN transcript}
    BY IdsOf, TracedPack DEF Memory
  <2> QED
    BY <2>1
<1> QED
  BY <1>1, InitFacts, NextFacts, Typing, PTL DEF Spec

-----------------------------------------------------------------------------
(* Meetings.                                                                *)

(* The meeting after an event.                                              *)
LEMMA MeetingOf ==
    ASSUME NEW n \in Nat, NEW p \in Projection(n), NEW e \in StoredEvent(n)
    PROVE  /\ e.type \notin {"meeting.started", "meeting.ended"} =>
                 Project(p, e).meeting = p.meeting
           /\ e.type = "meeting.started" =>
                 Project(p, e).meeting = [id |-> e.data, active |-> TRUE]
BY DEF Project, Projection, EmptyProjection

(* A timeline with one event more.                                          *)
LEMMA Appended ==
    ASSUME NEW S, timeline \in Seq(S), NEW e \in S, timeline' = Append(timeline, e)
    PROVE  /\ Len(timeline) \in Nat /\ Len(timeline') = Len(timeline) + 1
           /\ DOMAIN timeline = 1 .. Len(timeline)
           /\ DOMAIN timeline' = 1 .. Len(timeline) + 1
           /\ timeline'[Len(timeline) + 1] = e
           /\ \A i \in DOMAIN timeline : timeline'[i] = timeline[i]
OBVIOUS

(* A meeting that is open in the longer timeline was open before.           *)
LEMMA OpenBefore ==
    ASSUME NEW S, timeline \in Seq(S), NEW e \in S, timeline' = Append(timeline, e),
           NEW i \in DOMAIN timeline, Open(i)'
    PROVE  Open(i) /\ ~(e.type = "meeting.ended" /\ e.data = timeline[i].data)
<1>1. /\ Len(timeline) \in Nat /\ Len(timeline') = Len(timeline) + 1
      /\ DOMAIN timeline = 1 .. Len(timeline)
      /\ timeline'[Len(timeline) + 1] = e
      /\ \A j \in DOMAIN timeline : timeline'[j] = timeline[j]
  BY Appended
<1>2. /\ timeline'[i].type = "meeting.started"
      /\ \A k \in i .. Len(timeline') :
            ~(timeline'[k].type = "meeting.ended" /\ timeline'[k].data = timeline'[i].data)
  BY DEF Open, At
<1>3. ~(e.type = "meeting.ended" /\ e.data = timeline[i].data)
  <2>1. Len(timeline) + 1 \in i .. Len(timeline')
    BY <1>1
  <2> QED
    BY <1>1, <1>2, <2>1
<1>4. \A k \in i .. Len(timeline) :
         ~(timeline[k].type = "meeting.ended" /\ timeline[k].data = timeline[i].data)
  <2> TAKE k \in i .. Len(timeline)
  <2>1. k \in i .. Len(timeline') /\ k \in DOMAIN timeline
    BY <1>1
  <2> QED
    BY <1>1, <1>2, <2>1
<1> QED
  BY <1>1, <1>2, <1>3, <1>4 DEF Open, At

(* With one event more meetings do not overlap, if none is open when one    *)
(* starts.                                                                  *)
LEMMA OneMeetingStays ==
    ASSUME NEW S, timeline \in Seq(S), NEW e \in S, timeline' = Append(timeline, e),
           OneMeetingAtATime,
           e.type = "meeting.started" => \A i \in DOMAIN timeline : ~Open(i)
    PROVE  OneMeetingAtATime'
<1>1. /\ Len(timeline) \in Nat /\ DOMAIN timeline = 1 .. Len(timeline)
      /\ DOMAIN timeline' = 1 .. Len(timeline) + 1
      /\ timeline'[Len(timeline) + 1] = e
      /\ \A i \in DOMAIN timeline : timeline'[i] = timeline[i]
  BY Appended
<1> SUFFICES ASSUME NEW i \in DOMAIN timeline', NEW j \in DOMAIN timeline', i < j,
                    timeline'[i].type = "meeting.started",
                    timeline'[j].type = "meeting.started"
             PROVE  \E k \in i .. j : /\ timeline'[k].type = "meeting.ended"
                                      /\ timeline'[k].data = timeline'[i].data
  BY DEF OneMeetingAtATime, At
<1>2. i \in DOMAIN timeline
  BY <1>1
<1>3. CASE j \in DOMAIN timeline
  <2>1. PICK k \in i .. j :
           timeline[k].type = "meeting.ended" /\ timeline[k].data = timeline[i].data
    BY <1>1, <1>2, <1>3 DEF OneMeetingAtATime, At
  <2>2. k \in DOMAIN timeline
    BY <1>1, <1>2, <1>3
  <2> QED
    BY <1>1, <1>2, <2>1, <2>2
<1>4. CASE j = Len(timeline) + 1
  <2>1. ~Open(i)
    BY <1>1, <1>2, <1>4
  <2>2. PICK k \in i .. Len(timeline) :
           timeline[k].type = "meeting.ended" /\ timeline[k].data = timeline[i].data
    BY <1>1, <1>2, <2>1 DEF Open, At
  <2>3. k \in DOMAIN timeline /\ k \in i .. j
    BY <1>1, <1>2, <1>4
  <2> QED
    BY <1>1, <1>2, <2>2, <2>3
<1> QED
  BY <1>1, <1>3, <1>4

(* An event that is not about meetings changes nothing about them.          *)
LEMMA MeetingsStay ==
    ASSUME TypeInv, OneMeetingAtATime, OpenIsKnown, meeting' = meeting,
           NEW n \in Nat, segments <= n, NEW e \in StoredEvent(n),
           e.type \notin {"meeting.started", "meeting.ended"},
           timeline' \in {timeline, Append(timeline, e)}
    PROVE  OneMeetingAtATime' /\ OpenIsKnown'
<1>1. CASE timeline' = timeline
  BY <1>1 DEF OneMeetingAtATime, OpenIsKnown, Open, At, Known
<1>2. CASE timeline' = Append(timeline, e)
  <2>1. timeline \in Seq(StoredEvent(n))
    BY Monotone DEF TypeInv, ModesTyped, RecordsTyped
  <2>2. OneMeetingAtATime'
    BY <1>2, <2>1, OneMeetingStays
  <2>3. Known'.meeting = Known.meeting
    <3>1. Known \in Projection(n) /\ Known' = Project(Known, e)
      BY <1>2, KnownTyped, KnownGrows
    <3> QED
      BY <3>1, MeetingOf
  <2>4. /\ Len(timeline) \in Nat /\ DOMAIN timeline = 1 .. Len(timeline)
        /\ DOMAIN timeline' = 1 .. Len(timeline) + 1
        /\ timeline'[Len(timeline) + 1] = e
        /\ \A i \in DOMAIN timeline : timeline'[i] = timeline[i]
    BY <1>2, <2>1, Appended
  <2>5. OpenIsKnown'
    <3> SUFFICES ASSUME NEW i \in DOMAIN timeline', Open(i)'
                 PROVE  /\ meeting'.id = timeline'[i].data /\ meeting'.active
                        /\ Known'.meeting.id = timeline'[i].data /\ Known'.meeting.active
      BY DEF OpenIsKnown
    <3>1. i \in DOMAIN timeline
      BY <2>4 DEF Open, At
    <3>2. Open(i)
      BY <1>2, <2>1, <3>1, OpenBefore
    <3> QED
      BY <2>3, <2>4, <3>1, <3>2 DEF OpenIsKnown
  <2> QED
    BY <2>2, <2>5
<1> QED
  BY <1>1, <1>2

(* The start of a meeting finds none open and leaves one open.              *)
LEMMA MeetingBegins ==
    ASSUME TypeInv, OneMeetingAtATime, StartsInactive, OpenIsKnown, MeetingStarts
    PROVE  OneMeetingAtATime' /\ OpenIsKnown'
<1> PICK n, e : n \in Nat /\ n = segments /\ e = Event("meeting.started", meetings + 1)
  BY DEF TypeInv, ModesTyped
<1>1. /\ Records(e) /\ todo # <<>> /\ Head(todo).op = "start" /\ meetings + 1 \in Nat
      /\ Memory' = Pack([id |-> meetings + 1, active |-> TRUE], <<>>, <<>>)
  BY StartRecords DEF TypeInv, ModesTyped
<1>2. e \in StoredEvent(n) /\ e.type = "meeting.started" /\ e.data = meetings + 1
  BY <1>1, EventsTyped DEF Event
<1>3. 1 \in DOMAIN todo /\ todo[1].op = "start"
  BY <1>1, Lists DEF TypeInv, RecordsTyped
<1>4. \A i \in DOMAIN timeline : ~Open(i)
  BY <1>3 DEF StartsInactive, OpenIsKnown
<1>5. CASE timeline' = timeline
  BY <1>4, <1>5 DEF OneMeetingAtATime, OpenIsKnown, Open, At
<1>6. CASE timeline' = Append(timeline, e)
  <2>1. timeline \in Seq(StoredEvent(n))
    BY DEF TypeInv, RecordsTyped
  <2>2. OneMeetingAtATime'
    BY <1>2, <1>4, <1>6, <2>1, OneMeetingStays
  <2>3. Known'.meeting.id = e.data /\ Known'.meeting.active
    <3>1. Known \in Projection(n) /\ Known' = Project(Known, e)
      BY <1>2, <1>6, KnownTyped, KnownGrows
    <3>2. Project(Known, e).meeting = [id |-> e.data, active |-> TRUE]
      BY <1>2, <3>1, MeetingOf
    <3>3. Known'.meeting = [id |-> e.data, active |-> TRUE]
      BY <3>1, <3>2
    <3> QED
      BY <3>3
  <2>4. meeting'.id = e.data /\ meeting'.active
    <3>1. meeting' = [id |-> meetings + 1, active |-> TRUE]
      BY <1>1, Unpacked DEF Memory
    <3> QED
      BY <1>2, <3>1
  <2>5. /\ Len(timeline) \in Nat /\ DOMAIN timeline = 1 .. Len(timeline)
        /\ DOMAIN timeline' = 1 .. Len(timeline) + 1
        /\ timeline'[Len(timeline) + 1] = e
    BY <1>2, <1>6, <2>1, Appended
  <2>6. \A i \in DOMAIN timeline' : Open(i)' => timeline'[i] = e
    <3> SUFFICES ASSUME NEW i \in DOMAIN timeline, Open(i)' PROVE FALSE
      BY <2>5
    <3>1. Open(i)
      BY <1>2, <1>6, <2>1, OpenBefore
    <3> QED
      BY <1>4, <3>1
  <2> QED
    BY <2>2, <2>3, <2>4, <2>6 DEF OpenIsKnown
<1> QED
  BY <1>1, <1>5, <1>6 DEF Records

(* The end of a meeting leaves none open.                                   *)
LEMMA MeetingIsOver ==
    ASSUME TypeInv, OneMeetingAtATime, OpenIsKnown, MeetingEnds
    PROVE  OneMeetingAtATime' /\ OpenIsKnown'
<1> PICK n, e : n \in Nat /\ n = segments /\ e = Event("meeting.ended", meeting.id)
  BY DEF TypeInv, ModesTyped
<1>1. Records(e)
  BY EndRecords
<1>2. e \in StoredEvent(n) /\ e.type = "meeting.ended" /\ e.data = meeting.id
  <2>1. meeting.id \in Nat
    BY Unpacked DEF TypeInv, RecordsTyped, Memory, Meeting
  <2> QED
    BY <2>1, EventsTyped DEF Event
<1>3. CASE timeline' = Append(timeline, e)
  <2>1. timeline \in Seq(StoredEvent(n))
    BY DEF TypeInv, RecordsTyped
  <2>2. OneMeetingAtATime'
    BY <1>2, <1>3, <2>1, OneMeetingStays
  <2>3. /\ Len(timeline) \in Nat /\ DOMAIN timeline = 1 .. Len(timeline)
        /\ DOMAIN timeline' = 1 .. Len(timeline) + 1
        /\ timeline'[Len(timeline) + 1] = e
    BY <1>2, <1>3, <2>1, Appended
  <2>4. \A i \in DOMAIN timeline' : ~Open(i)'
    <3> SUFFICES ASSUME NEW i \in DOMAIN timeline', Open(i)' PROVE FALSE
      OBVIOUS
    <3>1. i \in DOMAIN timeline
      BY <1>2, <2>3 DEF Open, At
    <3>2. Open(i) /\ ~(e.type = "meeting.ended" /\ e.data = timeline[i].data)
      BY <1>2, <1>3, <2>1, <3>1, OpenBefore
    <3> QED
      BY <1>2, <3>1, <3>2 DEF OpenIsKnown
  <2> QED
    BY <2>2, <2>4 DEF OpenIsKnown
<1>4. CASE timeline' # Append(timeline, e)
  <2>1. timeline' = timeline /\ failures' # failures
    BY <1>4 DEF MeetingEnds, Ends, TypeInv, ModesTyped
  <2>2. meeting' = meeting
    BY <2>1 DEF MeetingEnds, Stored
  <2> QED
    BY <2>1, <2>2 DEF OneMeetingAtATime, OpenIsKnown, Open, At, Known
<1> QED
  BY <1>3, <1>4

(* A meeting that is to start finds none that is active.                    *)
LEMMA NextStartsInactive ==
    ASSUME TypeInv, FactsInv, StartsInactive, Next
    PROVE  StartsInactive'
<1>1. CASE GoesOn
  <2>1. \A j \in 2 .. Len(todo) : j \in DOMAIN todo /\ j # 1
    BY DEF TypeInv, RecordsTyped
  <2>2. \A i \in DOMAIN todo' : todo'[i].op # "start"
    <3> SUFFICES ASSUME NEW i \in DOMAIN todo', todo'[i].op = "start" PROVE FALSE
      OBVIOUS
    <3>1. PICK j \in 2 .. Len(todo) : todo'[i] = todo[j]
      BY <1>1 DEF GoesOn
    <3> QED
      BY <2>1, <3>1 DEF FactsInv, StartsFirst
  <2> QED
    BY <2>2 DEF StartsInactive
<1>2. CASE Quiet
  <2>1. meeting' = meeting
    BY <1>2 DEF Quiet, projection
  <2> QED
    BY <1>1, <1>2, <2>1 DEF Quiet, Fresh, StartsInactive
<1>3. CASE MeetingStarts
  BY <1>1, <1>3, StartRecords
<1>4. CASE MeetingEnds
  BY <1>4, EndRecords DEF StartsInactive
<1>5. CASE FinalSegment
  BY <1>5, FinalRecords DEF StartsInactive
<1>6. CASE FactExtracted
  BY <1>1, <1>6, FactRecords
<1>7. CASE Restart
  BY <1>7, RestartRebuilds DEF StartsInactive
<1> QED
  BY <1>2, <1>3, <1>4, <1>5, <1>6, <1>7, Steps

(* Each step keeps the open meeting the one in memory and in the            *)
(* projection.                                                              *)
LEMMA NextOpenIsKnown ==
    ASSUME TypeInv, OneMeetingAtATime, StartsInactive, OpenIsKnown,
           Len(timeline') <= RebuildLimit, Next
    PROVE  OneMeetingAtATime' /\ OpenIsKnown'
<1> PICK n \in Nat : n = segments
  BY DEF TypeInv, ModesTyped
<1>1. CASE Quiet
  <2>1. meeting' = meeting
    BY <1>1 DEF Quiet, projection
  <2>2. PICK e \in PassiveEvent : timeline' \in {timeline, Append(timeline, e)}
    BY <1>1, PassiveEvents DEF Quiet
  <2>3. e \in StoredEvent(n) /\ e.type \notin {"meeting.started", "meeting.ended"}
    <3>1. e.type \notin {"meeting.started", "meeting.ended"}
      BY DEF PassiveEvent
    <3> QED
      BY <3>1, EventsTyped
  <2> QED
    BY <2>1, <2>2, <2>3, MeetingsStay
<1>2. CASE FinalSegment
  <2> PICK e : e = Event("transcript.final", NewSegment(Head(todo).text))
    OBVIOUS
  <2>1. /\ Records(e) /\ meeting' = meeting
        /\ NewSegment(Head(todo).text) \in SegmentUpTo(n + 1)
    BY <1>2, FinalRecords
  <2>2. e \in StoredEvent(n + 1) /\ e.type = "transcript.final"
    BY <2>1, EventsTyped DEF Event
  <2> QED
    BY <2>1, <2>2, MeetingsStay DEF Records
<1>3. CASE FactExtracted
  <2> PICK e : e = Event("meeting.fact_extracted", Head(todo).segment)
    OBVIOUS
  <2>1. Records(e) /\ meeting' = meeting /\ Head(todo).segment \in 1 .. n
    BY <1>3, FactRecords
  <2>2. e \in StoredEvent(n) /\ e.type = "meeting.fact_extracted"
    BY <2>1, EventsTyped DEF Event
  <2> QED
    BY <2>1, <2>2, MeetingsStay DEF Records
<1>4. CASE Restart
  <2>1. Memory' = Rebuilt /\ timeline' = timeline
    BY <1>4, RestartRebuilds
  <2>2. Memory' = Known
    BY <2>1, RebuiltIsReplay DEF Known
  <2>3. meeting' = Known.meeting
    BY <2>2 DEF Memory, Pack
  <2> QED
    BY <2>1, <2>3 DEF OneMeetingAtATime, OpenIsKnown, Open, At, Known
<1> QED
  BY <1>1, <1>2, <1>3, <1>4, MeetingBegins, MeetingIsOver, Steps

(* No event is ever taken away.                                             *)
LEMMA TimelineGrows ==
    ASSUME TypeInv, Next
    PROVE  Len(timeline) \in Nat /\ Len(timeline') \in Nat /\ Len(timeline) <= Len(timeline')
<1>1. Len(timeline) \in Nat
  BY DEF TypeInv, RecordsTyped
<1>2. ASSUME NEW n \in Nat, segments <= n, NEW e \in StoredEvent(n), timeline' = Append(timeline, e)
      PROVE  Len(timeline') = Len(timeline) + 1
  BY <1>2, KnownGrows
<1>3. CASE Restart
  BY <1>1, <1>3, RestartRebuilds
<1>4. ASSUME NEW n \in Nat, segments <= n, NEW e \in StoredEvent(n), Records(e)
      PROVE  Len(timeline') \in Nat /\ Len(timeline) <= Len(timeline')
  <2>1. timeline' = timeline \/ timeline' = Append(timeline, e)
    BY <1>4 DEF Records
  <2> QED
    BY <1>1, <1>2, <1>4, <2>1
<1>5. CASE ~Restart
  <2>1. segments' \in Nat /\ segments <= segments'
    BY <1>5, StepsRecord
  <2>2. CASE timeline' = timeline
    BY <1>1, <2>2
  <2>3. CASE \E e \in StoredEvent(segments') : Records(e)
    BY <1>4, <2>1, <2>3
  <2> QED
    BY <1>5, <2>2, <2>3, StepsRecord
<1> QED
  BY <1>3, <1>5

(* Meetings and facts are kept by every step.                               *)
LEMMA MeetingsHold == Spec => [](FactsInv /\ MeetingsInv)
<1>1. Init => FactsInv /\ MeetingsInv
  BY InitFacts DEF Init, MeetingsInv, OneMeetingAtATime, StartsInactive, OpenIsKnown, Open,
     At, Other, Event
<1>2. TypeInv /\ FactsInv /\ MeetingsInv /\ [Next]_vars => FactsInv' /\ MeetingsInv'
  <2>1. ASSUME MeetingsInv, UNCHANGED vars PROVE MeetingsInv'
    BY <2>1 DEF vars, MeetingsInv, OneMeetingAtATime, StartsInactive, OpenIsKnown, Open, At,
       Known
  <2>2. ASSUME TypeInv, FactsInv, MeetingsInv, Next PROVE MeetingsInv'
    <3> SUFFICES ASSUME Len(timeline') <= RebuildLimit
                 PROVE  OneMeetingAtATime' /\ StartsInactive' /\ OpenIsKnown'
      BY DEF MeetingsInv
    <3>1. Len(timeline) <= RebuildLimit
      BY <2>2, TimelineGrows, BoundAssumption
    <3> QED
      BY <2>2, <3>1, NextStartsInactive, NextOpenIsKnown DEF MeetingsInv
  <2> QED
    BY <2>1, <2>2, NextFacts
<1> QED
  BY <1>1, <1>2, Typing, PTL DEF Spec

(* The timeline, as far as a new process reads it, never shows two meetings *)
(* at once.                                                                 *)
THEOREM MeetingsDoNotOverlap ==
    Spec => [](Len(timeline) <= RebuildLimit => OneMeetingAtATime)
<1>1. MeetingsInv => (Len(timeline) <= RebuildLimit => OneMeetingAtATime)
  BY DEF MeetingsInv
<1> QED
  BY <1>1, MeetingsHold, PTL

-----------------------------------------------------------------------------
(* Speakers.                                                                *)

(* No name has two numbers.                                                 *)
LEMMA NamesStayApart ==
    ASSUME hints \in Seq(Hint), NEW hint \in Hint \cup {NoHint},
           \A i, j \in DOMAIN hints : hints[i] = hints[j] => i = j
    PROVE  \A i, j \in DOMAIN Learned(hint) : Learned(hint)[i] = Learned(hint)[j] => i = j
<1>1. CASE hint \in {NoHint} \cup ToSet(hints)
  BY <1>1 DEF Learned
<1>2. CASE hint \notin {NoHint} \cup ToSet(hints)
  <2> PICK new : new = Append(hints, hint)
    OBVIOUS
  <2>1. Learned(hint) = new
    BY <1>2 DEF Learned
  <2>2. /\ DOMAIN new = 1 .. Len(hints) + 1 /\ DOMAIN hints = 1 .. Len(hints)
        /\ Len(hints) \in Nat /\ new[Len(hints) + 1] = hint
        /\ \A i \in DOMAIN hints : new[i] = hints[i]
    OBVIOUS
  <2>3. \A i \in DOMAIN hints : hints[i] # hint
    BY <1>2 DEF ToSet
  <2>4. \A i, j \in DOMAIN new : new[i] = new[j] => i = j
    <3> TAKE i, j \in DOMAIN new
    <3>1. CASE i \in DOMAIN hints /\ j \in DOMAIN hints
      BY <2>2, <3>1
    <3>2. CASE i \in DOMAIN hints /\ j = Len(hints) + 1
      BY <2>2, <2>3, <3>2
    <3>3. CASE i = Len(hints) + 1 /\ j \in DOMAIN hints
      BY <2>2, <2>3, <3>3
    <3>4. CASE i = Len(hints) + 1 /\ j = Len(hints) + 1
      BY <3>4
    <3> QED
      BY <2>2, <3>1, <3>2, <3>3, <3>4
  <2> QED
    BY <2>1, <2>4
<1> QED
  BY <1>1, <1>2

(* Names that are learned change no number that was given.                  *)
LEMMA SpeakersStay ==
    ASSUME TypeInv, SpeakersInv, NEW hint \in Hint \cup {NoHint},
           hints' \in {hints, Learned(hint)}, inherited' = inherited,
           segments' \in Nat, segments <= segments',
           transcript' \in {transcript, <<>>}
    PROVE  SpeakersInv'
<1>1. /\ hints \in Seq(Hint) /\ segments \in Nat /\ inherited \in Nat
      /\ \A i, j \in DOMAIN hints : hints[i] = hints[j] => i = j
      /\ inherited <= segments
  BY DEF TypeInv, ModesTyped, SpeakersInv
<1>2. /\ hints' \in Seq(Hint) /\ Len(hints') >= Len(hints)
      /\ \A i \in DOMAIN hints : hints'[i] = hints[i]
  <2>1. CASE hints' = hints
    BY <1>1, <2>1
  <2>2. CASE hints' = Learned(hint)
    BY <1>1, <2>2, SpeakerIsKnown
  <2> QED
    BY <2>1, <2>2
<1>3. \A i, j \in DOMAIN hints' : hints'[i] = hints'[j] => i = j
  BY <1>1, NamesStayApart
<1>4. \A i \in DOMAIN hints : i \in DOMAIN hints'
  BY <1>1, <1>2
<1>5. inherited' <= segments'
  BY <1>1
<1>6. \A i \in DOMAIN transcript' :
         i \in DOMAIN transcript /\ transcript'[i] = transcript[i]
  OBVIOUS
<1> QED
  BY <1>2, <1>3, <1>4, <1>5, <1>6 DEF SpeakersInv

(* Only a final segment adds to the transcript, and only a restart forgets  *)
(* names.                                                                   *)
LEMMA SpeakersHoldOn ==
    ASSUME TypeInv, Next
    PROVE  \/ \E hint \in Hint \cup {NoHint} :
                 /\ hints' \in {hints, Learned(hint)} /\ inherited' = inherited
                 /\ segments' \in Nat /\ segments <= segments'
                 /\ transcript' \in {transcript, <<>>}
           \/ FinalSegment \/ Restart
<1>1. NoHint \in Hint \cup {NoHint} /\ segments \in Nat
  BY DEF TypeInv, ModesTyped
<1>2. CASE PartialSegment
  <2>1. Head(todo).text.hint \in Hint \cup {NoHint}
    BY <1>2, HeadItem, ItemShapes DEF PartialSegment, Running, Text
  <2> QED
    BY <1>1, <1>2, <2>1 DEF PartialSegment, projection, counters
<1>3. CASE Emit \/ RejectTransition \/ ChangeState
  <2>1. UNCHANGED <<hints, projection, counters>>
    BY <1>3 DEF Emit, RejectTransition, ChangeState
  <2> QED
    BY <1>1, <2>1 DEF projection, counters
<1>4. CASE Calls
  <2>1. UNCHANGED <<hints, projection, counters>>
    BY <1>4 DEF Calls, SetState, Ingest, StartMeeting, EndMeeting, Inject, Resume, Note,
       UpdateSettings
  <2> QED
    BY <1>1, <2>1 DEF projection, counters
<1>5. CASE MeetingStarts \/ MeetingEnds \/ FactExtracted
  BY <1>1, <1>5 DEF MeetingStarts, MeetingEnds, FactExtracted, counters
<1> QED
  BY <1>2, <1>3, <1>4, <1>5 DEF Next, Operation, Calls

(* A final segment has the number of its name.                              *)
LEMMA FinalSpeaker ==
    ASSUME TypeInv, SpeakersInv, FinalSegment
    PROVE  SpeakersInv'
<1> PICK hint, new, tr : /\ hint = Head(todo).text.hint /\ new = NewSegment(Head(todo).text)
                         /\ tr = transcript'
  OBVIOUS
<1>1. /\ hint \in Hint \cup {NoHint} /\ tr = Append(transcript, new)
      /\ hints' = Learned(hint) /\ segments' = segments + 1 /\ inherited' = inherited
  BY FinalRecords DEF Text
<1>2. new.speaker = Speaker(hint) /\ new.hint = hint
  BY DEF NewSegment
<1>3. /\ hints \in Seq(Hint) /\ segments \in Nat /\ inherited \in Nat
      /\ \A i, j \in DOMAIN hints : hints[i] = hints[j] => i = j
      /\ inherited <= segments
  BY DEF TypeInv, ModesTyped, SpeakersInv
<1>4. /\ hints' \in Seq(Hint) /\ Len(hints') >= Len(hints)
      /\ \A i \in DOMAIN hints : hints'[i] = hints[i]
      /\ hint # NoHint => Speaker(hint) \in DOMAIN hints' /\ hints'[Speaker(hint)] = hint
  BY <1>1, <1>3, SpeakerIsKnown
<1>5. \A i, j \in DOMAIN hints' : hints'[i] = hints'[j] => i = j
  BY <1>1, <1>3, NamesStayApart
<1>6. \A i \in DOMAIN hints : i \in DOMAIN hints'
  BY <1>3, <1>4
<1>7. transcript \in Seq(SegmentUpTo(segments))
  BY Unpacked DEF TypeInv, RecordsTyped, Memory
<1>8. \A i \in DOMAIN tr : (i \in DOMAIN transcript /\ tr[i] = transcript[i]) \/ tr[i] = new
  BY <1>1, <1>7
<1>9. \A i \in DOMAIN tr : tr[i].id > inherited /\ tr[i].hint # NoHint =>
         tr[i].speaker \in DOMAIN hints' /\ hints'[tr[i].speaker] = tr[i].hint
  <2> SUFFICES ASSUME NEW i \in DOMAIN tr, tr[i].id > inherited, tr[i].hint # NoHint
               PROVE  tr[i].speaker \in DOMAIN hints' /\ hints'[tr[i].speaker] = tr[i].hint
    OBVIOUS
  <2>1. CASE i \in DOMAIN transcript /\ tr[i] = transcript[i]
    <3>1. tr[i].speaker \in DOMAIN hints /\ hints[tr[i].speaker] = tr[i].hint
      BY <2>1 DEF SpeakersInv
    <3> QED
      BY <1>4, <1>6, <3>1
  <2>2. CASE tr[i] = new
    BY <1>2, <1>4, <2>2
  <2> QED
    BY <1>8, <2>1, <2>2
<1>10. inherited' <= segments'
  BY <1>1, <1>3
<1> QED
  BY <1>1, <1>5, <1>9, <1>10 DEF SpeakersInv

(* A new process forgets the names, and what it takes up is inherited.      *)
LEMMA RestartSpeakers ==
    ASSUME TypeInv, Restart
    PROVE  SpeakersInv'
<1>1. /\ hints' = <<>> /\ inherited' = segments /\ segments' = segments /\ segments \in Nat
      /\ Memory' \in Projection(segments)
  BY RestartRebuilds DEF TypeInv, ModesTyped
<1>2. transcript' \in Seq(SegmentUpTo(segments))
  BY <1>1, Unpacked DEF Memory
<1> PICK tr : tr = transcript'
  OBVIOUS
<1>3. \A i \in DOMAIN tr : tr[i].id \in 1 .. segments
  <2>1. \A i \in DOMAIN tr : tr[i] \in SegmentUpTo(segments)
    BY <1>2
  <2>2. \A s \in SegmentUpTo(segments) : s.id \in 1 .. segments
    BY DEF SegmentUpTo
  <2> QED
    BY <2>1, <2>2
<1>4. \A i \in DOMAIN tr : ~(tr[i].id > segments)
  BY <1>1, <1>3
<1> QED
  BY <1>1, <1>4 DEF SpeakersInv

(* One number is one name, and one name one number, among the segments that *)
(* one process made.                                                        *)
THEOREM SpeakersAreKept == Spec => []SpeakersAreToldApart
<1>1. Init => SpeakersInv
  BY DEF Init, SpeakersInv
<1>2. TypeInv /\ SpeakersInv /\ [Next]_vars => SpeakersInv'
  <2>1. ASSUME SpeakersInv, UNCHANGED vars PROVE SpeakersInv'
    BY <2>1 DEF vars, SpeakersInv
  <2>2. ASSUME TypeInv, SpeakersInv, Next PROVE SpeakersInv'
    BY <2>2, SpeakersHoldOn, SpeakersStay, FinalSpeaker, RestartSpeakers
  <2> QED
    BY <2>1, <2>2
<1>3. TypeInv /\ SpeakersInv => SpeakersAreToldApart
  <2> SUFFICES ASSUME TypeInv, SpeakersInv, NEW i \in DOMAIN transcript,
                      NEW j \in DOMAIN transcript,
                      transcript[i].id > inherited, transcript[j].id > inherited,
                      transcript[i].hint # NoHint, transcript[j].hint # NoHint
               PROVE  transcript[i].speaker = transcript[j].speaker <=>
                          transcript[i].hint = transcript[j].hint
    BY DEF SpeakersAreToldApart
  <2>1. /\ transcript[i].speaker \in DOMAIN hints
        /\ hints[transcript[i].speaker] = transcript[i].hint
        /\ transcript[j].speaker \in DOMAIN hints
        /\ hints[transcript[j].speaker] = transcript[j].hint
        /\ \A k, l \in DOMAIN hints : hints[k] = hints[l] => k = l
    BY DEF SpeakersInv
  <2> QED
    BY <2>1
<1> QED
  BY <1>1, <1>2, <1>3, Typing, PTL DEF Spec

-----------------------------------------------------------------------------
(* The record of meetings.                                                  *)

(* The first process knows no meeting.                                      *)
LEMMA InitRecord == Init => RecordInv
<1> SUFFICES ASSUME Init PROVE RecordInv
  OBVIOUS
<1>1. /\ Memory = EmptyProjection /\ Len(timeline) = 1 /\ timeline[1] = Other
      /\ meeting = NoMeeting /\ meetings = 0
  BY DEF Init, Memory, Pack, EmptyProjection
<1>2. Replay(timeline, 0 + 1) = Project(Replay(timeline, 0), timeline[0 + 1])
  BY ReplayNext
<1>3. Known = EmptyProjection
  BY <1>1, <1>2, ReplayFirst, PassiveEvents DEF Known
<1> QED
  BY <1>1, <1>3 DEF RecordInv, EmptyProjection, NoMeeting

(* An event that neither starts nor ends a meeting changes none.            *)
LEMMA RecordStays ==
    ASSUME TypeInv, RecordInv, Len(timeline) <= RebuildLimit,
           UNCHANGED <<meeting, meetings>>,
           NEW n \in Nat, segments <= n, NEW e \in StoredEvent(n),
           e.type \notin {"meeting.started", "meeting.ended"},
           timeline' \in {timeline, Append(timeline, e)}
    PROVE  RecordInv'
<1>1. Known'.meeting = Known.meeting
  <2>1. CASE timeline' = timeline
    BY <2>1 DEF Known
  <2>2. CASE timeline' = Append(timeline, e)
    <3>1. Known \in Projection(n) /\ Known' = Project(Known, e)
      BY <2>2, KnownTyped, KnownGrows
    <3> QED
      BY <3>1, MeetingOf
  <2> QED
    BY <2>1, <2>2
<1> QED
  BY <1>1 DEF RecordInv

(* Each step keeps the meeting that goes on the one in memory.              *)
LEMMA NextRecord == ASSUME TypeInv, MeetingsInv, RecordInv, Next PROVE RecordInv'
<1> SUFFICES ASSUME Len(timeline') <= RebuildLimit PROVE RecordInv'
  BY DEF RecordInv
<1> PICK n \in Nat : n = segments
  BY DEF TypeInv, ModesTyped
<1>1. Len(timeline) <= RebuildLimit
  BY TimelineGrows, BoundAssumption
<1>2. /\ meeting \in Meeting /\ Known.meeting \in Meeting /\ meetings \in Nat
      /\ meeting.id \in Nat /\ Known.meeting.id \in Nat
  <2>1. meeting \in Meeting /\ Known.meeting \in Meeting
    <3>1. Memory.meeting \in Meeting /\ Known.meeting \in Meeting
      <4>1. Known \in Projection(n) /\ Memory \in Projection(n)
        BY KnownTyped
      <4> QED
        BY <4>1, Unpacked
    <3> QED
      BY <3>1, Unpacked DEF Memory
  <2> QED
    BY <2>1 DEF Meeting, TypeInv, ModesTyped
<1>3. /\ Known.meeting.active => meeting = Known.meeting
      /\ Known.meeting.id <= meeting.id /\ meeting.id <= meetings
  BY <1>1 DEF RecordInv
<1>4. CASE Quiet
  <2>1. meeting' = meeting /\ meetings' = meetings
    BY <1>4 DEF Quiet, projection, counters
  <2>2. PICK e \in PassiveEvent : timeline' \in {timeline, Append(timeline, e)}
    BY <1>4, PassiveEvents DEF Quiet
  <2>3. e \in StoredEvent(n) /\ e.type \notin {"meeting.started", "meeting.ended"}
    <3>1. e.type \notin {"meeting.started", "meeting.ended"}
      BY DEF PassiveEvent
    <3> QED
      BY <3>1, EventsTyped
  <2> QED
    BY <1>1, <2>1, <2>2, <2>3, RecordStays
<1>5. CASE FinalSegment
  <2> PICK e : e = Event("transcript.final", NewSegment(Head(todo).text))
    OBVIOUS
  <2>1. /\ Records(e) /\ meeting' = meeting /\ meetings' = meetings
        /\ NewSegment(Head(todo).text) \in SegmentUpTo(n + 1)
    BY <1>5, FinalRecords
  <2>2. e \in StoredEvent(n + 1) /\ e.type = "transcript.final"
    BY <2>1, EventsTyped DEF Event
  <2> QED
    BY <1>1, <2>1, <2>2, RecordStays DEF Records
<1>6. CASE FactExtracted
  <2> PICK e : e = Event("meeting.fact_extracted", Head(todo).segment)
    OBVIOUS
  <2>1. /\ Records(e) /\ meeting' = meeting /\ meetings' = meetings
        /\ Head(todo).segment \in 1 .. n
    BY <1>6, FactRecords DEF counters
  <2>2. e \in StoredEvent(n) /\ e.type = "meeting.fact_extracted"
    BY <2>1, EventsTyped DEF Event
  <2> QED
    BY <1>1, <2>1, <2>2, RecordStays DEF Records
<1>7. CASE MeetingStarts
  <2> PICK e : e = Event("meeting.started", meetings + 1)
    OBVIOUS
  <2>1. /\ Records(e) /\ meetings' = meetings + 1 /\ todo # <<>> /\ Head(todo).op = "start"
        /\ meeting' = [id |-> meetings + 1, active |-> TRUE]
    BY <1>7, StartRecords, Unpacked DEF Memory
  <2>2. e \in StoredEvent(n) /\ e.type = "meeting.started" /\ e.data = meetings + 1
    <3>1. e \in StoredEvent(n)
      <4>1. meetings + 1 \in Nat
        BY <1>2
      <4> QED
        BY <4>1, EventsTyped
    <3> QED
      BY <3>1 DEF Event
  <2>3. ~Known.meeting.active
    <3>1. 1 \in DOMAIN todo /\ todo[1].op = "start"
      BY <2>1, Lists DEF TypeInv, RecordsTyped
    <3>2. ~meeting.active
      BY <1>1, <3>1 DEF MeetingsInv, StartsInactive
    <3> QED
      BY <1>3, <3>2
  <2>4. Known' = Known \/ Known'.meeting = meeting'
    <3>1. CASE timeline' = timeline
      BY <3>1 DEF Known
    <3>2. CASE timeline' = Append(timeline, e)
      <4>1. Known \in Projection(n) /\ Known' = Project(Known, e)
        BY <2>2, <3>2, KnownTyped, KnownGrows
      <4>2. Project(Known, e).meeting = [id |-> e.data, active |-> TRUE]
        BY <2>2, <4>1, MeetingOf
      <4> QED
        BY <2>1, <2>2, <4>1, <4>2
    <3> QED
      BY <2>1, <3>1, <3>2 DEF Records
  <2>5. meeting'.id = meetings + 1 /\ meetings' = meetings + 1
    BY <2>1
  <2> QED
    BY <1>2, <1>3, <2>3, <2>4, <2>5 DEF RecordInv
<1>8. CASE MeetingEnds
  <2> PICK e : e = Event("meeting.ended", meeting.id)
    OBVIOUS
  <2>1. Records(e) /\ meetings' = meetings
    BY <1>8, EndRecords DEF counters
  <2>2. e \in StoredEvent(n)
    BY <1>2, EventsTyped
  <2>3. CASE timeline' = Append(timeline, e)
    <3>1. meeting' \in {meeting, [meeting EXCEPT !.active = FALSE]}
      BY <1>8 DEF MeetingEnds
    <3>2. meeting'.id = meeting.id
      BY <1>2, <3>1 DEF Meeting
    <3>3. Known \in Projection(n) /\ Known' = Project(Known, e)
      BY <2>2, <2>3, KnownTyped, KnownGrows
    <3>4. Known'.meeting \in {NoMeeting, [id |-> meeting.id, active |-> FALSE]}
      BY <3>3, NothingEnds, ProjectCases, Unpacked
    <3> QED
      BY <1>2, <1>3, <2>1, <3>2, <3>4 DEF RecordInv, NoMeeting
  <2>4. CASE timeline' = timeline
    <3>1. meeting' = meeting
      <4>1. Append(timeline, e) # timeline
        BY DEF TypeInv, RecordsTyped
      <4>2. failures' # failures
        BY <1>8, <2>4, <4>1 DEF MeetingEnds, Ends, TypeInv, ModesTyped
      <4> QED
        BY <1>8, <4>2 DEF MeetingEnds, Stored
    <3> QED
      BY <1>3, <2>1, <2>4, <3>1 DEF RecordInv, Known
  <2> QED
    BY <2>1, <2>3, <2>4 DEF Records
<1>9. CASE Restart
  <2>1. Memory' = Rebuilt /\ timeline' = timeline
    BY <1>9, RestartRebuilds
  <2>2. Memory' = Known
    BY <2>1, RebuiltIsReplay DEF Known
  <2>3. meeting' = Known.meeting /\ Known' = Known /\ meetings' = meetings
    BY <1>9, <2>1, <2>2 DEF Memory, Pack, Known, Restart
  <2> QED
    BY <1>2, <1>3, <2>3 DEF RecordInv
<1> QED
  BY <1>4, <1>5, <1>6, <1>7, <1>8, <1>9, Steps

(* What is rebuilt after each kind of event is a step of the record.        *)
LEMMA RecordSteps ==
    ASSUME NEW m, NEW t, NEW f, NEW p, NEW u, NEW g,
           Rebuilt = Pack(m, t, f), Rebuilt' = Pack(p, u, g)
    PROVE  /\ ~m.active /\ p.id > m.id /\ p = [id |-> p.id, active |-> TRUE]
              /\ u = <<>> /\ g = <<>> => Record!Next
           /\ p.id >= m.id /\ p = [id |-> p.id, active |-> FALSE] /\ u = t /\ g = f =>
                 Record!Next
           /\ \A s \in {t[i].id : i \in DOMAIN t} :
                     p = m /\ u = t /\ g = Append(f, s) => Record!Next
<1>1. /\ Rebuilt.meeting = m /\ Rebuilt.transcript = t /\ Rebuilt.facts = f
      /\ Rebuilt'.meeting = p /\ Rebuilt'.transcript = u /\ Rebuilt'.facts = g
  BY DEF Pack
<1>2. ~m.active /\ p.id > m.id /\ p = [id |-> p.id, active |-> TRUE] /\ u = <<>> /\ g = <<>> =>
         Record!Next
  BY <1>1 DEF Record!Next, Record!Start
<1>3. p.id >= m.id /\ p = [id |-> p.id, active |-> FALSE] /\ u = t /\ g = f => Record!Next
  BY <1>1 DEF Record!Next, Record!End
<1>4. ASSUME NEW s \in {t[i].id : i \in DOMAIN t}, p = m, u = t, g = Append(f, s)
      PROVE  Record!Next
  <2>1. s \in Record!Said
    BY <1>1, <1>4 DEF Record!Said, Record!Held
  <2>2. Record!Extract(s)
    BY <1>1, <1>4, <2>1 DEF Record!Extract
  <2> QED
    BY <2>1, <2>2 DEF Record!Next
<1> QED
  BY <1>2, <1>3, <1>4

(* A segment more is a step of the record, when it is newer than the        *)
(* others.                                                                  *)
LEMMA RecordSpeaks ==
    ASSUME NEW S, NEW m, NEW t \in Seq(S), NEW f, NEW s,
           Rebuilt = Pack(m, t, f), Rebuilt' = Pack(m, Append(t, s), f),
           \A i \in DOMAIN t : t[i].id < s.id
    PROVE  Record!Next
<1>1. /\ Rebuilt.meeting = m /\ Rebuilt.transcript = t /\ Rebuilt.facts = f
      /\ Rebuilt'.meeting = m /\ Rebuilt'.transcript = Append(t, s) /\ Rebuilt'.facts = f
  BY DEF Pack
<1> PICK u : u = Append(t, s)
  OBVIOUS
<1>2. s \in {u[i] : i \in DOMAIN u}
  <2>1. u \in Seq(S \cup {s}) /\ Len(u) = Len(t) + 1 /\ u[Len(t) + 1] = s /\ Len(t) \in Nat
    <3>1. t \in Seq(S \cup {s}) /\ s \in S \cup {s}
      OBVIOUS
    <3> QED
      BY <3>1
  <2>2. Len(t) + 1 \in DOMAIN u
    BY <2>1
  <2> QED
    BY <2>1, <2>2
<1>3. s \in Record!Held(Rebuilt'.transcript)
  BY <1>1, <1>2 DEF Record!Held
<1>4. \A id \in Record!Said : id < s.id
  BY <1>1 DEF Record!Said, Record!Held
<1>5. Record!Speak(s)
  BY <1>1, <1>4 DEF Record!Speak
<1> QED
  BY <1>3, <1>5 DEF Record!Next

(* What a new process would rebuild, before a step and after it.            *)
LEMMA RebuiltAt ==
    /\ Rebuilt = Replay(timeline, IF Len(timeline) < RebuildLimit THEN Len(timeline)
                                  ELSE RebuildLimit)
    /\ Rebuilt' = Replay(timeline', IF Len(timeline') < RebuildLimit THEN Len(timeline')
                                    ELSE RebuildLimit)
BY DEF Rebuilt, Replay

(* One event more is in what a new process would rebuild, or is beyond what *)
(* it reads.                                                                *)
LEMMA RebuiltStays ==
    ASSUME TypeInv, NEW n \in Nat, segments <= n, NEW e \in StoredEvent(n),
           timeline' = Append(timeline, e)
    PROVE  \/ Rebuilt' = Rebuilt
           \/ Len(timeline) < RebuildLimit /\ Rebuilt = Known /\ Rebuilt' = Project(Known, e)
<1>1. RebuildLimit \in Nat
  BY BoundAssumption
<1>2. /\ Len(timeline) \in Nat /\ Len(timeline') = Len(timeline) + 1
      /\ Known' = Project(Known, e)
      /\ \A k \in 0 .. Len(timeline) : Replay(timeline', k) = Replay(timeline, k)
  BY KnownGrows
<1>3. CASE Len(timeline) < RebuildLimit
  <2>1. Rebuilt = Known
    BY <1>3, RebuiltAt DEF Known
  <2>2. Rebuilt' = Replay(timeline', Len(timeline'))
    <3>1. CASE Len(timeline') < RebuildLimit
      BY <3>1, RebuiltAt
    <3>2. CASE ~(Len(timeline') < RebuildLimit)
      <4>1. Len(timeline') = RebuildLimit
        BY <1>1, <1>2, <1>3, <3>2
      <4> QED
        BY <3>2, <4>1, RebuiltAt
    <3> QED
      BY <3>1, <3>2
  <2> QED
    BY <1>2, <1>3, <2>1, <2>2 DEF Known
<1>4. CASE ~(Len(timeline) < RebuildLimit)
  <2>1. ~(Len(timeline') < RebuildLimit) /\ RebuildLimit \in 0 .. Len(timeline)
    BY <1>1, <1>2, <1>4
  <2>2. Rebuilt = Replay(timeline, RebuildLimit) /\ Rebuilt' = Replay(timeline', RebuildLimit)
    BY <1>4, <2>1, RebuiltAt
  <2> QED
    BY <1>2, <2>1, <2>2
<1> QED
  BY <1>3, <1>4

(* Each step is a step of the record, or leaves it alone.                   *)
LEMMA RecordStep ==
    ASSUME TypeInv, FactsInv, MeetingsInv, RecordInv, Next
    PROVE  Rebuilt' = Rebuilt \/ Record!Next
<1> SUFFICES ASSUME Rebuilt' # Rebuilt PROVE Record!Next
  OBVIOUS
<1> PICK n \in Nat : n = segments
  BY DEF TypeInv, ModesTyped
<1>1. ASSUME NEW k \in Nat, n <= k, NEW e \in StoredEvent(k), Records(e)
      PROVE  /\ Len(timeline) < RebuildLimit /\ Rebuilt = Known
             /\ Rebuilt' = Project(Known, e)
  <2>1. timeline' = timeline => Rebuilt' = Rebuilt
    BY DEF Rebuilt
  <2> QED
    BY <1>1, <2>1, RebuiltStays DEF Records
<1> PICK m \in Meeting, t \in Seq(SegmentUpTo(n)), f \in Seq(1 .. n) : Known = Pack(m, t, f)
  <2>1. Known \in Projection(n)
    BY KnownTyped
  <2> QED
    BY <2>1, Unpacked
<1>2. m.id \in Nat /\ m = Known.meeting /\ meetings \in Nat /\ meeting.id \in Nat
  <2>1. meeting \in Meeting
    <3>1. Memory \in Projection(n)
      BY KnownTyped
    <3>2. Memory.meeting \in Meeting
      BY <3>1, Unpacked
    <3> QED
      BY <3>2, Unpacked DEF Memory
  <2> QED
    BY <2>1, Unpacked DEF Meeting, TypeInv, ModesTyped
<1>3. Len(timeline) < RebuildLimit =>
         /\ m.active => meeting = m
         /\ m.id <= meeting.id /\ meeting.id <= meetings
         /\ StartsInactive
  <2>1. Len(timeline) \in Nat /\ RebuildLimit \in Nat
    BY BoundAssumption DEF TypeInv, RecordsTyped
  <2> QED
    BY <1>2, <2>1 DEF RecordInv, MeetingsInv
<1>4. CASE Quiet
  <2>1. CASE timeline' = timeline
    BY <2>1 DEF Rebuilt
  <2>2. ASSUME NEW e \in PassiveEvent, timeline' = Append(timeline, e) PROVE Record!Next
    <3>1. e \in StoredEvent(n)
      BY EventsTyped
    <3>2. Rebuilt = Known /\ Rebuilt' = Project(Known, e)
      BY <2>2, <3>1, RebuiltStays
    <3> QED
      BY <3>2, PassiveEvents
  <2> QED
    BY <1>4, <2>1, <2>2 DEF Quiet
<1>5. CASE MeetingStarts
  <2> PICK e, d : d = meetings + 1 /\ e = Event("meeting.started", d)
    OBVIOUS
  <2>1. Records(e) /\ todo # <<>> /\ Head(todo).op = "start" /\ d \in Nat
    BY <1>2, <1>5, StartRecords
  <2>2. /\ Len(timeline) < RebuildLimit /\ Rebuilt = Pack(m, t, f)
        /\ Rebuilt' = Pack([id |-> d, active |-> TRUE], <<>>, <<>>)
    <3>1. e \in StoredEvent(n)
      BY <2>1, EventsTyped
    <3>2. Len(timeline) < RebuildLimit /\ Rebuilt = Known /\ Rebuilt' = Project(Known, e)
      BY <1>1, <2>1, <3>1
    <3> QED
      BY <3>2, ProjectCases
  <2>3. ~m.active
    <3>1. 1 \in DOMAIN todo /\ todo[1].op = "start"
      BY <2>1, Lists DEF TypeInv, RecordsTyped
    <3>2. ~meeting.active
      BY <1>3, <2>2, <3>1 DEF StartsInactive
    <3> QED
      BY <1>3, <2>2, <3>2
  <2>4. d > m.id
    BY <1>2, <1>3, <2>2
  <2> PICK p : p = [id |-> d, active |-> TRUE]
    OBVIOUS
  <2>5. p.id = d /\ p = [id |-> p.id, active |-> TRUE] /\ Rebuilt' = Pack(p, <<>>, <<>>)
    BY <2>2
  <2>6. p.id > m.id
    BY <2>4, <2>5
  <2> QED
    BY <2>2, <2>3, <2>5, <2>6, RecordSteps
<1>6. CASE MeetingEnds
  <2> PICK e, d : d = meeting.id /\ e = Event("meeting.ended", d)
    OBVIOUS
  <2>1. Records(e)
    BY <1>6, EndRecords
  <2>2. e \in StoredEvent(n)
    BY <1>2, EventsTyped
  <2>3. Len(timeline) < RebuildLimit /\ Rebuilt = Known /\ Rebuilt' = Project(Known, e)
    BY <1>1, <2>1, <2>2
  <2>4. m # NoMeeting
    BY <1>2, <2>3, NothingEnds
  <2>5. Rebuilt = Pack(m, t, f) /\ Rebuilt' = Pack([id |-> d, active |-> FALSE], t, f)
    BY <2>3, <2>4, ProjectCases
  <2> PICK p : p = [id |-> d, active |-> FALSE]
    OBVIOUS
  <2>6. p.id = d /\ p = [id |-> p.id, active |-> FALSE] /\ Rebuilt' = Pack(p, t, f)
    BY <2>5
  <2>7. p.id >= m.id
    BY <1>2, <1>3, <2>3, <2>6
  <2> QED
    BY <2>5, <2>6, <2>7, RecordSteps
<1>7. CASE FinalSegment
  <2> PICK e, s, k : /\ s = NewSegment(Head(todo).text) /\ e = Event("transcript.final", s)
                     /\ k = n + 1
    OBVIOUS
  <2>1. Records(e) /\ s \in SegmentUpTo(k) /\ k \in Nat /\ n <= k
    BY <1>7, FinalRecords
  <2>2. e \in StoredEvent(k)
    BY <2>1, EventsTyped
  <2>3. Rebuilt = Pack(m, t, f) /\ Rebuilt' = Pack(m, Append(t, s), f)
    BY <1>1, <2>1, <2>2, ProjectCases
  <2>4. t \in Seq(SegmentUpTo(n))
    OBVIOUS
  <2>5. \A i \in DOMAIN t : t[i].id < s.id
    <3>1. s.id = k
      BY DEF NewSegment
    <3>2. ASSUME NEW i \in DOMAIN t PROVE t[i].id \in 1 .. n
      <4>1. t[i] \in SegmentUpTo(n)
        OBVIOUS
      <4> QED
        BY <4>1 DEF SegmentUpTo
    <3> QED
      BY <3>1, <3>2
  <2> QED
    BY <2>3, <2>4, <2>5, RecordSpeaks
<1>8. CASE FactExtracted
  <2> PICK e, s : s = Head(todo).segment /\ e = Event("meeting.fact_extracted", s)
    OBVIOUS
  <2>1. Records(e) /\ s \in 1 .. n /\ todo # <<>> /\ Head(todo).op = "fact"
    BY <1>8, FactRecords
  <2>2. e \in StoredEvent(n)
    BY <2>1, EventsTyped
  <2>3. Rebuilt = Pack(m, t, f) /\ Rebuilt' = Pack(m, t, Append(f, s))
    BY <1>1, <2>1, <2>2, ProjectCases
  <2>4. s \in {t[i].id : i \in DOMAIN t}
    <3>1. 1 \in DOMAIN todo /\ todo[1] = Head(todo)
      BY <2>1, Lists DEF TypeInv, RecordsTyped
    <3>2. s \in Ids(Known)
      BY <2>1, <3>1 DEF FactsInv
    <3> QED
      BY <3>2, IdsOf
  <2> QED
    BY <2>3, <2>4, RecordSteps
<1>9. CASE Restart
  <2>1. timeline' = timeline
    BY <1>9, RestartRebuilds
  <2> QED
    BY <2>1 DEF Rebuilt
<1> QED
  BY <1>4, <1>5, <1>6, <1>7, <1>8, <1>9, Steps

(* What a new process would begin with is a MeetingRecord: whatever handler *)
(* stops where, fails or waits, and however long the timeline is.           *)
THEOREM RuntimeImplementsRecord == Spec => ImplementsRecord
<1>1. Init => Record!Init
  <2> SUFFICES ASSUME Init PROVE Record!Init
    OBVIOUS
  <2>1. Len(timeline) = 1 /\ timeline[1] = Other
    BY DEF Init
  <2>2. Replay(timeline, 0 + 1) = Project(Replay(timeline, 0), timeline[0 + 1])
    BY ReplayNext
  <2>3. Replay(timeline, 0) = EmptyProjection /\ Replay(timeline, 1) = EmptyProjection
    BY <2>1, <2>2, ReplayFirst, PassiveEvents
  <2>4. RebuildLimit \in Nat
    BY BoundAssumption
  <2>5. Rebuilt = EmptyProjection
    BY <2>1, <2>3, <2>4, RebuiltAt
  <2> QED
    BY <2>5 DEF Record!Init, EmptyProjection, NoMeeting
<1>2. TypeInv /\ FactsInv /\ MeetingsInv /\ RecordInv /\ [Next]_vars =>
          RecordInv' /\ [Record!Next]_(Record!vars)
  <2>1. ASSUME RecordInv, UNCHANGED vars PROVE RecordInv'
    BY <2>1 DEF vars, RecordInv, Known
  <2>2. ASSUME UNCHANGED vars PROVE Rebuilt' = Rebuilt
    BY <2>2 DEF vars, Rebuilt
  <2>3. Rebuilt' = Rebuilt => UNCHANGED Record!vars
    BY DEF Record!vars
  <2> QED
    BY <2>1, <2>2, <2>3, NextRecord, RecordStep
<1> QED
  BY <1>1, <1>2, InitRecord, MeetingsHold, Typing, PTL DEF Spec, ImplementsRecord, Record!Spec

=============================================================================

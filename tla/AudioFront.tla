----------------------------- MODULE AudioFront -----------------------------
(***************************************************************************)
(* From the microphone to the mode of the agent: frames that the page      *)
(* sends are kept in the ring buffer, the wake detector listens to its end *)
(* at intervals, and a detection changes the mode.  The settings of the    *)
(* buffer and the detector are stored one by one as they are changed.      *)
(*                                                                         *)
(* Handlers do not suspend, so each is one action.  A write of theirs may  *)
(* raise, which closes the audio channel.  Frames carry the clock of the   *)
(* page that sent them, which starts again when the page is loaded, and    *)
(* arrive at the tick they were captured at.  What the detector hears in a *)
(* recording is arbitrary, but it detects nothing without a sample.        *)
(***************************************************************************)
EXTENDS AudioRing, FiniteSets

CONSTANTS
    FrameLength,    \* durations of frames
    MinSpeech,      \* audio a check needs (900 ms)
    Window,         \* audio a check listens to (1400 ms)
    CheckGap,       \* between two checks (400 ms)
    Cooldown,       \* after a detection (2000 ms)
    Patch,          \* settings that are sent together, each key once, in their order
    DefaultBuffer,  \* the buffer's capacity when nothing is set (5000 ms)
    MaxClock,       \* bound on the clock
    MaxFrames,      \* bound on the frames between two resets of the buffer
    MaxMishaps      \* bound on store failures, reloads and restarts

Key     == {"audio.buffer_ms", "wake.threshold", "connector.excel.allowed_root"}
Setting == [key : Key, value : Nat]

\* Mutant: the buffer takes a capacity of zero.
UsableNumber(value) == value >= 0

\* int() or float() takes the value, and the buffer its capacity; the allowed root
\* can be made.  Zero stands for every value that is refused.
Usable(value) == value > 0

ASSUME TimesAssumption ==
    /\ FrameLength \cup {MinSpeech, Window, CheckGap, Cooldown, DefaultBuffer}
           \subseteq Nat \ {0}
    /\ {MaxClock, MaxFrames, MaxMishaps} \subseteq Nat
ASSUME PatchAssumption ==
    \A patch \in Patch :
        /\ patch \in Seq(Setting)
        /\ \A i, j \in DOMAIN patch : patch[i].key = patch[j].key => i = j

Phrase == {"activation", "deactivation"}

VARIABLES
    up,           \* the backend runs; FALSE when it could not start
    stored,       \* the settings table
    live,         \* the settings the objects in memory work with
    samples,      \* the phrases of which a recording is enrolled
    listening,    \* the mode: the microphone is off, or the phrase listened for
    ring,         \* the audio ring buffer
    received,     \* every frame since the buffer was last emptied
    connected,    \* the page's audio channel is open
    page,         \* when the page was loaded
    reloaded,     \* the page was loaded again after the last check
    lastCheck,    \* _last_wake_check_ms, in the page's time
    checkedAt,    \* when the last check was, or the process started
    quietUntil,   \* _wake_cooldown_until
    detectedAt,   \* when this process last detected a phrase
    clock,
    mishaps

settings == <<up, stored, live>>
audio    == <<ring, received>>
wake     == <<lastCheck, checkedAt, quietUntil, detectedAt>>
client   == <<connected, page, reloaded>>
vars == <<settings, samples, listening, audio, wake, client, clock, mishaps>>

Never   == 0 - Cooldown
Default == [key \in Key |-> IF key = "audio.buffer_ms" THEN DefaultBuffer ELSE 1]

Mishap == mishaps < MaxMishaps /\ mishaps' = mishaps + 1

\* A write raises: the exception leaves the audio socket's handler.
Raises == Mishap /\ connected' = FALSE

-----------------------------------------------------------------------------
Init ==
    /\ up = TRUE
    /\ stored = Default
    /\ live = Default
    /\ samples = {}
    /\ listening = "off"
    /\ ring = NewRing(DefaultBuffer)
    /\ received = <<>>
    /\ connected = FALSE
    /\ page = 0
    /\ reloaded = FALSE
    /\ lastCheck = 0
    /\ checkedAt = 0
    /\ quietUntil = 0
    /\ detectedAt = Never
    /\ clock = 0
    /\ mishaps = 0

-----------------------------------------------------------------------------
\* ingest_audio.  With the microphone off a frame is refused and nothing changes.

Now == clock - page

Accept(frame) ==
    /\ up /\ connected
    /\ listening # "off"
    /\ Len(received) < MaxFrames
    /\ ring' = Push(ring, frame)
    /\ received' = Append(received, frame)

\* A check is due, with the frame in the buffer.
Due ==
    /\ clock >= quietUntil
    /\ ring'.duration >= MinSpeech
    /\ Now - lastCheck >= CheckGap

\* Mutant: the gap is counted from the last frame.
BufferAsCheck(frame) ==
    /\ Accept(frame)
    /\ \/ ~Due /\ UNCHANGED <<connected, mishaps>>
       \/ Raises
    /\ lastCheck' = Now
    /\ UNCHANGED <<settings, samples, listening, checkedAt, quietUntil, detectedAt,
                   page, reloaded, clock>>

\* No check is due, or announcing the level raises before it.
Buffer(frame) ==
    /\ Accept(frame)
    /\ \/ ~Due /\ UNCHANGED <<connected, mishaps>>
       \/ Raises
    /\ UNCHANGED <<settings, samples, listening, wake, page, reloaded, clock>>

CheckStarts(frame) ==
    /\ Accept(frame)
    /\ Due
    /\ lastCheck' = Now
    /\ checkedAt' = clock
    /\ reloaded' = FALSE

\* Nothing is detected, or announcing the score raises.
Check(frame) ==
    /\ CheckStarts(frame)
    /\ UNCHANGED <<connected, mishaps>> \/ Raises
    /\ UNCHANGED <<settings, samples, listening, quietUntil, detectedAt, page, clock>>

\* detect: nothing is heard without a recording of the phrase, or without audio.
MayDetect == listening \in samples /\ Snapshot(ring', Window) # <<>>

\* Mutant: the pause begins when the detection was announced.
WakePausesLate(frame) ==
    /\ CheckStarts(frame)
    /\ MayDetect
    /\ detectedAt' = clock
    /\ \/ /\ listening' \in Phrase \ {listening}
          /\ quietUntil' = clock + Cooldown
          /\ UNCHANGED <<connected, mishaps>>
       \/ Raises /\ UNCHANGED <<quietUntil, listening>>
    /\ UNCHANGED <<settings, samples, page, clock>>

\* The phrase is detected: the mode changes, unless announcing the detection raises;
\* storing or announcing the new mode may raise as well.
Wake(frame) ==
    /\ CheckStarts(frame)
    /\ MayDetect
    /\ quietUntil' = clock + Cooldown
    /\ detectedAt' = clock
    /\ \/ /\ listening' \in Phrase \ {listening}
          /\ UNCHANGED <<connected, mishaps>> \/ Raises
       \/ Raises /\ UNCHANGED listening
    /\ UNCHANGED <<settings, samples, page, clock>>

-----------------------------------------------------------------------------
\* The other handlers.

\* set_state, by a command or a meeting, whether or not the mode could be stored;
\* switching the microphone off empties the buffer.
SetMode(to) ==
    /\ up
    /\ listening' = to
    /\ ring' = IF to = "off" THEN Cleared(ring) ELSE ring
    /\ received' = IF to = "off" THEN <<>> ELSE received
    /\ UNCHANGED <<settings, samples, wake, client, clock, mishaps>>

\* enroll_wake, and delete_wake_sample of the last recording of its phrase.
Enroll(phrase) ==
    /\ up
    /\ samples' = samples \cup {phrase}
    /\ UNCHANGED <<settings, listening, audio, wake, client, clock, mishaps>>

DeleteSample(phrase) ==
    /\ up
    /\ samples' = samples \ {phrase}
    /\ UNCHANGED <<settings, listening, audio, wake, client, clock, mishaps>>

\* The first n settings of a patch were taken up: they are stored, and what can be
\* converted is in use; the allowed root is in use before it is made.
TakesUp(patch, n) ==
    LET sent(key) == {patch[i].value : i \in {j \in 1 .. n : patch[j].key = key}}
        inUse(key) == {v \in sent(key) : Usable(v) \/ key = "connector.excel.allowed_root"}
        Latest(values, old) == IF values = {} THEN old ELSE CHOOSE v \in values : TRUE
        buffer == inUse("audio.buffer_ms")
    IN  /\ stored' = [key \in Key |-> Latest(sent(key), stored[key])]
        /\ live' = [key \in Key |-> Latest(inUse(key), live[key])]
        /\ ring' = IF buffer = {} THEN ring ELSE NewRing(live'["audio.buffer_ms"])
        /\ received' = IF buffer = {} THEN received ELSE <<>>

\* Mutant: a new capacity is used from the next start on.
UpdateSettingsLater(patch) ==
    /\ up
    /\ stored' = [key \in Key |->
                    IF \E i \in DOMAIN patch : patch[i].key = key
                    THEN patch[CHOOSE i \in DOMAIN patch : patch[i].key = key].value
                    ELSE stored[key]]
    /\ UNCHANGED <<up, live, samples, listening, audio, wake, client, clock, mishaps>>

\* update_settings stops after the first setting it cannot convert, or when the
\* store raises before any of them.
UpdateSettings(patch) ==
    /\ up
    /\ \E n \in 0 .. Len(patch) :
         /\ TakesUp(patch, n)
         /\ \A i \in 1 .. (n - 1) : Usable(patch[i].value)
         /\ \/ /\ n = Len(patch) \/ (n > 0 /\ ~Usable(patch[n].value))
               /\ UNCHANGED mishaps
            \/ n < Len(patch) /\ Mishap
    /\ UNCHANGED <<up, samples, listening, wake, client, clock>>

-----------------------------------------------------------------------------
\* The page and the process.

\* After its channel was closed, the page opens one only when the user stops the
\* microphone and starts it again.
StartMicrophone ==
    /\ up
    /\ ~connected
    /\ connected' = TRUE
    /\ UNCHANGED <<settings, samples, listening, audio, wake, page, reloaded, clock, mishaps>>

Reload ==
    /\ Mishap
    /\ connected' = FALSE
    /\ page' = clock
    /\ reloaded' = TRUE
    /\ UNCHANGED <<settings, samples, listening, audio, wake, clock>>

\* A new process takes up what is stored, which stops it when a setting cannot be
\* converted.  The mode it takes up is that of MeetingRuntime, any of them here.
Restart ==
    /\ Mishap
    /\ up' = \A key \in Key : Usable(stored[key])
    /\ live' = stored
    /\ ring' = NewRing(stored["audio.buffer_ms"])
    /\ received' = <<>>
    /\ lastCheck' = 0
    /\ checkedAt' = clock
    /\ quietUntil' = 0
    /\ detectedAt' = Never
    /\ listening' \in Phrase \cup {"off"}
    /\ connected' = FALSE
    /\ UNCHANGED <<stored, samples, page, reloaded, clock>>

Tick ==
    /\ clock < MaxClock
    /\ clock' = clock + 1
    /\ UNCHANGED <<settings, samples, listening, audio, wake, client, mishaps>>

Next ==
    \/ \E frame \in FrameLength : Buffer(frame) \/ Check(frame) \/ Wake(frame)
    \/ \E to \in Phrase \cup {"off"} : SetMode(to)
    \/ \E phrase \in Phrase : Enroll(phrase) \/ DeleteSample(phrase)
    \/ \E patch \in Patch : UpdateSettings(patch)
    \/ StartMicrophone \/ Reload \/ Restart \/ Tick

Spec == Init /\ [][Next]_vars

-----------------------------------------------------------------------------
TypeOK ==
    /\ up \in BOOLEAN
    /\ {stored, live} \subseteq [Key -> Nat]
    /\ samples \subseteq Phrase
    /\ listening \in Phrase \cup {"off"}
    /\ ring \in [capacity : Nat, frames : Seq(FrameLength), duration : Nat]
    /\ up => ring.capacity > 0
    /\ received \in Seq(FrameLength)
    /\ {connected, reloaded} \subseteq BOOLEAN
    /\ {page, lastCheck, checkedAt, quietUntil, clock, mishaps} \subseteq Nat
    /\ detectedAt \in Int

(* The buffer holds the end of what was captured since it was last emptied, *)
(* as much of it as fits, and its counted duration is the true one.         *)
KeepsTheLatest ==
    LET held == Len(ring.frames)
    IN  /\ held <= Len(received)
        /\ ring.frames = Newest(received, held)
        /\ ring.duration = Total(ring.frames)
        /\ ring.duration <= ring.capacity
        /\ held < Len(received) => Total(Newest(received, held + 1)) > ring.capacity

(* What the detector listens to is the end of what was captured: no frame   *)
(* more than its window needs, and less than the window only when no more   *)
(* was captured or the buffer cannot hold more.  "Buffer returns correct    *)
(* pre-roll frames" (handoff/tasks/04-audio-buffer-state/TASK.md).          *)
PreRollIsComplete ==
    LET heard == Snapshot(ring, Window)
        n     == Len(heard)
    IN  /\ heard = Newest(received, n)
        /\ heard # <<>> => Total(Tail(heard)) < Window
        /\ \/ Total(heard) >= Window
           \/ n = Len(received)
           \/ Total(Newest(received, n + 1)) > ring.capacity

(* A process that detected a phrase detects none for the length of the      *)
(* pause, also when announcing it failed.                                   *)
OnePhraseWakesOnce ==
    [][detectedAt' \notin {detectedAt, Never} => clock >= detectedAt + Cooldown]_vars

(* While frames come, the detector listens again as soon as the gap is      *)
(* over, unless the page was loaded again: its clock then starts anew, and  *)
(* until it has caught up with the old one nothing is checked.              *)
DeafOnlyAfterReload ==
    [][/\ Len(received') > Len(received)
       /\ connected'
       /\ ring'.duration >= MinSpeech
       /\ clock >= quietUntil
       /\ clock - checkedAt >= CheckGap
       => checkedAt' = clock \/ reloaded]_vars

(* The settings a new process would take up are those in use, however far a *)
(* patch came, except for a stored one that cannot be converted.            *)
SettingsSurviveRestart ==
    \A key \in Key : Usable(stored[key]) => live[key] = stored[key]
=============================================================================

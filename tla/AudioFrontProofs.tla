-------------------------- MODULE AudioFrontProofs --------------------------
(***************************************************************************)
(* What holds of frames, detections, checks and settings for all lengths   *)
(* of frames and intervals, all patches, and any number of mishaps.        *)
(*                                                                         *)
(* ListenInv ties the two clocks together: the time of the last check is   *)
(* counted on the page's clock, and reaches back behind the check only     *)
(* when the page was loaded again since.                                   *)
(*                                                                         *)
(* The buffer is compared with all frames that came since it was emptied.  *)
(* The duration of a list is a sum over it; SumNext and SumPrefix, proved  *)
(* by induction, reduce it to one frame more.  Latest says that the buffer *)
(* holds the newest frames, as many as fit and no fewer; LatestGrows, that *)
(* the next frame, with the evictions it causes, keeps it so.              *)
(***************************************************************************)
EXTENDS AudioFront, Induction

(* The pause lasts from a detection on.                                     *)
PauseInv ==
    /\ {clock, quietUntil} \subseteq Nat
    /\ detectedAt \in Int
    /\ quietUntil >= detectedAt + Cooldown

ListenInv ==
    /\ {clock, page, lastCheck, checkedAt} \subseteq Nat
    /\ page <= clock
    /\ received \in Seq(FrameLength)
    /\ ~reloaded => lastCheck + page <= checkedAt

LEMMA CooldownIsPositive ==
    Cooldown \in Nat /\ Cooldown > 0 /\ Never \in Int /\ Never + Cooldown = 0
BY TimesAssumption DEF Never

-----------------------------------------------------------------------------
LEMMA InitPause == Init => PauseInv
BY CooldownIsPositive DEF Init, PauseInv

(* Only a detection and a new process touch the pause, and the detection    *)
(* begins it.                                                               *)
LEMMA NextPause == PauseInv /\ [Next]_vars => PauseInv'
<1> SUFFICES ASSUME PauseInv, [Next]_vars PROVE PauseInv'
  OBVIOUS
<1>1. CASE \E frame \in FrameLength : Buffer(frame) \/ Check(frame)
  BY <1>1 DEF PauseInv, Buffer, Check, CheckStarts, wake
<1>2. CASE \E frame \in FrameLength : Wake(frame)
  BY <1>2, CooldownIsPositive DEF PauseInv, Wake
<1>3. CASE Restart
  BY <1>3, CooldownIsPositive DEF PauseInv, Restart
<1>4. CASE Tick
  BY <1>4 DEF PauseInv, Tick, wake
<1>5. CASE \/ \E to \in Phrase \cup {"off"} : SetMode(to)
           \/ \E phrase \in Phrase : Enroll(phrase) \/ DeleteSample(phrase)
           \/ \E patch \in Patch : UpdateSettings(patch)
           \/ StartMicrophone \/ Reload
  BY <1>5 DEF PauseInv, SetMode, Enroll, DeleteSample, UpdateSettings, StartMicrophone, Reload,
     wake
<1>6. CASE UNCHANGED vars
  BY <1>6 DEF PauseInv, vars, wake
<1> QED
  BY <1>1, <1>2, <1>3, <1>4, <1>5, <1>6 DEF Next

(* A step that detects a phrase is Wake, and its check was due.             *)
LEMMA DetectsWhenDue ==
    ASSUME PauseInv, Next, detectedAt' \notin {detectedAt, Never}
    PROVE  clock >= detectedAt + Cooldown
<1>1. PICK frame \in FrameLength : Wake(frame)
  BY DEF Next, Buffer, Check, CheckStarts, Restart, Tick, SetMode, Enroll, DeleteSample,
     UpdateSettings, StartMicrophone, Reload, wake
<1>2. clock >= quietUntil
  BY <1>1 DEF Wake, CheckStarts, Due
<1> QED
  BY <1>2, CooldownIsPositive DEF PauseInv

(* A phrase wakes once: ingest_audio listens again only after the pause.    *)
THEOREM PhrasesWakeOnce == Spec => OnePhraseWakesOnce
<1>1. PauseInv /\ [Next]_vars =>
        [detectedAt' \notin {detectedAt, Never} => clock >= detectedAt + Cooldown]_vars
  BY DetectsWhenDue
<1> QED
  BY <1>1, InitPause, NextPause, PTL DEF Spec, OnePhraseWakesOnce

-----------------------------------------------------------------------------
LEMMA InitListen == Init => ListenInv
BY DEF Init, ListenInv

(* What the operations of the mode and the settings do to the frames.       *)
LEMMA ReceivedEmptied ==
    ASSUME ListenInv,
           \/ \E to \in Phrase \cup {"off"} : SetMode(to)
           \/ \E patch \in Patch : UpdateSettings(patch)
    PROVE  received' \in {received, <<>>} /\ UNCHANGED <<wake, client, clock>>
BY DEF SetMode, UpdateSettings, TakesUp

LEMMA NextListen == ListenInv /\ [Next]_vars => ListenInv'
<1> SUFFICES ASSUME ListenInv, [Next]_vars PROVE ListenInv'
  OBVIOUS
<1>1. CASE \E frame \in FrameLength : Buffer(frame)
  BY <1>1 DEF ListenInv, Buffer, Accept, wake
<1>2. CASE \E frame \in FrameLength : Check(frame) \/ Wake(frame)
  <2>1. /\ lastCheck' = clock - page /\ checkedAt' = clock
        /\ UNCHANGED <<clock, page>>
        /\ received' \in Seq(FrameLength)
    <3> PICK frame \in FrameLength : CheckStarts(frame) /\ UNCHANGED <<clock, page>>
      BY <1>2 DEF Check, Wake
    <3>1. received \in Seq(FrameLength) /\ received' = Append(received, frame)
      BY DEF ListenInv, CheckStarts, Accept
    <3> QED
      BY <3>1 DEF CheckStarts, Now
  <2> QED
    BY <2>1 DEF ListenInv
<1>3. CASE \/ \E to \in Phrase \cup {"off"} : SetMode(to)
           \/ \E patch \in Patch : UpdateSettings(patch)
  <2>1. UNCHANGED <<lastCheck, checkedAt, page, reloaded, clock>>
    BY <1>3, ReceivedEmptied DEF wake, client
  <2>2. received' \in Seq(FrameLength)
    <3>1. received' = received \/ received' = <<>>
      BY <1>3, ReceivedEmptied
    <3>2. received \in Seq(FrameLength) /\ <<>> \in Seq(FrameLength)
      BY DEF ListenInv
    <3> QED
      BY <3>1, <3>2
  <2> QED
    BY <2>1, <2>2 DEF ListenInv
<1>4. CASE \E phrase \in Phrase : Enroll(phrase) \/ DeleteSample(phrase)
  BY <1>4 DEF ListenInv, Enroll, DeleteSample, audio, wake, client
<1>5. CASE StartMicrophone \/ Reload
  BY <1>5 DEF ListenInv, StartMicrophone, Reload, audio, wake
<1>6. CASE Restart
  BY <1>6 DEF ListenInv, Restart
<1>7. CASE Tick
  BY <1>7 DEF ListenInv, Tick, audio, wake, client
<1>8. CASE UNCHANGED vars
  BY <1>8 DEF ListenInv, vars, audio, wake, client
<1> QED
  BY <1>1, <1>2, <1>3, <1>4, <1>5, <1>6, <1>7, <1>8 DEF Next

(* A frame that is taken in is checked, or no check is due by the clock of  *)
(* the server, or the page was loaded again.                                *)
LEMMA FramesAreChecked ==
    ASSUME ListenInv, Next,
           Len(received') > Len(received), connected',
           ring'.duration >= MinSpeech, clock >= quietUntil,
           clock - checkedAt >= CheckGap
    PROVE  checkedAt' = clock \/ reloaded
<1>1. PICK frame \in FrameLength : Buffer(frame) \/ Check(frame) \/ Wake(frame)
  <2>1. ~(received' \in {received, <<>>})
    BY DEF ListenInv
  <2> QED
    BY <2>1, ReceivedEmptied DEF Next, Enroll, DeleteSample, StartMicrophone, Reload, Restart,
       Tick, audio
<1>2. CASE Buffer(frame)
  <2>1. ~Due
    BY <1>2 DEF Buffer, Raises
  <2>2. ~(clock - page - lastCheck >= CheckGap)
    BY <2>1 DEF Due, Now
  <2>3. CheckGap \in Nat
    BY TimesAssumption
  <2> QED
    BY <2>2, <2>3 DEF ListenInv
<1>3. CASE Check(frame) \/ Wake(frame)
  BY <1>3 DEF Check, Wake, CheckStarts
<1> QED
  BY <1>1, <1>2, <1>3

(* While frames come, the detector listens as often as it should, unless    *)
(* the clock of the page started anew.                                      *)
THEOREM DeafAfterReloadOnly == Spec => DeafOnlyAfterReload
<1>1. ListenInv /\ [Next]_vars =>
        [/\ Len(received') > Len(received)
         /\ connected'
         /\ ring'.duration >= MinSpeech
         /\ clock >= quietUntil
         /\ clock - checkedAt >= CheckGap
         => checkedAt' = clock \/ reloaded]_vars
  BY FramesAreChecked
<1> QED
  BY <1>1, InitListen, NextListen, PTL DEF Spec, DeafOnlyAfterReload

-----------------------------------------------------------------------------
(* A patch that was taken up as far as it goes leaves each of its settings  *)
(* stored and in use, unless it cannot be used, and the others alone.       *)
LEMMA TakenUp ==
    ASSUME NEW patch \in Patch, NEW n \in 0 .. Len(patch), TakesUp(patch, n),
           SettingsSurviveRestart
    PROVE  SettingsSurviveRestart'
<1> DEFINE Sent(key)  == {patch[i].value : i \in {j \in 1 .. n : patch[j].key = key}}
           InUse(key) == {v \in Sent(key) : Usable(v) \/ key = "connector.excel.allowed_root"}
<1> SUFFICES ASSUME NEW key \in Key, Usable(stored'[key])
             PROVE  live'[key] = stored'[key]
  BY DEF SettingsSurviveRestart
<1>1. /\ stored'[key] = IF Sent(key) = {} THEN stored[key] ELSE CHOOSE v \in Sent(key) : TRUE
      /\ live'[key] = IF InUse(key) = {} THEN live[key] ELSE CHOOSE v \in InUse(key) : TRUE
  BY DEF TakesUp
<1>2. CASE Sent(key) = {}
  BY <1>1, <1>2 DEF SettingsSurviveRestart
<1>3. CASE Sent(key) # {}
  <2>1. PICK j \in 1 .. n : patch[j].key = key
    BY <1>3
  <2>2. \A i \in 1 .. n : patch[i].key = key => i = j
    BY <2>1, PatchAssumption
  <2>3. Sent(key) = {patch[j].value}
    BY <2>1, <2>2
  <2>4. stored'[key] = patch[j].value
    BY <1>1, <2>3
  <2>5. InUse(key) = {patch[j].value}
    BY <2>3, <2>4
  <2> QED
    BY <1>1, <2>4, <2>5
<1> QED
  BY <1>2, <1>3

(* Whatever is stored and can be converted is in use, however far an update *)
(* came before it was refused or the store failed.                          *)
THEOREM SettingsAreDurable == Spec => []SettingsSurviveRestart
<1>1. Init => SettingsSurviveRestart
  BY DEF Init, SettingsSurviveRestart
<1>2. SettingsSurviveRestart /\ [Next]_vars => SettingsSurviveRestart'
  <2> SUFFICES ASSUME SettingsSurviveRestart, [Next]_vars PROVE SettingsSurviveRestart'
    OBVIOUS
  <2>1. CASE \E patch \in Patch : UpdateSettings(patch)
    BY <2>1, TakenUp DEF UpdateSettings
  <2>2. CASE Restart
    BY <2>2 DEF Restart, SettingsSurviveRestart
  <2>3. CASE \/ \E frame \in FrameLength : Buffer(frame) \/ Check(frame) \/ Wake(frame)
             \/ \E to \in Phrase \cup {"off"} : SetMode(to)
             \/ \E phrase \in Phrase : Enroll(phrase) \/ DeleteSample(phrase)
             \/ StartMicrophone \/ Reload \/ Tick
    <3>1. UNCHANGED <<stored, live>>
      BY <2>3 DEF Buffer, Check, Wake, SetMode, Enroll, DeleteSample, StartMicrophone, Reload,
         Tick, settings
    <3> QED
      BY <3>1 DEF SettingsSurviveRestart
  <2>4. CASE UNCHANGED vars
    BY <2>4 DEF vars, settings, SettingsSurviveRestart
  <2> QED
    BY <2>1, <2>2, <2>3, <2>4 DEF Next
<1> QED
  BY <1>1, <1>2, PTL DEF Spec

-----------------------------------------------------------------------------
(* How long frames last.                                                    *)

(* What the definition of SumTo picks: p sums up each beginning of s up to  *)
(* n.                                                                       *)
Sums(p, s, n) == p = [i \in 0 .. n |-> IF i = 0 THEN 0 ELSE p[i - 1] + s[i]]

(* The duration of the first n frames.                                      *)
SumTo(s, n) ==
    LET sum[i \in 0 .. n] == IF i = 0 THEN 0 ELSE sum[i - 1] + s[i]
    IN  sum[n]

(* Every beginning of every list has its sums.                              *)
LEMMA SumsExist ==
    ASSUME NEW s
    PROVE  \A n \in Nat : \E p : Sums(p, s, n)
<1> DEFINE T == {n \in Nat : \E p : Sums(p, s, n)}
<1>1. 0 \in T
  <2> DEFINE p == [i \in 0 .. 0 |-> 0]
  <2>1. Sums(p, s, 0)
    BY DEF Sums
  <2> QED
    BY <2>1
<1>2. ASSUME NEW n \in Nat, n \in T PROVE n + 1 \in T
  <2>1. PICK p : Sums(p, s, n)
    BY <1>2
  <2> DEFINE q == [i \in 0 .. n + 1 |-> IF i = n + 1 THEN p[n] + s[n + 1] ELSE p[i]]
  <2>2. Sums(q, s, n + 1)
    <3>1. \A i \in 0 .. n : q[i] = p[i]
      OBVIOUS
    <3>2. \A i \in 0 .. n : p[i] = IF i = 0 THEN 0 ELSE p[i - 1] + s[i]
      BY <2>1 DEF Sums
    <3>3. \A i \in 0 .. n + 1 :
             q[i] = IF i = 0 THEN 0 ELSE q[i - 1] + s[i]
      <4> TAKE i \in 0 .. n + 1
      <4>1. CASE i = n + 1
        BY <4>1, <3>1
      <4>2. CASE i \in 0 .. n
        <5> HIDE DEF q
        <5>1. i # 0 => q[i - 1] = p[i - 1]
          BY <4>2, <3>1
        <5> QED
        BY <4>2, <5>1, <3>1, <3>2
      <4> QED
        BY <4>1, <4>2
    <3> QED
      BY <3>3 DEF Sums
  <2> QED
    BY <2>2
<1> HIDE DEF T
<1>3. Nat \subseteq T
  BY <1>1, <1>2, Induction
<1> QED
  BY <1>3 DEF T

(* Lists that begin alike sum up alike that far.                            *)
LEMMA SumsAgree ==
    ASSUME NEW s, NEW t, NEW p, NEW q, NEW k \in Nat, NEW n \in Nat, k <= n,
           Sums(p, s, k), Sums(q, t, n),
           \A i \in 1 .. k : s[i] = t[i]
    PROVE  p[k] = q[k]
<1> DEFINE T == {i \in Nat : i <= k => p[i] = q[i]}
<1>1. 0 \in T
  BY DEF Sums
<1>2. ASSUME NEW i \in Nat, i \in T PROVE i + 1 \in T
  <2> SUFFICES ASSUME i + 1 <= k PROVE p[i + 1] = q[i + 1]
    OBVIOUS
  <2>1. p[i] = q[i]
    BY <1>2
  <2>2. p[i + 1] = p[i] + s[i + 1] /\ q[i + 1] = q[i] + t[i + 1]
    BY DEF Sums
  <2> QED
    BY <2>1, <2>2
<1> HIDE DEF T
<1>3. Nat \subseteq T
  BY <1>1, <1>2, Induction
<1> QED
  BY <1>3 DEF T

(* No frames last no time.                                                  *)
LEMMA SumFirst == \A s : SumTo(s, 0) = 0
<1> TAKE s
<1> DEFINE p == CHOOSE z : Sums(z, s, 0)
<1>1. Sums(p, s, 0)
  BY SumsExist
<1> QED
  BY <1>1 DEF SumTo, Sums

(* One frame more lasts that much longer.                                   *)
LEMMA SumNext ==
    \A s : \A n \in Nat : SumTo(s, n + 1) = SumTo(s, n) + s[n + 1]
<1> TAKE s
<1> TAKE n \in Nat
<1> PICK m \in Nat : m = n + 1
  OBVIOUS
<1> DEFINE p == CHOOSE z : Sums(z, s, n)
           q == CHOOSE z : Sums(z, s, m)
<1>1. Sums(p, s, n) /\ Sums(q, s, m)
  BY SumsExist
<1> HIDE DEF p, q
<1>2. p[n] = q[n]
  <2>1. n <= m
    OBVIOUS
  <2> QED
    BY <1>1, <2>1, SumsAgree, SMTT(60)
<1>3. q[m] = q[n] + s[m]
  BY <1>1 DEF Sums
<1> QED
  BY <1>2, <1>3 DEF SumTo, Sums, p, q

(* Only the frames that are counted matter.                                 *)
LEMMA SumPrefix ==
    \A s, t : \A n \in Nat :
       (\A i \in 1 .. n : s[i] = t[i]) => SumTo(s, n) = SumTo(t, n)
<1> TAKE s, t
<1> TAKE n \in Nat
<1> DEFINE p == CHOOSE z : Sums(z, s, n)
           q == CHOOSE z : Sums(z, t, n)
<1>1. Sums(p, s, n) /\ Sums(q, t, n)
  BY SumsExist
<1> HIDE DEF p, q
<1>2. (\A i \in 1 .. n : s[i] = t[i]) => p[n] = q[n]
  BY <1>1, SumsAgree
<1> QED
  BY <1>2 DEF SumTo, Sums, p, q

-----------------------------------------------------------------------------
(* The newest frames of a list.                                             *)

(* Frames of some length last some time.                                    *)
LEMMA SumsAreNumbers ==
    ASSUME NEW s \in Seq(Nat)
    PROVE  \A n \in 0 .. Len(s) : SumTo(s, n) \in Nat
<1> DEFINE T == {n \in Nat : n <= Len(s) => SumTo(s, n) \in Nat}
<1>1. 0 \in T
  BY SumFirst
<1>2. ASSUME NEW n \in Nat, n \in T PROVE n + 1 \in T
  <2> SUFFICES ASSUME n + 1 <= Len(s) PROVE SumTo(s, n + 1) \in Nat
    OBVIOUS
  <2>1. SumTo(s, n) \in Nat /\ s[n + 1] \in Nat
    BY <1>2
  <2>2. SumTo(s, n + 1) = SumTo(s, n) + s[n + 1]
    BY SumNext
  <2> QED
    BY <2>1, <2>2
<1> HIDE DEF T
<1>3. Nat \subseteq T
  BY <1>1, <1>2, Induction
<1> QED
  BY <1>3 DEF T

(* The duration of a list is that of all its frames.                        *)
LEMMA TotalIsSum == \A s : Total(s) = SumTo(s, Len(s))
BY DEF Total, SumTo

(* An empty list lasts no time.                                             *)
LEMMA TotalOfNone == Total(<<>>) = 0
BY TotalIsSum, SumFirst

(* The newest frames, one by one.                                           *)
LEMMA NewestIs ==
    ASSUME NEW S, NEW s \in Seq(S), NEW n \in 0 .. Len(s)
    PROVE  /\ Newest(s, n) \in Seq(S) /\ Len(Newest(s, n)) = n
           /\ \A i \in 1 .. n : Newest(s, n)[i] = s[Len(s) - n + i]
<1> PICK a, b : a = Len(s) - n + 1 /\ b = Len(s)
  OBVIOUS
<1>1. a \in Nat /\ b \in Nat /\ 1 <= a /\ b <= Len(s) /\ b - a + 1 = n /\ n \in Nat
  OBVIOUS
<1>2. /\ SubSeq(s, a, b) \in Seq(S) /\ Len(SubSeq(s, a, b)) = n
      /\ \A i \in 1 .. n : SubSeq(s, a, b)[i] = s[a + i - 1]
  BY <1>1
<1>3. \A i \in 1 .. n : a + i - 1 = Len(s) - n + i
  OBVIOUS
<1> QED
  BY <1>2, <1>3 DEF Newest

(* Lists are equal when their elements are.                                 *)
LEMMA SameLists ==
    ASSUME NEW S, NEW s \in Seq(S), NEW t \in Seq(S), Len(s) = Len(t),
           \A i \in 1 .. Len(s) : s[i] = t[i]
    PROVE  s = t
OBVIOUS

(* The order of adding and subtracting does not matter.                     *)
LEMMA Differences == \A a, b, c \in Nat : a - b + c = a + c - b
OBVIOUS

(* The duration of the newest frames is what comes on top of the others.    *)
LEMMA TotalOfNewest ==
    ASSUME NEW s \in Seq(Nat), NEW n \in 0 .. Len(s)
    PROVE  Total(Newest(s, n)) = SumTo(s, Len(s)) - SumTo(s, Len(s) - n)
<1> PICK k : k = Len(s) - n
  OBVIOUS
<1>0. k \in 0 .. Len(s) /\ k \in Nat /\ n \in Nat /\ k + n = Len(s)
  OBVIOUS
<1> PICK t : t = Newest(s, n)
  OBVIOUS
<1>1. t \in Seq(Nat) /\ Len(t) = n /\ \A i \in 1 .. n : t[i] = s[k + i]
  <2>1. \A i \in 1 .. n : Len(s) - n + i = k + i
    OBVIOUS
  <2> QED
    BY <2>1, NewestIs
<1> DEFINE T == {i \in Nat : i <= n => SumTo(t, i) = SumTo(s, k + i) - SumTo(s, k)}
<1>2. 0 \in T
  <2>1. SumTo(t, 0) = 0 /\ SumTo(s, k) \in Nat /\ k + 0 = k
    BY <1>0, SumFirst, SumsAreNumbers
  <2> QED
    BY <2>1
<1>3. ASSUME NEW i \in Nat, i \in T PROVE i + 1 \in T
  <2> SUFFICES ASSUME i + 1 <= n PROVE SumTo(t, i + 1) = SumTo(s, k + (i + 1)) - SumTo(s, k)
    OBVIOUS
  <2>1. SumTo(t, i) = SumTo(s, k + i) - SumTo(s, k)
    BY <1>3
  <2>2. SumTo(t, i + 1) = SumTo(t, i) + t[i + 1]
    BY SumNext
  <2>3. SumTo(s, k + i + 1) = SumTo(s, k + i) + s[k + i + 1]
    <3>1. k + i \in Nat
      BY <1>0
    <3> QED
      BY <3>1, SumNext
  <2>4. t[i + 1] = s[k + i + 1] /\ s[k + i + 1] \in Nat
    <3>1. i + 1 \in 1 .. n /\ k + (i + 1) = k + i + 1 /\ k + i + 1 \in 1 .. Len(s)
      BY <1>0
    <3> QED
      BY <1>1, <3>1
  <2>5. SumTo(s, k + i) \in Nat /\ SumTo(s, k) \in Nat
    <3>1. k + i \in 0 .. Len(s)
      BY <1>0
    <3> QED
      BY <1>0, <3>1, SumsAreNumbers
  <2>6. SumTo(s, k + (i + 1)) = SumTo(s, k + i) + s[k + i + 1]
    <3>1. k + (i + 1) = k + i + 1
      BY <1>0
    <3> QED
      BY <2>3, <3>1
  <2> PICK a, b, c : a = SumTo(s, k + i) /\ b = SumTo(s, k) /\ c = s[k + i + 1]
    OBVIOUS
  <2>7. a \in Nat /\ b \in Nat /\ c \in Nat
    BY <2>4, <2>5
  <2>8. SumTo(t, i + 1) = a - b + c /\ SumTo(s, k + (i + 1)) = a + c /\ SumTo(s, k) = b
    BY <2>1, <2>2, <2>4, <2>6
  <2>9. a - b + c = a + c - b
    BY ONLY <2>7, Differences
  <2> QED
    BY ONLY <2>7, <2>8, <2>9
<1> HIDE DEF T
<1>4. Nat \subseteq T
  BY <1>2, <1>3, Induction
<1>5. SumTo(t, n) = SumTo(s, k + n) - SumTo(s, k)
  BY <1>0, <1>4 DEF T
<1> QED
  BY <1>0, <1>1, <1>5, TotalIsSum

(* A list with one element more, one by one.                                *)
LEMMA AppendIs ==
    ASSUME NEW S, NEW s \in Seq(S), NEW x \in S
    PROVE  /\ Append(s, x) \in Seq(S) /\ Len(Append(s, x)) = Len(s) + 1
           /\ \A i \in 1 .. Len(s) : Append(s, x)[i] = s[i]
           /\ Append(s, x)[Len(s) + 1] = x
OBVIOUS

(* A list with one frame more lasts that much longer.                       *)
LEMMA TotalOfAppend ==
    ASSUME NEW s \in Seq(Nat), NEW x \in Nat
    PROVE  Total(Append(s, x)) = Total(s) + x
<1> PICK t : t = Append(s, x)
  OBVIOUS
<1>1. /\ Len(s) \in Nat /\ Len(t) = Len(s) + 1 /\ t[Len(s) + 1] = x
      /\ \A i \in 1 .. Len(s) : t[i] = s[i]
  BY AppendIs
<1>2. SumTo(t, Len(s) + 1) = SumTo(t, Len(s)) + t[Len(s) + 1]
  BY <1>1, SumNext
<1>3. SumTo(t, Len(s)) = SumTo(s, Len(s))
  BY <1>1, SumPrefix
<1> QED
  BY <1>1, <1>2, <1>3, TotalIsSum

(* The newest of the newest are the newest.                                 *)
LEMMA NewestOfNewest ==
    ASSUME NEW S, NEW s \in Seq(S), NEW n \in 0 .. Len(s), NEW m \in 0 .. n
    PROVE  Newest(Newest(s, n), m) = Newest(s, m)
<1> PICK t : t = Newest(s, n)
  OBVIOUS
<1>1. t \in Seq(S) /\ Len(t) = n /\ \A i \in 1 .. n : t[i] = s[Len(s) - n + i]
  BY NewestIs
<1>2. m \in 0 .. Len(t) /\ m \in 0 .. Len(s)
  BY <1>1
<1> PICK u, w : u = Newest(t, m) /\ w = Newest(s, m)
  OBVIOUS
<1>3. u \in Seq(S) /\ Len(u) = m /\ \A i \in 1 .. m : u[i] = t[n - m + i]
  <2>1. /\ u \in Seq(S) /\ Len(u) = m
        /\ \A i \in 1 .. m : u[i] = t[Len(t) - m + i]
    BY <1>1, <1>2, NewestIs
  <2> QED
    BY <1>1, <2>1
<1>4. w \in Seq(S) /\ Len(w) = m /\ \A i \in 1 .. m : w[i] = s[Len(s) - m + i]
  BY <1>2, NewestIs
<1>5. \A i \in 1 .. m : u[i] = w[i]
  <2> TAKE i \in 1 .. m
  <2>1. n - m + i \in 1 .. n /\ Len(s) - n + (n - m + i) = Len(s) - m + i
    OBVIOUS
  <2> QED
    BY <1>1, <1>3, <1>4, <2>1
<1> QED
  BY <1>3, <1>4, <1>5, SameLists

(* What comes last is the newest.                                           *)
LEMMA NewestOfAppend ==
    ASSUME NEW S, NEW s \in Seq(S), NEW x \in S, NEW n \in 0 .. Len(s)
    PROVE  Append(Newest(s, n), x) = Newest(Append(s, x), n + 1)
<1> PICK t, v : t = Newest(s, n) /\ v = Append(s, x)
  OBVIOUS
<1>1. t \in Seq(S) /\ Len(t) = n /\ \A i \in 1 .. n : t[i] = s[Len(s) - n + i]
  BY NewestIs
<1>2. /\ v \in Seq(S) /\ Len(v) = Len(s) + 1 /\ v[Len(s) + 1] = x
      /\ \A i \in 1 .. Len(s) : v[i] = s[i]
  BY AppendIs
<1> PICK u, w : u = Append(t, x) /\ w = Newest(v, n + 1)
  OBVIOUS
<1>3. /\ u \in Seq(S) /\ Len(u) = n + 1 /\ u[n + 1] = x /\ \A i \in 1 .. n : u[i] = t[i]
  BY <1>1, AppendIs
<1>4. n + 1 \in 0 .. Len(v)
  BY <1>2
<1>5. w \in Seq(S) /\ Len(w) = n + 1 /\ \A i \in 1 .. n + 1 : w[i] = v[Len(v) - (n + 1) + i]
  BY <1>2, <1>4, NewestIs
<1>6. \A i \in 1 .. n + 1 : u[i] = w[i]
  <2> TAKE i \in 1 .. n + 1
  <2>1. CASE i = n + 1
    <3>1. Len(v) - (n + 1) + i = Len(s) + 1
      BY <1>2, <2>1
    <3> QED
      BY <1>2, <1>3, <1>5, <2>1, <3>1
  <2>2. CASE i \in 1 .. n
    <3>1. Len(v) - (n + 1) + i = Len(s) - n + i /\ Len(s) - n + i \in 1 .. Len(s)
      BY <1>2, <2>2
    <3>2. u[i] = s[Len(s) - n + i]
      BY <1>1, <1>3, <2>2
    <3>3. w[i] = v[Len(s) - n + i]
      BY <1>5, <3>1
    <3> QED
      BY <1>2, <3>1, <3>2, <3>3
  <2>3. i = n + 1 \/ i \in 1 .. n
    OBVIOUS
  <2> QED
    BY <2>1, <2>2, <2>3
<1> QED
  BY <1>3, <1>5, <1>6, SameLists

(* What is left when the oldest go are the newest.                          *)
LEMMA DropFirstIsNewest ==
    ASSUME NEW S, NEW s \in Seq(S), NEW n \in 0 .. Len(s)
    PROVE  DropFirst(s, n) = Newest(s, Len(s) - n)
<1>1. n + 1 = Len(s) - (Len(s) - n) + 1
  OBVIOUS
<1> QED
  BY <1>1 DEF DropFirst, Newest

(* How long the oldest frames last.                                         *)
LEMMA TotalOfFirst ==
    ASSUME NEW s \in Seq(Nat), NEW n \in 0 .. Len(s)
    PROVE  Total(First(s, n)) = SumTo(s, n)
<1> PICK t : t = First(s, n)
  OBVIOUS
<1>1. n \in Nat /\ Len(t) = n /\ \A i \in 1 .. n : t[i] = s[i]
  BY DEF First
<1>2. SumTo(t, n) = SumTo(s, n)
  BY <1>1, SumPrefix
<1> QED
  BY <1>1, <1>2, TotalIsSum

(* All of a list and nothing of it.                                         *)
LEMMA NewestOfAll ==
    ASSUME NEW S, NEW s \in Seq(S)
    PROVE  Newest(s, Len(s)) = s /\ Newest(s, 0) = <<>>
<1>1. /\ Newest(s, Len(s)) \in Seq(S) /\ Len(Newest(s, Len(s))) = Len(s)
      /\ \A i \in 1 .. Len(s) : Newest(s, Len(s))[i] = s[Len(s) - Len(s) + i]
  BY NewestIs
<1>2. \A i \in 1 .. Len(s) : Len(s) - Len(s) + i = i
  OBVIOUS
<1>3. Newest(s, Len(s)) = s
  BY <1>1, <1>2, SameLists
<1>4. Newest(s, 0) \in Seq(S) /\ Len(Newest(s, 0)) = 0
  BY NewestIs
<1> QED
  BY <1>3, <1>4

(* All but the oldest.                                                      *)
LEMMA TailIsNewest ==
    ASSUME NEW S, NEW s \in Seq(S), s # <<>>
    PROVE  Tail(s) = Newest(s, Len(s) - 1) /\ Len(s) - 1 \in 0 .. Len(s)
<1>1. Len(s) - (Len(s) - 1) + 1 = 2
  OBVIOUS
<1>2. Tail(s) = SubSeq(s, 2, Len(s))
  OBVIOUS
<1> QED
  BY <1>1, <1>2 DEF Newest

(* The search for the first number that is in T ends.                       *)
LEMMA LeastExists ==
    ASSUME NEW limit \in Nat, NEW T
    PROVE  \E n \in 0 .. limit : /\ n = limit \/ n \in T
                                 /\ \A k \in 0 .. n - 1 : k \notin T
<1> DEFINE U == {n \in 0 .. limit : n = limit \/ n \in T}
<1>1. U \subseteq Nat /\ U # {}
  <2>1. limit \in U
    OBVIOUS
  <2> QED
    BY <2>1
<1>2. PICK n \in U : \A k \in U : n <= k
  BY <1>1, LeastElement
<1>3. \A k \in 0 .. n - 1 : k \notin T
  <2> SUFFICES ASSUME NEW k \in 0 .. n - 1, k \in T PROVE FALSE
    OBVIOUS
  <2>1. k \in U
    OBVIOUS
  <2> QED
    BY <1>2, <2>1
<1> QED
  BY <1>2, <1>3

-----------------------------------------------------------------------------
(* The buffer.                                                              *)

Ring(S) == [capacity : Nat, frames : Seq(S), duration : Nat]

(* A list holds the newest of what came, as much of it as fits.             *)
Latest(r, all) ==
    /\ Len(r.frames) <= Len(all)
    /\ r.frames = Newest(all, Len(r.frames))
    /\ r.duration = Total(r.frames)
    /\ r.duration <= r.capacity
    /\ Len(r.frames) < Len(all) => Total(Newest(all, Len(r.frames) + 1)) > r.capacity

(* A list of some elements is a list of more.                               *)
LEMMA ListsGrow == \A A, B : A \subseteq B => \A s \in Seq(A) : s \in Seq(B)
OBVIOUS

(* How many are kept and how many are dropped.                              *)
LEMMA Complements ==
    \A l \in Nat : \A k \in 0 .. l : /\ l - k \in 0 .. l /\ l - k \in Nat
                                    /\ l - (l - k) = k /\ k \in Nat
                                    /\ k > 0 => /\ k - 1 \in 0 .. l /\ k - 1 \in 0 .. (k - 1)
                                               /\ l - (k - 1) = (l - k) + 1
OBVIOUS

(* A frame that comes: the oldest go until the rest fits, and no further.   *)
LEMMA Pushed ==
    ASSUME NEW S, S \subseteq Nat, NEW r \in Ring(S), NEW x \in S,
           r.duration = Total(r.frames)
    PROVE  /\ Push(r, x) \in Ring(S) /\ Push(r, x).capacity = r.capacity
           /\ Latest(Push(r, x), Append(r.frames, x))
<1>b. PICK q : q = Push(r, x)
  OBVIOUS
<1> DEFINE f == Append(r.frames, x)
           Over(n) == r.duration + x - Total(First(f, n))
           T == {n \in Nat : Over(n) <= r.capacity}
<1>1. r.frames \in Seq(S) /\ r.capacity \in Nat /\ r.duration \in Nat
  BY DEF Ring
<1>2. r.frames \in Seq(Nat) /\ x \in Nat
  BY <1>1, ListsGrow
<1>3. /\ f \in Seq(S) /\ f \in Seq(Nat) /\ Len(f) = Len(r.frames) + 1 /\ Len(f) \in Nat
      /\ Len(r.frames) \in Nat
  BY <1>1, <1>2
<1>4. r.duration + x = SumTo(f, Len(f))
  BY <1>2, TotalOfAppend, TotalIsSum
<1>a. PICK n : n = Least(Len(f), LAMBDA k : Over(k) <= r.capacity)
  OBVIOUS
<1>5. q = [r EXCEPT !.frames = DropFirst(f, n), !.duration = Over(n)]
  BY <1>a, <1>b DEF Push
<1>6. n = CHOOSE i \in 0 .. Len(f) : /\ i = Len(f) \/ Over(i) <= r.capacity
                                    /\ \A k \in 0 .. (i - 1) : ~(Over(k) <= r.capacity)
  BY <1>a DEF Least
<1> HIDE DEF f, Over
<1>7. /\ n \in 0 .. Len(f) /\ (n = Len(f) \/ Over(n) <= r.capacity)
      /\ \A k \in 0 .. (n - 1) : ~(Over(k) <= r.capacity)
  <2>1. \E i \in 0 .. Len(f) : /\ i = Len(f) \/ i \in T
                               /\ \A k \in 0 .. i - 1 : k \notin T
    BY <1>3, LeastExists
  <2>2. \E i \in 0 .. Len(f) : /\ i = Len(f) \/ Over(i) <= r.capacity
                               /\ \A k \in 0 .. (i - 1) : ~(Over(k) <= r.capacity)
    BY <1>3, <2>1
  <2> QED
    BY <1>6, <2>2
<1> HIDE DEF T
<1>8. \A k \in 0 .. Len(f) : /\ Over(k) = Total(Newest(f, Len(f) - k))
                             /\ Over(k) \in Nat
  <2> TAKE k \in 0 .. Len(f)
  <2>1. Over(k) = SumTo(f, Len(f)) - SumTo(f, k)
    <3>1. Total(First(f, k)) = SumTo(f, k)
      BY <1>3, TotalOfFirst
    <3>2. Over(k) = r.duration + x - Total(First(f, k))
      BY DEF Over, f
    <3>3. r.duration \in Nat /\ x \in Nat /\ SumTo(f, k) \in Nat
      BY <1>1, <1>2, <1>3, SumsAreNumbers
    <3> QED
      BY <1>4, <3>1, <3>2, <3>3
  <2>2. Len(f) - k \in 0 .. Len(f) /\ Len(f) - (Len(f) - k) = k
    <3>1. Len(f) \in Nat
      BY <1>3
    <3> QED
      BY <3>1, Complements
  <2>3. Total(Newest(f, Len(f) - k)) = SumTo(f, Len(f)) - SumTo(f, k)
    BY <1>3, <2>2, TotalOfNewest
  <2>4. Newest(f, Len(f) - k) \in Seq(Nat)
    BY <1>3, <2>2, NewestIs
  <2>5. Total(Newest(f, Len(f) - k)) \in Nat
    BY <2>4, SumsAreNumbers, TotalIsSum
  <2> QED
    BY <2>1, <2>3, <2>5
<1> PICK m : m = Len(f) - n
  OBVIOUS
<1>9. m \in 0 .. Len(f) /\ m \in Nat /\ n \in Nat /\ m = Len(f) - n /\ n = Len(f) - m
  <2>1. n \in 0 .. Len(f) /\ Len(f) \in Nat
    BY <1>3, <1>7
  <2> QED
    BY <2>1, Complements
<1>10. DropFirst(f, n) = Newest(f, m)
  BY <1>3, <1>7, DropFirstIsNewest
<1>11. Newest(f, m) \in Seq(S) /\ Len(Newest(f, m)) = m
  BY <1>3, <1>9, NewestIs
<1>12. Over(n) = Total(Newest(f, m)) /\ Over(n) \in Nat
  BY <1>7, <1>8
<1>13. /\ q \in Ring(S) /\ q.capacity = r.capacity
       /\ q.frames = Newest(f, m) /\ q.duration = Over(n)
  <2>1. q = [r EXCEPT !.frames = Newest(f, m), !.duration = Over(n)]
    BY <1>5, <1>10
  <2> QED
    <3> PICK g, d : g = Newest(f, m) /\ d = Over(n)
      OBVIOUS
    <3>1. g \in Seq(S) /\ d \in Nat /\ q = [r EXCEPT !.frames = g, !.duration = d]
      BY <2>1, <1>11, <1>12
    <3> QED
      BY <3>1 DEF Ring
<1>14. Over(n) <= r.capacity
  <2>1. CASE n = Len(f)
    <3>1. m = 0 /\ Newest(f, 0) = <<>>
      BY <1>3, <1>9, <2>1, NewestOfAll
    <3> QED
      BY <1>1, <1>12, <3>1, TotalOfNone
  <2> QED
    BY <1>7, <2>1
<1>15. m < Len(f) => Total(Newest(f, m + 1)) > r.capacity
  <2> SUFFICES ASSUME m < Len(f) PROVE Total(Newest(f, m + 1)) > r.capacity
    OBVIOUS
  <2>1. n - 1 \in 0 .. (n - 1) /\ n - 1 \in 0 .. Len(f) /\ Len(f) - (n - 1) = m + 1
    <3>1. n > 0 /\ n \in 0 .. Len(f) /\ Len(f) \in Nat
      BY <1>3, <1>7, <1>9
    <3> QED
      BY <1>9, <3>1, Complements
  <2>2. ~(Over(n - 1) <= r.capacity)
    BY <1>7, <2>1
  <2>3. Over(n - 1) = Total(Newest(f, m + 1)) /\ Over(n - 1) \in Nat
    BY <1>8, <2>1
  <2> QED
    BY <1>1, <2>2, <2>3
<1>16. Latest(q, f)
  <2>1. Len(q.frames) = m /\ m <= Len(f) /\ q.duration = Total(q.frames)
    BY <1>3, <1>9, <1>11, <1>12, <1>13
  <2> QED
    BY <1>13, <1>14, <1>15, <2>1 DEF Latest
<1> QED
  BY <1>b, <1>13, <1>16 DEF f

(* What came after the newest frames is kept with them.                     *)
LEMMA LatestGrows ==
    ASSUME NEW S, S \subseteq Nat, NEW r \in Ring(S), NEW all \in Seq(S), NEW x \in S,
           Latest(r, all)
    PROVE  /\ Push(r, x) \in Ring(S) /\ Push(r, x).capacity = r.capacity
           /\ Latest(Push(r, x), Append(all, x))
<1>a. PICK q : q = Push(r, x)
  OBVIOUS
<1>1. /\ r.frames \in Seq(S) /\ r.capacity \in Nat /\ all \in Seq(Nat) /\ x \in Nat
      /\ Len(r.frames) \in Nat /\ Len(all) \in Nat
  <2>1. r.frames \in Seq(S) /\ r.capacity \in Nat
    BY DEF Ring
  <2>2. all \in Seq(Nat)
    BY ListsGrow
  <2> QED
    BY <2>1, <2>2
<1> PICK h, m, f, a : /\ h = Len(r.frames) /\ m = Len(q.frames)
                      /\ f = Append(r.frames, x) /\ a = Append(all, x)
  OBVIOUS
<1>2. q \in Ring(S) /\ q.capacity = r.capacity /\ Latest(q, f)
  <2>1. r.duration = Total(r.frames)
    BY DEF Latest
  <2>2. q \in Ring(S) /\ q.capacity = r.capacity /\ Latest(q, Append(r.frames, x))
    BY <1>a, <2>1, Pushed
  <2> QED
    BY <2>2
<1>3. /\ h \in 0 .. Len(all) /\ h \in Nat /\ r.frames = Newest(all, h)
      /\ h < Len(all) => Total(Newest(all, h + 1)) > r.capacity
  BY <1>1 DEF Latest
<1>4. a \in Seq(S) /\ a \in Seq(Nat) /\ Len(a) = Len(all) + 1 /\ Len(f) = h + 1
  BY <1>1
<1>5. f = Newest(a, h + 1)
  BY <1>3, NewestOfAppend
<1>6. /\ m <= h + 1 /\ q.frames = Newest(f, m) /\ q.duration = Total(q.frames)
      /\ q.duration <= q.capacity
      /\ m < h + 1 => Total(Newest(f, m + 1)) > q.capacity
  BY <1>2, <1>4 DEF Latest
<1>7. m \in Nat
  BY <1>2 DEF Ring
<1>8. h + 1 \in 0 .. Len(a) /\ m \in 0 .. h + 1
  BY <1>1, <1>3, <1>4, <1>6, <1>7
<1>9. q.frames = Newest(a, m)
  BY <1>4, <1>5, <1>6, <1>8, NewestOfNewest
<1>10. m < Len(a) => Total(Newest(a, m + 1)) > q.capacity
  <2>1. CASE m < h + 1
    <3>1. m + 1 \in 0 .. h + 1
      BY <1>3, <1>7, <2>1
    <3>2. Newest(f, m + 1) = Newest(a, m + 1)
      BY <1>4, <1>5, <1>8, <3>1, NewestOfNewest
    <3> QED
      BY <1>6, <2>1, <3>2
  <2>2. CASE m = h + 1 /\ m < Len(a)
    <3>1. h < Len(all) /\ h + 1 \in 0 .. Len(all)
      BY <1>1, <1>3, <1>4, <2>2
    <3>2. Newest(all, h + 1) \in Seq(Nat) /\ Total(Newest(all, h + 1)) > r.capacity
      BY <1>1, <1>3, <3>1, NewestIs
    <3>3. Newest(a, m + 1) = Append(Newest(all, h + 1), x)
      BY <2>2, <3>1, NewestOfAppend
    <3>4. Total(Newest(a, m + 1)) = Total(Newest(all, h + 1)) + x
      BY <1>1, <3>2, <3>3, TotalOfAppend
    <3>5. Total(Newest(all, h + 1)) \in Nat
      BY <3>2, SumsAreNumbers, TotalIsSum
    <3> QED
      BY <1>1, <1>2, <3>2, <3>4, <3>5
  <2> QED
    BY <1>3, <1>6, <1>7, <2>1, <2>2
<1>11. Latest(q, a)
  BY <1>2, <1>4, <1>6, <1>8, <1>9, <1>10 DEF Latest
<1> QED
  BY <1>a, <1>2, <1>11

(* An empty buffer holds the latest of nothing.                             *)
LEMMA LatestOfNone ==
    ASSUME NEW S, NEW r \in Ring(S), r.frames = <<>>, r.duration = 0
    PROVE  Latest(r, <<>>)
<1>1. <<>> \in Seq(S)
  OBVIOUS
<1>2. Newest(<<>>, 0) = <<>> /\ r.capacity \in Nat /\ Len(<<>>) = 0
  BY <1>1, NewestOfAll DEF Ring
<1> QED
  BY <1>2, TotalOfNone DEF Latest

-----------------------------------------------------------------------------
(* The buffer among detections, settings and restarts.                      *)

(* The types of the flags, the settings and the clocks.                     *)
FlagsTyped == up \in BOOLEAN /\ connected \in BOOLEAN /\ reloaded \in BOOLEAN

FrontTyped ==
    /\ stored \in [Key -> Nat] /\ live \in [Key -> Nat]
    /\ samples \subseteq Phrase
    /\ listening \in Phrase \cup {"off"}
    /\ page \in Nat /\ lastCheck \in Nat /\ checkedAt \in Nat /\ quietUntil \in Nat
    /\ clock \in Nat /\ mishaps \in Nat
    /\ detectedAt \in Int

(* The buffer is one that can hold something, and holds the latest frames.  *)
RingKept ==
    /\ ring \in Ring(FrameLength)
    /\ up => ring.capacity > 0
    /\ received \in Seq(FrameLength)
    /\ Latest(ring, received)

(* The lengths of frames and intervals.                                     *)
LEMMA Times ==
    /\ FrameLength \subseteq Nat /\ 0 \notin FrameLength
    /\ Window \in Nat /\ Window > 0 /\ Cooldown \in Nat
    /\ DefaultBuffer \in Nat /\ DefaultBuffer > 0
    /\ Never \in Int
BY TimesAssumption DEF Never

(* A new buffer is one.                                                     *)
LEMMA NewRingKept ==
    \A capacity \in Nat : /\ NewRing(capacity) \in Ring(FrameLength)
                          /\ Latest(NewRing(capacity), <<>>)
                          /\ NewRing(capacity).capacity = capacity
<1> TAKE capacity \in Nat
<1>1. <<>> \in Seq(FrameLength)
  OBVIOUS
<1>2. /\ NewRing(capacity) \in Ring(FrameLength) /\ NewRing(capacity).capacity = capacity
      /\ NewRing(capacity).frames = <<>> /\ NewRing(capacity).duration = 0
  BY <1>1 DEF NewRing, Ring
<1> QED
  BY <1>2, LatestOfNone

(* A buffer that is emptied is one of the same capacity.                    *)
LEMMA ClearedKept ==
    ASSUME NEW r \in Ring(FrameLength)
    PROVE  /\ Cleared(r) \in Ring(FrameLength) /\ Cleared(r).capacity = r.capacity
           /\ Latest(Cleared(r), <<>>)
<1>1. <<>> \in Seq(FrameLength)
  OBVIOUS
<1>2. /\ Cleared(r) \in Ring(FrameLength) /\ Cleared(r).capacity = r.capacity
      /\ Cleared(r).frames = <<>> /\ Cleared(r).duration = 0
  BY <1>1 DEF Cleared, Ring
<1> QED
  BY <1>2, LatestOfNone

(* What a patch takes up is of its type, and a buffer it makes can hold     *)
(* something.                                                               *)
LEMMA PatchTyped ==
    ASSUME FrontTyped, RingKept, NEW patch \in Patch, NEW n \in 0 .. Len(patch),
           TakesUp(patch, n)
    PROVE  /\ stored' \in [Key -> Nat] /\ live' \in [Key -> Nat]
           /\ \/ UNCHANGED <<ring, received>>
              \/ /\ ring' = NewRing(live'["audio.buffer_ms"]) /\ live'["audio.buffer_ms"] > 0
                 /\ received' = <<>>
<1> DEFINE Sent(key)  == {patch[i].value : i \in {j \in 1 .. n : patch[j].key = key}}
           InUse(key) == {v \in Sent(key) : Usable(v) \/ key = "connector.excel.allowed_root"}
<1>1. \A key \in Key : Sent(key) \subseteq Nat /\ InUse(key) \subseteq Nat
  <2>1. patch \in Seq(Setting)
    BY PatchAssumption
  <2>2. \A i \in 1 .. n : patch[i] \in Setting
    BY <2>1
  <2>3. \A i \in 1 .. n : patch[i].value \in Nat
    BY <2>2 DEF Setting
  <2> QED
    BY <2>3
<1>2. /\ stored' = [key \in Key |-> IF Sent(key) = {} THEN stored[key]
                                    ELSE CHOOSE v \in Sent(key) : TRUE]
      /\ live' = [key \in Key |-> IF InUse(key) = {} THEN live[key]
                                  ELSE CHOOSE v \in InUse(key) : TRUE]
      /\ ring' = IF InUse("audio.buffer_ms") = {} THEN ring
                 ELSE NewRing(live'["audio.buffer_ms"])
      /\ received' = IF InUse("audio.buffer_ms") = {} THEN received ELSE <<>>
  BY DEF TakesUp
<1>3. stored \in [Key -> Nat] /\ live \in [Key -> Nat] /\ "audio.buffer_ms" \in Key
  BY DEF FrontTyped, Key
<1>4. \A v \in InUse("audio.buffer_ms") : v > 0
  BY DEF Usable
<1> HIDE DEF Sent, InUse
<1>5. stored' \in [Key -> Nat]
  <2>1. \A key \in Key : (IF Sent(key) = {} THEN stored[key]
                      ELSE CHOOSE v \in Sent(key) : TRUE) \in Nat
    BY <1>1, <1>3
  <2> QED
    BY <1>2, <2>1
<1>6. live' \in [Key -> Nat]
  <2>1. \A key \in Key : (IF InUse(key) = {} THEN live[key]
                      ELSE CHOOSE v \in InUse(key) : TRUE) \in Nat
    BY <1>1, <1>3
  <2> QED
    BY <1>2, <2>1
<1>7. CASE InUse("audio.buffer_ms") = {}
  BY <1>2, <1>5, <1>6, <1>7
<1>8. CASE InUse("audio.buffer_ms") # {}
  <2>1. live'["audio.buffer_ms"] \in InUse("audio.buffer_ms")
    BY <1>2, <1>3, <1>8
  <2> QED
    BY <1>2, <1>4, <1>5, <1>6, <1>8, <2>1
<1> QED
  BY <1>7, <1>8

(* Each step keeps the buffer what it has to be.                            *)
LEMMA NextRingKept ==
    ASSUME FrontTyped, RingKept, Next
    PROVE  RingKept'
<1>1. ASSUME NEW frame \in FrameLength, Accept(frame), up' = up PROVE RingKept'
  <2>1. ring' = Push(ring, frame) /\ received' = Append(received, frame)
    BY <1>1 DEF Accept
  <2>2. /\ ring \in Ring(FrameLength) /\ received \in Seq(FrameLength) /\ Latest(ring, received)
        /\ FrameLength \subseteq Nat
    BY Times DEF RingKept
  <2>3. ring' \in Ring(FrameLength) /\ ring'.capacity = ring.capacity /\ Latest(ring', received')
    BY <2>1, <2>2, LatestGrows
  <2>4. received' \in Seq(FrameLength)
    BY <2>1, <2>2
  <2> QED
    BY <1>1, <2>3, <2>4 DEF RingKept
<1>2. CASE \E frame \in FrameLength : Buffer(frame) \/ Check(frame) \/ Wake(frame)
  BY <1>1, <1>2 DEF Buffer, Check, Wake, CheckStarts, settings
<1>3. CASE \E to \in Phrase \cup {"off"} : SetMode(to)
  <2> PICK to : SetMode(to)
    BY <1>3
  <2>1. up' = up /\ \/ UNCHANGED <<ring, received>>
                    \/ ring' = Cleared(ring) /\ received' = <<>>
    BY DEF SetMode, settings
  <2>2. CASE UNCHANGED <<ring, received>>
    BY <2>1, <2>2 DEF RingKept
  <2>3. CASE ring' = Cleared(ring) /\ received' = <<>>
    <3>1. <<>> \in Seq(FrameLength)
      OBVIOUS
    <3> QED
      BY <2>1, <2>3, <3>1, ClearedKept DEF RingKept
  <2> QED
    BY <2>1, <2>2, <2>3
<1>4. ASSUME NEW capacity \in Nat, ring' = NewRing(capacity), received' = <<>>,
             up' => capacity > 0
      PROVE  RingKept'
  <2>1. <<>> \in Seq(FrameLength)
    OBVIOUS
  <2> QED
    BY <1>4, <2>1, NewRingKept DEF RingKept
<1>5. CASE \E patch \in Patch : UpdateSettings(patch)
  <2> PICK patch \in Patch : UpdateSettings(patch)
    BY <1>5
  <2> PICK n \in 0 .. Len(patch) : TakesUp(patch, n) /\ up' = up
    BY DEF UpdateSettings
  <2>1. live' \in [Key -> Nat] /\ "audio.buffer_ms" \in Key
    BY PatchTyped DEF Key
  <2>2. live'["audio.buffer_ms"] \in Nat
    BY <2>1
  <2>3. CASE UNCHANGED <<ring, received>>
    BY <2>3 DEF RingKept
  <2> QED
    BY <1>4, <2>2, <2>3, PatchTyped
<1>6. CASE Restart
  <2>1. stored["audio.buffer_ms"] \in Nat /\ "audio.buffer_ms" \in Key
    BY DEF FrontTyped, Key
  <2>2. up' => stored["audio.buffer_ms"] > 0
    BY <1>6, <2>1 DEF Restart, Usable
  <2> QED
    BY <1>4, <1>6, <2>1, <2>2 DEF Restart
<1>7. CASE \/ \E phrase \in Phrase : Enroll(phrase) \/ DeleteSample(phrase)
           \/ StartMicrophone \/ Reload \/ Tick
  BY <1>7 DEF Enroll, DeleteSample, StartMicrophone, Reload, Tick, settings, audio, RingKept
<1> QED
  BY <1>2, <1>3, <1>5, <1>6, <1>7 DEF Next

(* Each step keeps the types of the flags.                                  *)
LEMMA NextFlagsTyped == ASSUME FlagsTyped, Next PROVE FlagsTyped'
<1>1. connected \in BOOLEAN /\ reloaded \in BOOLEAN /\ up \in BOOLEAN
  BY DEF FlagsTyped
<1>2. TRUE \in BOOLEAN /\ FALSE \in BOOLEAN
  OBVIOUS
<1>3. up' = up \/ Restart
  BY DEF Next, Buffer, Check, Wake, SetMode, Enroll, DeleteSample, UpdateSettings,
     StartMicrophone, Reload, Tick, settings
<1>4. connected' = connected \/ connected' = TRUE \/ connected' = FALSE
  BY DEF Next, Buffer, Check, Wake, SetMode, Enroll, DeleteSample, UpdateSettings,
     StartMicrophone, Reload, Tick, Restart, Raises, client
<1>5. reloaded' = reloaded \/ reloaded' = TRUE \/ reloaded' = FALSE
  BY DEF Next, Buffer, Check, Wake, CheckStarts, SetMode, Enroll, DeleteSample, UpdateSettings,
     StartMicrophone, Reload, Tick, Restart, client
<1>6. up' \in BOOLEAN
  <2>1. CASE Restart
    <3>1. up' = \A key \in Key : Usable(stored[key])
      BY <2>1 DEF Restart
    <3> QED
      BY <3>1, Zenon
  <2> QED
    BY <1>1, <1>3, <2>1, Zenon
<1>7. connected' \in BOOLEAN
  BY <1>1, <1>2, <1>4, Zenon
<1>8. reloaded' \in BOOLEAN
  BY <1>1, <1>2, <1>5, Zenon
<1> QED
  BY <1>6, <1>7, <1>8, Zenon DEF FlagsTyped

(* Each step keeps the types of settings, clocks and counters.              *)
LEMMA NextFrontTyped ==
    ASSUME FrontTyped, RingKept, ListenInv, Next
    PROVE  FrontTyped'
<1> USE DEF FrontTyped
<1>1. CASE \E frame \in FrameLength : Buffer(frame)
  <2>1. UNCHANGED <<settings, samples, listening, wake, page, clock>>
        /\ (mishaps' = mishaps \/ mishaps' = mishaps + 1)
    BY <1>1 DEF Buffer, Raises, Mishap
  <2> QED
    BY <2>1 DEF settings, wake
<1>2. CASE \E frame \in FrameLength : Check(frame) \/ Wake(frame)
  <2>1. /\ UNCHANGED <<settings, samples, page, clock>>
        /\ mishaps' = mishaps \/ mishaps' = mishaps + 1
        /\ lastCheck' = clock - page /\ checkedAt' = clock
        /\ listening' \in Phrase \cup {"off"}
        /\ quietUntil' \in {quietUntil, clock + Cooldown}
        /\ detectedAt' \in {detectedAt, clock}
    BY <1>2 DEF Check, Wake, CheckStarts, Raises, Mishap, Now
  <2>2. clock - page \in Nat /\ clock \in Nat /\ clock + Cooldown \in Nat /\ clock \in Int
    BY Times DEF ListenInv
  <2> QED
    BY <2>1, <2>2 DEF settings
<1>3. CASE \E to \in Phrase \cup {"off"} : SetMode(to)
  BY <1>3 DEF SetMode, settings, wake, client
<1>4. CASE \E phrase \in Phrase : Enroll(phrase) \/ DeleteSample(phrase)
  BY <1>4 DEF Enroll, DeleteSample, settings, wake, client
<1>5. CASE \E patch \in Patch : UpdateSettings(patch)
  <2> PICK patch \in Patch : UpdateSettings(patch)
    BY <1>5
  <2> PICK n \in 0 .. Len(patch) : TakesUp(patch, n)
    BY DEF UpdateSettings
  <2>1. UNCHANGED <<samples, listening, wake, client, clock>>
        /\ (mishaps' = mishaps \/ mishaps' = mishaps + 1)
    BY DEF UpdateSettings, Mishap
  <2>2. stored' \in [Key -> Nat] /\ live' \in [Key -> Nat]
    BY PatchTyped
  <2> QED
    BY <2>1, <2>2 DEF wake, client
<1>6. CASE StartMicrophone \/ Reload
  <2>1. UNCHANGED <<settings, samples, listening, wake, clock>> /\ page' \in {page, clock}
        /\ (mishaps' = mishaps \/ mishaps' = mishaps + 1)
    BY <1>6 DEF StartMicrophone, Reload, Mishap
  <2> QED
    BY <2>1 DEF settings, wake
<1>7. CASE Restart
  BY <1>7, Times DEF Restart, Mishap
<1>8. CASE Tick
  BY <1>8 DEF Tick, settings, wake, client
<1> QED
  BY <1>1, <1>2, <1>3, <1>4, <1>5, <1>6, <1>7, <1>8 DEF Next

(* The types hold and the buffer has the latest frames, always.             *)
LEMMA FrontKept == Spec => [](FlagsTyped /\ FrontTyped /\ RingKept)
<1>1. Init => FlagsTyped /\ FrontTyped /\ RingKept
  <2> SUFFICES ASSUME Init PROVE FlagsTyped /\ FrontTyped /\ RingKept
    OBVIOUS
  <2>1. Default \in [Key -> Nat]
    BY Times DEF Default
  <2>2. FrontTyped
    BY <2>1, Times DEF Init, FrontTyped
  <2>3. <<>> \in Seq(FrameLength)
    OBVIOUS
  <2>4. RingKept
    BY <2>3, Times, NewRingKept DEF Init, RingKept
  <2>5. FlagsTyped
    BY DEF Init, FlagsTyped
  <2> QED
    BY <2>2, <2>4, <2>5
<1>2. FlagsTyped /\ FrontTyped /\ RingKept /\ ListenInv /\ [Next]_vars =>
          FlagsTyped' /\ FrontTyped' /\ RingKept'
  <2>1. ASSUME FrontTyped, RingKept, UNCHANGED vars PROVE FrontTyped' /\ RingKept'
    BY <2>1 DEF vars, settings, audio, wake, FrontTyped, RingKept, client
  <2>2. ASSUME FlagsTyped, UNCHANGED vars PROVE FlagsTyped'
    BY <2>2 DEF vars, settings, client, FlagsTyped
  <2> QED
    BY <2>1, <2>2, NextFlagsTyped, NextFrontTyped, NextRingKept
<1> QED
  BY <1>1, <1>2, InitListen, NextListen, PTL DEF Spec

(* Every variable of the audio path has its type, in particular the buffer  *)
(* of a process that runs can hold something.                               *)
THEOREM FrontTypeCorrect == Spec => []TypeOK
<1>1. FlagsTyped /\ FrontTyped /\ RingKept => TypeOK
  BY DEF FlagsTyped, FrontTyped, RingKept, TypeOK, Ring
<1> QED
  BY <1>1, FrontKept, PTL

(* The buffer is the end of what was captured.                              *)
THEOREM TheLatestIsKept == Spec => []KeepsTheLatest
<1>1. RingKept => KeepsTheLatest
  BY DEF RingKept, Latest, KeepsTheLatest
<1> QED
  BY <1>1, FrontKept, PTL

-----------------------------------------------------------------------------
(* What the detector listens to.                                            *)

(* What a snapshot takes from a buffer that holds the latest frames.        *)
LEMMA Heard ==
    ASSUME NEW S, S \subseteq Nat, 0 \notin S, NEW r \in Ring(S), NEW all \in Seq(S),
           Latest(r, all), NEW last \in Nat, last > 0
    PROVE  LET heard == Snapshot(r, last)
               n     == Len(heard)
           IN  /\ heard = Newest(all, n)
               /\ heard # <<>> => Total(Tail(heard)) < last
               /\ \/ Total(heard) >= last
                  \/ n = Len(all)
                  \/ Total(Newest(all, n + 1)) > r.capacity
<1>a. PICK heard : heard = Snapshot(r, last)
  OBVIOUS
<1>b. PICK f, h : f = r.frames /\ h = Len(f)
  OBVIOUS
<1>1. /\ f \in Seq(S) /\ h \in Nat /\ r.capacity \in Nat /\ r.duration \in Nat
      /\ h \in 0 .. Len(all) /\ f = Newest(all, h) /\ r.duration = Total(f)
      /\ h < Len(all) => Total(Newest(all, h + 1)) > r.capacity
  BY <1>b DEF Ring, Latest
<1>2. f \in Seq(Nat) /\ all \in Seq(Nat) /\ Len(all) \in Nat
  <2>1. f \in Seq(Nat)
    BY <1>1, ListsGrow
  <2>2. all \in Seq(Nat)
    BY ListsGrow
  <2> QED
    BY <2>1, <2>2
<1> DEFINE Part(k) == Total(Newest(f, k))
           T == {k \in Nat : Part(k) >= last}
<1>c. \A k \in 0 .. h : Part(k) \in Nat
  <2> TAKE k \in 0 .. h
  <2>1. Newest(f, k) \in Seq(Nat)
    BY <1>b, <1>2, NewestIs
  <2> QED
    BY <2>1, SumsAreNumbers, TotalIsSum
<1>3. CASE last >= r.duration
  <2>1. heard = f
    BY <1>a, <1>b, <1>3 DEF Snapshot
  <2>2. heard # <<>> => Total(Tail(heard)) < last
    <3> SUFFICES ASSUME f # <<>> PROVE Total(Tail(f)) < last
      BY <2>1
    <3>1. /\ Tail(f) = Newest(f, h - 1) /\ h - 1 \in 0 .. h /\ h > 0 /\ h \in 0 .. h
      <4>1. Tail(f) = Newest(f, Len(f) - 1) /\ Len(f) - 1 \in 0 .. Len(f)
        BY <1>2, TailIsNewest
      <4> QED
        BY <1>b, <1>1, <4>1
    <3>2. Total(Tail(f)) = SumTo(f, h) - SumTo(f, h - (h - 1))
      BY <1>b, <1>2, <3>1, TotalOfNewest
    <3>3. h - (h - 1) = 1 /\ 1 \in 0 .. h /\ 1 = 0 + 1
      BY <1>1, <3>1
    <3>4. SumTo(f, 1) = 0 + f[1]
      <4>1. 0 \in Nat
        OBVIOUS
      <4>2. SumTo(f, 0 + 1) = SumTo(f, 0) + f[0 + 1]
        BY <4>1, SumNext
      <4> QED
        BY <3>3, <4>2, SumFirst
    <3>5. f[1] \in Nat /\ f[1] # 0
      BY <1>b, <1>1, <1>2, <3>1
    <3>6. SumTo(f, h) = r.duration
      BY <1>b, <1>1, TotalIsSum
    <3> QED
      BY <1>1, <1>3, <3>2, <3>3, <3>4, <3>5, <3>6
  <2>3. h = Len(all) \/ Total(Newest(all, h + 1)) > r.capacity
    BY <1>1, <1>2
  <2>4. heard = Newest(all, Len(heard)) /\ Len(heard) = h
    BY <1>b, <1>1, <2>1
  <2> QED
    BY <1>a, <2>2, <2>3, <2>4
<1>4. CASE ~(last >= r.duration)
  <2>a. PICK n : n = Least(h, LAMBDA k : Part(k) >= last)
    OBVIOUS
  <2>1. heard = Newest(f, n)
    BY <1>a, <1>b, <1>4, <2>a DEF Snapshot
  <2>2. n = CHOOSE i \in 0 .. h : /\ i = h \/ Part(i) >= last
                                /\ \A k \in 0 .. (i - 1) : ~(Part(k) >= last)
    BY <2>a DEF Least
  <2>3. /\ n \in 0 .. h /\ (n = h \/ Part(n) >= last)
        /\ \A k \in 0 .. (n - 1) : ~(Part(k) >= last)
    <3> HIDE DEF Part
    <3>1. \E i \in 0 .. h : /\ i = h \/ i \in T
                            /\ \A k \in 0 .. i - 1 : k \notin T
      BY <1>1, LeastExists
    <3>2. \E i \in 0 .. h : /\ i = h \/ Part(i) >= last
                            /\ \A k \in 0 .. (i - 1) : ~(Part(k) >= last)
      BY <1>1, <3>1
    <3> QED
      BY <2>2, <3>2
  <2>4. heard \in Seq(S) /\ Len(heard) = n /\ heard = Newest(all, n)
    <3>1. n \in 0 .. Len(f)
      BY <1>b, <2>3
    <3>2. Newest(f, n) \in Seq(S) /\ Len(Newest(f, n)) = n
      BY <1>1, <3>1, NewestIs
    <3>3. Newest(f, n) = Newest(all, n)
      BY <1>1, <2>3, NewestOfNewest
    <3> QED
      BY <2>1, <3>2, <3>3
  <2>5. Total(heard) >= last
    <3>1. CASE n = h
      <4>1. heard = f
        BY <1>b, <1>1, <2>1, <3>1, NewestOfAll
      <4> QED
        BY <1>1, <1>4, <4>1
    <3>2. CASE Part(n) >= last
      BY <2>1, <3>2
    <3> QED
      BY <2>3, <3>1, <3>2
  <2>6. heard # <<>> => Total(Tail(heard)) < last
    <3> SUFFICES ASSUME heard # <<>> PROVE Total(Tail(heard)) < last
      OBVIOUS
    <3>1. Tail(heard) = Newest(heard, n - 1) /\ n - 1 \in 0 .. n /\ n > 0
      BY <1>1, <2>3, <2>4, TailIsNewest
    <3>2. n \in 0 .. Len(f)
      BY <1>b, <2>3
    <3>3. Tail(heard) = Newest(f, n - 1)
      BY <1>1, <2>1, <3>1, <3>2, NewestOfNewest
    <3>4. n - 1 \in 0 .. (n - 1) /\ n - 1 \in 0 .. h
      BY <1>1, <2>3, <3>1
    <3>5. ~(Part(n - 1) >= last) /\ Part(n - 1) \in Nat
      BY <1>c, <2>3, <3>4
    <3>6. Part(n - 1) = Total(Tail(heard))
      BY <3>3
    <3> HIDE DEF Part
    <3> QED
      BY <3>5, <3>6
  <2> QED
    BY <1>a, <2>4, <2>5, <2>6
<1> QED
  BY <1>3, <1>4

(* What the detector listens to is the end of what was captured, and as     *)
(* much of it as its window and the buffer allow.                           *)
THEOREM PreRollIsHeard == Spec => []PreRollIsComplete
<1>1. RingKept => PreRollIsComplete
  BY Times, Heard DEF RingKept, PreRollIsComplete
<1> QED
  BY <1>1, FrontKept, PTL
=============================================================================

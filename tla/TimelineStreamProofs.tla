------------------------ MODULE TimelineStreamProofs ------------------------
(***************************************************************************)
(* What the live feed guarantees for any number of clients and for every   *)
(* limit.  The order of what is shown, and the causes of gaps, are not     *)
(* inductive: they depend on where the events of the feed stand towards    *)
(* the cursor (Ahead), and that in turn on what an answer to a history     *)
(* request holds (Page).  IInv says so of each client, and each action     *)
(* keeps it for the client that acts.  The refinement of the ordered feed  *)
(* rests on the same facts, step by step.                                  *)
(***************************************************************************)
EXTENDS TimelineStream, TLAPS

(* What is under way, by the phase of the subscription.                     *)
Under(c) ==
    /\ phase[c] \in {"unloaded", "closed"} =>
         wire[c] = <<>> /\ rows[c] = <<>> /\ queue[c] = <<>>
    /\ phase[c] = "replay" => queue[c] = <<>>
    /\ phase[c] = "live" => rows[c] = <<>>

(* A history page holds the first events of the timeline, all of them.      *)
Page(c) ==
    page[c] # NoPage => page[c] \in Numbers /\ \A i \in DOMAIN page[c] : page[c][i] = i

(* What is shown is behind the cursor, and in order but for what was        *)
(* overtaken.                                                               *)
Shown(c) ==
    /\ InOrder(events[c], overtaken[c])
    /\ \A e \in Elements(events[c]) : e <= cursor[c]

(* What is under way is ahead of the cursor, shown already, or overtaken,   *)
(* and what is overtaken was given up.                                      *)
Ahead(c) ==
    /\ \A e \in InFlight(c) : e > cursor[c] \/ e \in Elements(events[c]) \cup overtaken[c]
    /\ overtaken[c] \subseteq skipped[c]

(* Every event is shown, under way, skipped for a known cause, or will be   *)
(* replayed.                                                                *)
Covered(c) ==
    phase[c] # "unloaded" =>
        (1 .. timeline) \subseteq
            Elements(events[c]) \cup skipped[c] \cup InFlight(c)
            \cup (IF phase[c] = "closed" THEN (cursor[c] + 1) .. timeline ELSE {})

Sound(c) ==
    /\ Under(c) /\ Page(c) /\ Shown(c) /\ Ahead(c) /\ Covered(c)
    /\ Increasing(Feed(c))

IInv == TypeOK /\ \A c \in Client : Sound(c)

-----------------------------------------------------------------------------
(* Sequences.                                                               *)

LEMMA HeadAndTail ==
    ASSUME NEW S, NEW s \in Seq(S), s # <<>>
    PROVE  Head(s) \in S /\ Tail(s) \in Seq(S) /\ Len(Tail(s)) = Len(s) - 1 /\ Len(s) \in Nat
OBVIOUS

(* What is sent moves from the front of one part of the feed to the end of  *)
(* the part before it.                                                      *)
LEMMA MoveHead ==
    ASSUME NEW S, NEW w \in Seq(S), NEW r \in Seq(S), r # <<>>
    PROVE  Append(w, Head(r)) \o Tail(r) = w \o r
<1> DEFINE x == Append(w, Head(r)) \o Tail(r)
<1>1. x \in Seq(S) /\ w \o r \in Seq(S) /\ Len(x) = Len(w) + Len(r) /\ Len(w \o r) = Len(w) + Len(r)
  OBVIOUS
<1>2. \A i \in 1 .. (Len(w) + Len(r)) : x[i] = (w \o r)[i]
  OBVIOUS
<1> QED
  BY <1>1, <1>2

(* What is received leaves the feed at its front.                           *)
LEMMA TailOfConcat ==
    ASSUME NEW S, NEW w \in Seq(S), NEW r \in Seq(S), w # <<>>
    PROVE  Tail(w) \o r = Tail(w \o r) /\ Head(w \o r) = Head(w) /\ w \o r # <<>>
<1>1. Tail(w) \o r \in Seq(S) /\ w \o r \in Seq(S) /\ w \o r # <<>> /\ Head(w \o r) = Head(w)
  OBVIOUS
<1>2. Len(Tail(w) \o r) = Len(Tail(w \o r))
  BY <1>1
<1>3. \A i \in 1 .. Len(Tail(w) \o r) : (Tail(w) \o r)[i] = Tail(w \o r)[i]
  BY <1>1
<1> QED
  BY <1>1, <1>2, <1>3

(* What is put into the queue is at the end of the feed.                    *)
LEMMA ConcatAppend ==
    \A s, q \in Seq(Nat), e \in Nat : s \o Append(q, e) = Append(s \o q, e)
OBVIOUS

(* The elements of a sequence.                                              *)
LEMMA InElements == ASSUME NEW s, NEW e PROVE e \in Elements(s) <=> \E i \in DOMAIN s : s[i] = e
BY DEF Elements

(* The elements of a sequence are of its type.                              *)
LEMMA ElementsInSet ==
    ASSUME NEW S, NEW s \in Seq(S)
    PROVE  \A e \in Elements(s) : e \in S
<1>1. \A i \in DOMAIN s : s[i] \in S
  OBVIOUS
<1> QED
  BY <1>1, Zenon DEF Elements

(* The elements of a sequence that is made of two.                          *)
LEMMA ElementsOfConcat ==
    \A s, t \in Seq(Nat) : Elements(s \o t) = Elements(s) \cup Elements(t)
<1> SUFFICES ASSUME NEW s \in Seq(Nat), NEW t \in Seq(Nat)
             PROVE  Elements(s \o t) = Elements(s) \cup Elements(t)
  OBVIOUS
<1> DEFINE x == s \o t
<1>1. \A i \in DOMAIN s : x[i] = s[i] /\ i \in DOMAIN x
  OBVIOUS
<1>2. \A i \in DOMAIN t : x[Len(s) + i] = t[i] /\ Len(s) + i \in DOMAIN x
  OBVIOUS
<1>3. \A i \in DOMAIN x : \/ i \in DOMAIN s /\ x[i] = s[i]
                         \/ \E j \in DOMAIN t : x[i] = t[j]
  <2> SUFFICES ASSUME NEW i \in DOMAIN x, i \notin DOMAIN s
               PROVE  \E j \in DOMAIN t : x[i] = t[j]
    BY <1>1
  <2>1. i \in Nat /\ i > Len(s) /\ i <= Len(s) + Len(t)
    OBVIOUS
  <2>2. i - Len(s) \in DOMAIN t
    BY <2>1
  <2>3. x[i] = t[i - Len(s)]
    BY <2>1
  <2> QED
    BY <2>2, <2>3
<1> HIDE DEF x
<1>4. Elements(x) = Elements(s) \cup Elements(t)
  <2>1. \A e \in Elements(x) : e \in Elements(s) \cup Elements(t)
    BY <1>3, Zenon DEF Elements
  <2>2. \A e \in Elements(s) \cup Elements(t) : e \in Elements(x)
    BY <1>1, <1>2, Zenon DEF Elements
  <2> QED
    BY <2>1, <2>2
<1> QED
  BY <1>4 DEF x

(* An element is appended.                                                  *)
LEMMA ElementsOfAppend ==
    \A s \in Seq(Nat), e \in Nat : Elements(Append(s, e)) = Elements(s) \cup {e}
<1> SUFFICES ASSUME NEW s \in Seq(Nat), NEW e \in Nat
             PROVE  Elements(Append(s, e)) = Elements(s) \cup {e}
  OBVIOUS
<1>1. \A i \in DOMAIN s : Append(s, e)[i] = s[i] /\ i \in DOMAIN Append(s, e)
  OBVIOUS
<1>2. \A i \in DOMAIN Append(s, e) : i \in DOMAIN s \/ i = Len(s) + 1
  OBVIOUS
<1>3. Append(s, e)[Len(s) + 1] = e /\ Len(s) + 1 \in DOMAIN Append(s, e)
  OBVIOUS
<1> QED
  BY <1>1, <1>2, <1>3 DEF Elements

(* An element is taken off.                                                 *)
LEMMA ElementsOfTail ==
    ASSUME NEW S, NEW s \in Seq(S), s # <<>>
    PROVE  Elements(s) = {Head(s)} \cup Elements(Tail(s))
<1> DEFINE rest == Tail(s)
<1>1. \A i \in DOMAIN rest : rest[i] = s[i + 1] /\ i + 1 \in DOMAIN s
  OBVIOUS
<1>2. \A i \in DOMAIN s : i = 1 \/ \E j \in DOMAIN rest : rest[j] = s[i]
  <2> SUFFICES ASSUME NEW i \in DOMAIN s, i # 1 PROVE \E j \in DOMAIN rest : rest[j] = s[i]
    OBVIOUS
  <2>1. i \in 2 .. Len(s) /\ DOMAIN rest = 1 .. (Len(s) - 1)
    OBVIOUS
  <2>2. i - 1 \in DOMAIN rest /\ (i - 1) + 1 = i
    BY <2>1
  <2> QED
    BY <1>1, <2>2
<1>3. 1 \in DOMAIN s /\ Head(s) = s[1]
  OBVIOUS
<1> HIDE DEF rest
<1>4. Elements(s) = {Head(s)} \cup Elements(rest)
  <2>1. \A e \in Elements(s) : e \in {Head(s)} \cup Elements(rest)
    BY <1>2, <1>3, Zenon DEF Elements
  <2>2. \A e \in {Head(s)} \cup Elements(rest) : e \in Elements(s)
    <3>1. Head(s) \in Elements(s)
      BY <1>3, Zenon DEF Elements
    <3>2. \A e \in Elements(rest) : e \in Elements(s)
      BY <1>1, Zenon DEF Elements
    <3> QED
      BY <3>1, <3>2
  <2> QED
    BY <2>1, <2>2
<1> QED
  BY <1>4 DEF rest

(* The empty sequence has no elements.                                      *)
LEMMA ElementsOfEmpty == Elements(<<>>) = {}
BY DEF Elements

(* A larger element may be appended.                                        *)
LEMMA IncreasingAppend ==
    ASSUME NEW s \in Seq(Nat), NEW e \in Nat, Increasing(s), \A x \in Elements(s) : x < e
    PROVE  Increasing(Append(s, e))
<1>1. \A i \in DOMAIN s : Append(s, e)[i] = s[i] /\ s[i] < e
  BY DEF Elements
<1>2. \A i \in DOMAIN Append(s, e) : i \in DOMAIN s \/ i = Len(s) + 1
  OBVIOUS
<1>3. Append(s, e)[Len(s) + 1] = e
  OBVIOUS
<1> QED
  BY <1>1, <1>2, <1>3 DEF Increasing

(* What follows the head is larger.                                         *)
LEMMA IncreasingTail ==
    ASSUME NEW s \in Seq(Nat), Increasing(s), s # <<>>
    PROVE  Increasing(Tail(s)) /\ \A x \in Elements(Tail(s)) : x > Head(s)
<1>1. \A i \in DOMAIN Tail(s) : Tail(s)[i] = s[i + 1] /\ i + 1 \in DOMAIN s /\ i >= 1
  OBVIOUS
<1>2. 1 \in DOMAIN s /\ Head(s) = s[1] /\ \A i \in DOMAIN s : s[i] \in Nat /\ i \in Nat
  OBVIOUS
<1>3. \A i \in DOMAIN Tail(s) : i \in Nat
  OBVIOUS
<1>4. \A i \in DOMAIN Tail(s) : Tail(s)[i] > Head(s)
  <2> SUFFICES ASSUME NEW i \in DOMAIN Tail(s) PROVE Tail(s)[i] > Head(s)
    OBVIOUS
  <2>1. 1 < i + 1 /\ i + 1 \in DOMAIN s
    BY <1>1, <1>3
  <2>2. s[1] < s[i + 1]
    BY <1>2, <2>1 DEF Increasing
  <2> QED
    BY <1>1, <1>2, <2>1, <2>2
<1>5. Increasing(Tail(s))
  <2> SUFFICES ASSUME NEW i \in DOMAIN Tail(s), NEW j \in DOMAIN Tail(s), i < j
               PROVE  Tail(s)[i] < Tail(s)[j]
    BY DEF Increasing
  <2>1. i + 1 < j + 1 /\ i + 1 \in DOMAIN s /\ j + 1 \in DOMAIN s
    BY <1>1, <1>3
  <2>2. s[i + 1] < s[j + 1]
    BY <2>1 DEF Increasing
  <2> QED
    BY <1>1, <2>2
<1> QED
  BY <1>4, <1>5, InElements

(* A request for the events after a number gets them in order.              *)
LEMMA EventsListed ==
    ASSUME timeline \in Nat, NEW after \in Nat, NEW limit \in Nat
    PROVE  /\ ListEvents(after, limit) \in Seq(1 .. timeline)
           /\ Increasing(ListEvents(after, limit))
           /\ Elements(ListEvents(after, limit)) =
                {e \in (after + 1) .. timeline : e <= after + limit}
<1> DEFINE n == Smaller(limit, IF timeline > after THEN timeline - after ELSE 0)
           list == ListEvents(after, limit)
<1>1. /\ n \in Nat /\ n <= limit
      /\ \A i \in 1 .. n : i <= limit /\ after + i \in 1 .. timeline
      /\ \A e \in (after + 1) .. timeline : e <= after + limit => e - after \in 1 .. n
  BY DEF Smaller
<1> HIDE DEF n
<1>2. list = [i \in 1 .. n |-> after + i]
  BY DEF ListEvents, n
<1>3. list \in Seq(1 .. timeline)
  BY <1>1, <1>2
<1>4. DOMAIN list = 1 .. n /\ \A i \in 1 .. n : list[i] = after + i
  BY <1>2
<1> HIDE DEF list
<1>5. Increasing(list)
  BY <1>4 DEF Increasing
<1>6. Elements(list) = {e \in (after + 1) .. timeline : e <= after + limit}
  <2>1. \A e \in Elements(list) : e \in (after + 1) .. timeline /\ e <= after + limit
    <3>1. \A i \in 1 .. n : after + i \in (after + 1) .. timeline /\ after + i <= after + limit
      BY <1>1
    <3>2. \A e \in Elements(list) : \E i \in 1 .. n : e = after + i
      BY <1>4, Zenon DEF Elements
    <3> QED
      BY <3>1, <3>2
  <2>2. \A e \in (after + 1) .. timeline : e <= after + limit => e \in Elements(list)
    <3> SUFFICES ASSUME NEW e \in (after + 1) .. timeline, e <= after + limit PROVE e \in Elements(list)
      OBVIOUS
    <3>1. e - after \in DOMAIN list
      BY <1>1, <1>4
    <3>2. list[e - after] = after + (e - after)
      BY <1>4, <3>1
    <3>3. after + (e - after) = e
      OBVIOUS
    <3> QED
      BY <3>1, <3>2, <3>3, InElements
  <2> QED
    BY <2>1, <2>2
<1> QED
  BY <1>3, <1>5, <1>6 DEF list

(* A page that holds the first events holds all of them.                    *)
LEMMA PageElements ==
    ASSUME NEW n \in Nat, NEW s \in Seq(1 .. n), \A i \in DOMAIN s : s[i] = i
    PROVE  Increasing(s) /\ Elements(s) = 1 .. Len(s) /\ Len(s) \in 0 .. n
<1>1. DOMAIN s = 1 .. Len(s) /\ Len(s) \in Nat
  OBVIOUS
<1>2. Increasing(s)
  BY <1>1 DEF Increasing
<1>3. Elements(s) = 1 .. Len(s)
  BY <1>1, Zenon DEF Elements
<1>4. Len(s) <= n
  <2>1. CASE Len(s) = 0
    BY <2>1
  <2>2. CASE Len(s) # 0
    <3>1. Len(s) \in DOMAIN s
      BY <1>1, <2>2
    <3>2. s[Len(s)] \in 1 .. n
      BY <3>1
    <3> QED
      BY <3>1, <3>2
  <2> QED
    BY <2>1, <2>2
<1> QED
  BY <1>1, <1>2, <1>3, <1>4

(* The history is a page of the first events.                               *)
LEMMA FirstEvents ==
    ASSUME timeline \in Nat
    PROVE  LET list == ListEvents(0, HistoryLimit)
           IN  /\ list \in Seq(1 .. timeline) /\ \A i \in DOMAIN list : list[i] = i
               /\ Increasing(list) /\ Elements(list) = 1 .. Len(list)
               /\ Len(list) \in 0 .. timeline
<1> DEFINE list == ListEvents(0, HistoryLimit)
<1>1. list \in Seq(1 .. timeline)
  BY EventsListed, LimitAssumption
<1>2. \A i \in DOMAIN list : list[i] = i
  BY DEF ListEvents
<1> HIDE DEF list
<1>3. Increasing(list) /\ Elements(list) = 1 .. Len(list) /\ Len(list) \in 0 .. timeline
  BY <1>1, <1>2, PageElements
<1> QED
  BY <1>1, <1>2, <1>3 DEF list

-----------------------------------------------------------------------------
(* A client that a step leaves alone.                                       *)
Same(c) ==
    /\ phase'[c] = phase[c] /\ rows'[c] = rows[c] /\ queue'[c] = queue[c]
    /\ wire'[c] = wire[c] /\ cursor'[c] = cursor[c] /\ events'[c] = events[c]
    /\ page'[c] = page[c] /\ skipped'[c] = skipped[c] /\ overtaken'[c] = overtaken[c]

(* What is left alone stays sound.                                          *)
LEMMA SameIsSound ==
    ASSUME NEW c \in Client, Sound(c), Same(c), timeline' = timeline
    PROVE  Sound(c)'
BY DEF Same, Sound, Under, Page, Shown, Ahead, Covered, Feed, InFlight, Numbers

(* The values of one client.                                                *)
LEMMA ClientTypes ==
    ASSUME TypeOK, NEW c \in Client
    PROVE  /\ timeline \in Nat
           /\ phase[c] \in {"unloaded", "closed", "replay", "live"}
           /\ {rows[c], queue[c], wire[c], events[c]} \subseteq Seq(1 .. timeline)
           /\ {rows[c], queue[c], wire[c], events[c]} \subseteq Seq(Nat)
           /\ page[c] = NoPage \/ page[c] \in Seq(1 .. timeline)
           /\ cursor[c] \in 0 .. timeline /\ cursor[c] \in Nat
           /\ skipped[c] \subseteq 1 .. timeline /\ overtaken[c] \subseteq 1 .. timeline
           /\ Feed(c) \in Seq(1 .. timeline) /\ Feed(c) \in Seq(Nat)
<1>1. /\ timeline \in Nat
      /\ phase[c] \in {"unloaded", "closed", "replay", "live"}
      /\ {rows[c], queue[c], wire[c], events[c]} \subseteq Seq(1 .. timeline)
      /\ page[c] = NoPage \/ page[c] \in Seq(1 .. timeline)
      /\ cursor[c] \in 0 .. timeline
      /\ skipped[c] \subseteq 1 .. timeline /\ overtaken[c] \subseteq 1 .. timeline
  BY DEF TypeOK, Numbers
<1>2. \A s \in Seq(1 .. timeline) : s \in Seq(Nat)
  BY <1>1
<1>3. Feed(c) \in Seq(1 .. timeline)
  BY <1>1 DEF Feed
<1> QED
  BY <1>1, <1>2, <1>3

-----------------------------------------------------------------------------
(* The end of the list that is kept.                                        *)

LEMMA LatestOfList ==
    ASSUME NEW S, NEW s \in Seq(S)
    PROVE  /\ Latest(s) \in Seq(S) /\ Len(Latest(s)) <= Window
           /\ \E k \in Nat : \A i \in DOMAIN Latest(s) :
                i + k \in DOMAIN s /\ Latest(s)[i] = s[i + k]
<1>1. Len(s) \in Nat /\ Window \in Nat \ {0} /\ DOMAIN s = 1 .. Len(s)
  BY LimitAssumption
<1>2. CASE Len(s) > Window
  <2> DEFINE k == Len(s) - Window
             last == SubSeq(s, k + 1, Len(s))
  <2>1. k \in Nat /\ Latest(s) = last /\ k + Window = Len(s)
    BY <1>1, <1>2 DEF Latest
  <2>2. last \in Seq(S) /\ Len(last) = Window /\ \A i \in 1 .. Window : last[i] = s[i + k]
    BY <1>1, <1>2
  <2>3. DOMAIN last = 1 .. Window
    BY <1>1, <2>2
  <2> HIDE DEF last, k
  <2>4. \A i \in DOMAIN last : i + k \in DOMAIN s /\ last[i] = s[i + k]
    BY <1>1, <2>1, <2>2, <2>3
  <2> QED
    BY <1>1, <2>1, <2>2, <2>4
<1>3. CASE ~(Len(s) > Window)
  <2>1. Latest(s) = s
    BY <1>3 DEF Latest
  <2>2. Len(s) <= Window
    BY <1>1, <1>3
  <2>3. \E k \in Nat : \A i \in DOMAIN s : i + k \in DOMAIN s /\ s[i] = s[i + k]
    <3>1. \A i \in DOMAIN s : i + 0 \in DOMAIN s /\ s[i] = s[i + 0]
      BY <1>1
    <3> QED
      BY <3>1
  <2> QED
    BY <2>1, <2>2, <2>3
<1> QED
  BY <1>2, <1>3

(* What is kept was there.                                                  *)
LEMMA ElementsOfLatest ==
    ASSUME NEW S, NEW s \in Seq(S)
    PROVE  Elements(Latest(s)) \subseteq Elements(s)
<1>1. PICK k \in Nat : \A i \in DOMAIN Latest(s) : i + k \in DOMAIN s /\ Latest(s)[i] = s[i + k]
  BY LatestOfList
<1> QED
  BY <1>1, Zenon DEF Elements

(* The order of what is kept is that of the list.                           *)
LEMMA LatestInOrder ==
    ASSUME NEW s \in Seq(Nat), NEW late, InOrder(s, late)
    PROVE  InOrder(Latest(s), late)
<1>1. PICK k \in Nat : \A i \in DOMAIN Latest(s) : i + k \in DOMAIN s /\ Latest(s)[i] = s[i + k]
  BY LatestOfList
<1>2. \A i \in DOMAIN Latest(s) : i \in Nat
  BY LatestOfList
<1> SUFFICES ASSUME NEW i \in DOMAIN Latest(s), NEW j \in DOMAIN Latest(s), i < j
             PROVE  \/ Latest(s)[i] < Latest(s)[j]
                    \/ Latest(s)[j] \in late /\ Latest(s)[i] # Latest(s)[j]
  BY DEF InOrder
<1>3. i + k < j + k /\ i + k \in DOMAIN s /\ j + k \in DOMAIN s
  BY <1>1, <1>2
<1>4. s[i + k] < s[j + k] \/ (s[j + k] \in late /\ s[i + k] # s[j + k])
  BY <1>3 DEF InOrder
<1> QED
  BY <1>1, <1>4

(* An element that is not there may be appended if it is larger, or late.   *)
LEMMA OrderedAppend ==
    ASSUME NEW s \in Seq(Nat), NEW e \in Nat, NEW late, InOrder(s, late),
           \A x \in Elements(s) : x < e \/ (e \in late /\ x # e)
    PROVE  InOrder(Append(s, e), late)
<1>1. \A i \in DOMAIN s : Append(s, e)[i] = s[i] /\ (s[i] < e \/ (e \in late /\ s[i] # e))
  BY DEF Elements
<1>2. \A i \in DOMAIN Append(s, e) : i \in 1 .. (Len(s) + 1) /\ (i \in DOMAIN s \/ i = Len(s) + 1)
  OBVIOUS
<1>3. Append(s, e)[Len(s) + 1] = e /\ Len(s) \in Nat /\ DOMAIN s = 1 .. Len(s)
  OBVIOUS
<1> DEFINE x == Append(s, e)
<1> SUFFICES ASSUME NEW i \in DOMAIN x, NEW j \in DOMAIN x, i < j
             PROVE  x[i] < x[j] \/ (x[j] \in late /\ x[i] # x[j])
  BY DEF InOrder
<1>4. i \in DOMAIN s
  BY <1>2, <1>3
<1>5. CASE j \in DOMAIN s
  BY <1>1, <1>4, <1>5 DEF InOrder
<1>6. CASE j = Len(s) + 1
  BY <1>1, <1>3, <1>4, <1>6
<1> QED
  BY <1>2, <1>5, <1>6

(* A list that increases is in order, whatever is late; and what is in      *)
(* order stays so when more is late.                                        *)
LEMMA IncreasingInOrder == \A s, late : Increasing(s) => InOrder(s, late)
BY Zenon DEF Increasing, InOrder

LEMMA MoreIsLate ==
    ASSUME NEW s, NEW late, NEW more, late \subseteq more, InOrder(s, late)
    PROVE  InOrder(s, more)
BY DEF InOrder

(* A list that is built keeps the types.                                    *)
LEMMA ListedTypes ==
    ASSUME TypeOK, NEW c \in Client, NEW s \in Numbers, Lists(c, s),
           NEW other \in SUBSET (1 .. timeline),
           Accounts(c, Leaves(c, s)) \/ Accounts(c, Leaves(c, s) \cup other)
    PROVE  /\ events' \in [Client -> Numbers]
           /\ {skipped', overtaken'} \subseteq [Client -> SUBSET (1 .. timeline)]
           /\ \A d \in Client : Len(events'[d]) <= Window
<1>1. Latest(s) \in Numbers /\ Len(Latest(s)) <= Window
  BY LatestOfList DEF Numbers
<1>2. Leaves(c, s) \subseteq 1 .. timeline
  <2>1. \A e \in Elements(s) \cup Elements(events[c]) : e \in 1 .. timeline
    BY ElementsInSet, ClientTypes, Zenon DEF Numbers
  <2> QED
    BY <2>1 DEF Leaves
<1>3. events' \in [Client -> Numbers]
  BY <1>1 DEF Lists, TypeOK
<1>4. \A d \in Client : Len(events'[d]) <= Window
  BY <1>1 DEF Lists, TypeOK
<1>5. PICK left \in SUBSET (1 .. timeline) : Accounts(c, left)
  BY <1>2
<1>6. skipped' \in [Client -> SUBSET (1 .. timeline)]
  BY <1>5 DEF Accounts, TypeOK
<1>7. overtaken' \in [Client -> SUBSET (1 .. timeline)]
  BY <1>5 DEF Accounts, TypeOK
<1> QED
  BY <1>3, <1>4, <1>6, <1>7

(* A list that is built accounts for what it held, or would hold: nothing   *)
(* is lost from sight.                                                      *)
LEMMA ListedAccounts ==
    ASSUME TypeOK, NEW c \in Client, NEW s \in Numbers, Lists(c, s),
           NEW left, Leaves(c, s) \subseteq left, Accounts(c, left)
    PROVE  /\ events'[c] = Latest(s) /\ Elements(events'[c]) \subseteq Elements(s)
           /\ skipped'[c] = skipped[c] \cup left
           /\ overtaken'[c] = overtaken[c] \cup (left \cap InFlight(c))
           /\ Elements(events[c]) \cup Elements(s) \subseteq Elements(events'[c]) \cup left
           /\ \A e \in InFlight(c) :
                e \in Elements(events[c]) \cup Elements(s) \cup overtaken[c] =>
                    e \in Elements(events'[c]) \cup overtaken'[c]
           /\ overtaken[c] \subseteq skipped[c] => overtaken'[c] \subseteq skipped'[c]
<1>1. events'[c] = Latest(s)
  BY DEF Lists, TypeOK
<1>2. skipped'[c] = skipped[c] \cup left /\ overtaken'[c] = overtaken[c] \cup (left \cap InFlight(c))
  BY DEF Accounts, TypeOK
<1>3. Elements(Latest(s)) \subseteq Elements(s)
  BY ElementsOfLatest DEF Numbers
<1>4. Elements(events[c]) \cup Elements(s) \subseteq Elements(Latest(s)) \cup left
  BY DEF Leaves
<1> QED
  BY <1>1, <1>2, <1>3, <1>4

-----------------------------------------------------------------------------
(* Type correctness.                                                        *)
LEMMA TypeAppend == ASSUME IInv, AppendEvent PROVE TypeOK'
<1>1. timeline' = timeline + 1 /\ timeline \in Nat
  BY DEF IInv, TypeOK, AppendEvent
<1>2. \A s \in Numbers : s \in Numbers' /\ Append(s, timeline') \in Numbers'
  BY <1>1 DEF Numbers
<1>3. queue' \in [Client -> Numbers'] /\ \A c \in Client : Len(queue'[c]) <= QueueSize
  <2> SUFFICES ASSUME NEW c \in Client PROVE queue'[c] \in Numbers' /\ Len(queue'[c]) <= QueueSize
    BY DEF AppendEvent
  <2>1. queue[c] \in Numbers /\ Len(queue[c]) \in Nat /\ Len(queue[c]) <= QueueSize
        /\ Len(Append(queue[c], timeline')) = Len(queue[c]) + 1
    BY DEF IInv, TypeOK, Numbers
  <2>2. queue'[c] = IF phase[c] = "live" /\ Len(queue[c]) # QueueSize
                    THEN Append(queue[c], timeline') ELSE queue[c]
    BY DEF AppendEvent, Misses
  <2> QED
    BY <1>2, <2>1, <2>2, LimitAssumption
<1>4. skipped' \in [Client -> SUBSET (1 .. timeline')]
  BY <1>1 DEF AppendEvent, IInv, TypeOK
<1>5. {rows, wire, events} \subseteq [Client -> Numbers'] /\ page \in [Client -> Numbers' \cup {NoPage}]
      /\ cursor \in [Client -> 0 .. timeline'] /\ overtaken \in [Client -> SUBSET (1 .. timeline')]
  BY <1>1, <1>2 DEF IInv, TypeOK
<1> QED
  BY <1>1, <1>3, <1>4, <1>5 DEF AppendEvent, TypeOK, IInv, inspector

(* The server hands events on that it has read.                             *)
LEMMA TypeServer ==
    ASSUME IInv, NEW c \in Client, Connect(c) \/ ServerStep(c)
    PROVE  TypeOK'
<1>1. CASE Connect(c)
  <2>1. ListEvents(cursor[c], ReplayLimit) \in Numbers
    BY ClientTypes, EventsListed, LimitAssumption DEF IInv, Numbers
  <2>2. (cursor[c] + ReplayLimit + 1) .. timeline \subseteq 1 .. timeline
    BY ClientTypes, LimitAssumption DEF IInv
  <2> QED
    BY <1>1, <2>1, <2>2 DEF Connect, IInv, TypeOK, inspector, Numbers
<1>2. CASE SendRow(c)
  <2>1. Append(wire[c], Head(rows[c])) \in Numbers /\ Tail(rows[c]) \in Numbers
    <3>1. rows[c] \in Seq(1 .. timeline) /\ wire[c] \in Seq(1 .. timeline) /\ rows[c] # <<>>
      BY <1>2, ClientTypes DEF SendRow, IInv
    <3>2. Head(rows[c]) \in 1 .. timeline /\ Tail(rows[c]) \in Seq(1 .. timeline)
      BY <3>1, HeadAndTail
    <3>3. \A e \in 1 .. timeline : Append(wire[c], e) \in Seq(1 .. timeline)
      BY <3>1
    <3> QED
      BY <3>2, <3>3 DEF Numbers
  <2>2. wire' \in [Client -> Numbers] /\ rows' \in [Client -> Numbers]
    BY <1>2, <2>1 DEF SendRow, IInv, TypeOK
  <2> QED
    BY <1>2, <2>2 DEF SendRow, IInv, TypeOK, inspector, Numbers
<1>3. CASE Register(c)
  BY <1>3 DEF Register, IInv, TypeOK, inspector, Numbers
<1>4. CASE SendLive(c)
  <2>1. Append(wire[c], Head(queue[c])) \in Numbers /\ Tail(queue[c]) \in Numbers
        /\ Len(Tail(queue[c])) <= QueueSize
    <3>1. /\ queue[c] \in Seq(1 .. timeline) /\ wire[c] \in Seq(1 .. timeline)
          /\ queue[c] # <<>> /\ Len(queue[c]) <= QueueSize
      BY <1>4, ClientTypes DEF SendLive, IInv, TypeOK
    <3>2. /\ Head(queue[c]) \in 1 .. timeline /\ Tail(queue[c]) \in Seq(1 .. timeline)
          /\ Len(Tail(queue[c])) = Len(queue[c]) - 1 /\ Len(queue[c]) \in Nat
      BY <3>1, HeadAndTail
    <3>3. \A e \in 1 .. timeline : Append(wire[c], e) \in Seq(1 .. timeline)
      BY <3>1
    <3>4. Len(Tail(queue[c])) <= QueueSize
      BY <3>1, <3>2, LimitAssumption
    <3> QED
      BY <3>2, <3>3, <3>4 DEF Numbers
  <2> QED
    BY <1>4, <2>1 DEF SendLive, IInv, TypeOK, inspector, Numbers
<1> QED
  BY <1>1, <1>2, <1>3, <1>4 DEF ServerStep

(* The Inspector applies events and pages of the timeline.                  *)
LEMMA TypeInspector ==
    ASSUME IInv, NEW c \in Client,
           Hydrate(c) \/ LoadHistory(c) \/ Receive(c) \/ RefreshRead(c) \/ RefreshApply(c)
    PROVE  TypeOK'
<1>1. timeline \in Nat /\ timeline \in 0 .. timeline
  BY DEF IInv, TypeOK
<1>2. ListEvents(0, HistoryLimit) \in Numbers
  BY <1>1, EventsListed, LimitAssumption DEF Numbers
<1>3. \A s \in Numbers : (\A i \in DOMAIN s : s[i] = i) => Len(s) \in 0 .. timeline
  BY <1>1 DEF Numbers
<1>4. Len(ListEvents(0, HistoryLimit)) \in 0 .. timeline
  BY <1>1, LimitAssumption DEF ListEvents, Smaller
<1>5. <<>> \in Numbers
  BY DEF Numbers
<1>6. CASE Hydrate(c)
  BY <1>1, <1>5, <1>6 DEF Hydrate, IInv, TypeOK, subscription, Numbers
<1>7. CASE LoadHistory(c)
  <2> DEFINE list == ListEvents(0, HistoryLimit)
  <2>1. /\ Lists(c, list) /\ Accounts(c, Leaves(c, list) \cup ((Len(list) + 1) .. cursor[c]))
        /\ cursor' = [cursor EXCEPT ![c] = Larger(@, Len(list))]
    BY <1>7 DEF LoadHistory
  <2>2. Larger(cursor[c], Len(list)) \in 0 .. timeline
    BY <1>4, ClientTypes DEF IInv, Larger
  <2>3. (Len(list) + 1) .. cursor[c] \subseteq 1 .. timeline
    <3>1. \A n \in Nat : (n + 1) .. cursor[c] \subseteq 1 .. timeline
      BY ClientTypes DEF IInv
    <3> QED
      BY <1>4, <3>1
  <2>4. cursor' \in [Client -> 0 .. timeline]
    BY <2>1, <2>2 DEF IInv, TypeOK
  <2> HIDE DEF list
  <2>5. /\ events' \in [Client -> Numbers]
        /\ {skipped', overtaken'} \subseteq [Client -> SUBSET (1 .. timeline)]
        /\ \A d \in Client : Len(events'[d]) <= Window
    BY <1>2, <2>1, <2>3, ListedTypes DEF IInv, list
  <2> QED
    BY <1>7, <2>4, <2>5 DEF LoadHistory, IInv, TypeOK, Numbers
<1>8. CASE Receive(c)
  <2> DEFINE arrived == Append(events[c], Head(wire[c]))
  <2>1. Head(wire[c]) \in 1 .. timeline /\ Tail(wire[c]) \in Numbers
    <3>1. wire[c] \in Seq(1 .. timeline) /\ wire[c] # <<>>
      BY <1>8, ClientTypes DEF Receive, IInv
    <3> QED
      BY <3>1, HeadAndTail DEF Numbers
  <2>2. arrived \in Numbers
    BY <2>1, ClientTypes DEF IInv, Numbers
  <2>3. Larger(cursor[c], Head(wire[c])) \in 0 .. timeline
    BY <2>1, ClientTypes DEF IInv, Larger
  <2>4. wire' \in [Client -> Numbers]
    BY <1>8, <2>1 DEF Receive, IInv, TypeOK
  <2>5. cursor' \in [Client -> 0 .. timeline]
    BY <1>8, <2>3 DEF Receive, IInv, TypeOK
  <2>6. \/ UNCHANGED <<events, skipped, overtaken>>
        \/ Lists(c, arrived) /\ Accounts(c, Leaves(c, arrived))
    BY <1>8 DEF Receive
  <2> HIDE DEF arrived
  <2>7. /\ events' \in [Client -> Numbers]
        /\ {skipped', overtaken'} \subseteq [Client -> SUBSET (1 .. timeline)]
        /\ \A d \in Client : Len(events'[d]) <= Window
    <3>1. CASE UNCHANGED <<events, skipped, overtaken>>
      BY <3>1 DEF IInv, TypeOK
    <3>2. CASE Lists(c, arrived) /\ Accounts(c, Leaves(c, arrived))
      BY <2>2, <3>2, ListedTypes DEF IInv
    <3> QED
      BY <2>6, <3>1, <3>2
  <2>8. UNCHANGED <<timeline, subscription, page, disconnects>>
    BY <1>8 DEF Receive
  <2> QED
    BY <2>4, <2>5, <2>7, <2>8 DEF IInv, TypeOK, subscription, Numbers
<1>9. CASE RefreshRead(c)
  BY <1>2, <1>9 DEF RefreshRead, IInv, TypeOK, subscription, Numbers
<1>10. CASE RefreshApply(c)
  <2>1. page[c] \in Numbers /\ Len(page[c]) \in 0 .. timeline
    BY <1>3, <1>10 DEF RefreshApply, IInv, Sound, Page
  <2>2. /\ events' \in [Client -> Numbers]
        /\ {skipped', overtaken'} \subseteq [Client -> SUBSET (1 .. timeline)]
        /\ \A d \in Client : Len(events'[d]) <= Window
    BY <1>10, <2>1, ListedTypes DEF RefreshApply, IInv
  <2>3. page' \in [Client -> Numbers \cup {NoPage}]
    BY <1>10 DEF RefreshApply, IInv, TypeOK
  <2> QED
    BY <1>10, <2>1, <2>2, <2>3 DEF RefreshApply, IInv, TypeOK, subscription, Numbers
<1> QED
  BY <1>6, <1>7, <1>8, <1>9, <1>10

(* A connection or a page that is lost leaves nothing.                      *)
LEMMA TypeLost ==
    ASSUME IInv, (\E clients \in SUBSET Client : Disconnected(clients)) \/ \E c \in Client : Reload(c)
    PROVE  TypeOK'
<1>1. /\ <<>> \in Numbers /\ 0 \in 0 .. timeline /\ timeline \in Nat
      /\ Len(<<>>) <= QueueSize /\ Len(<<>>) <= Window
  BY LimitAssumption DEF Numbers, IInv, TypeOK
<1>2. CASE \E clients \in SUBSET Client : Disconnected(clients)
  <2>1. {rows', queue', wire'} \subseteq [Client -> Numbers] /\ \A c \in Client : Len(queue'[c]) <= QueueSize
    BY <1>1, <1>2 DEF Disconnected, IInv, TypeOK
  <2>2. phase' \in [Client -> {"unloaded", "closed", "replay", "live"}] /\ disconnects' \in Nat
    BY <1>2 DEF Disconnected, IInv, TypeOK
  <2> QED
    BY <1>2, <2>1, <2>2 DEF Disconnected, IInv, TypeOK, inspector, Numbers
<1>3. CASE \E c \in Client : Reload(c)
  <2> PICK c \in Client : Reload(c)
    BY <1>3
  <2>1. rows' \in [Client -> Numbers] /\ queue' \in [Client -> Numbers]
        /\ wire' \in [Client -> Numbers] /\ events' \in [Client -> Numbers]
    BY <1>1 DEF Reload, IInv, TypeOK
  <2>2. phase' \in [Client -> {"unloaded", "closed", "replay", "live"}] /\ disconnects' \in Nat
    BY DEF Reload, IInv, TypeOK
  <2>3. page' \in [Client -> Numbers \cup {NoPage}]
    BY DEF Reload, IInv, TypeOK
  <2>4. cursor' \in [Client -> 0 .. timeline]
    BY <1>1 DEF Reload, IInv, TypeOK
  <2>5. {skipped', overtaken'} \subseteq [Client -> SUBSET (1 .. timeline)]
    <3>1. {} \in SUBSET (1 .. timeline)
      OBVIOUS
    <3>2. skipped' \in [Client -> SUBSET (1 .. timeline)]
      BY <3>1 DEF Reload, IInv, TypeOK
    <3>3. overtaken' \in [Client -> SUBSET (1 .. timeline)]
      BY <3>1 DEF Reload, IInv, TypeOK
    <3> QED
      BY <3>2, <3>3
  <2>6. \A d \in Client : Len(queue'[d]) <= QueueSize /\ Len(events'[d]) <= Window
    <3>1. \A d \in Client : /\ queue'[d] = IF d = c THEN <<>> ELSE queue[d]
                            /\ events'[d] = IF d = c THEN <<>> ELSE events[d]
      BY DEF Reload, IInv, TypeOK
    <3> QED
      BY <1>1, <3>1 DEF IInv, TypeOK
  <2> QED
    BY <1>1, <2>1, <2>2, <2>3, <2>4, <2>5, <2>6 DEF Reload, TypeOK, Numbers
<1> QED
  BY <1>2, <1>3

-----------------------------------------------------------------------------
(* The feed holds what is under way.                                        *)
LEMMA FeedElements ==
    \A w, r, q \in Seq(Nat) :
        Elements(w \o r \o q) = Elements(w) \cup Elements(r) \cup Elements(q)
<1> SUFFICES ASSUME NEW w \in Seq(Nat), NEW r \in Seq(Nat), NEW q \in Seq(Nat)
             PROVE  Elements(w \o r \o q) = Elements(w) \cup Elements(r) \cup Elements(q)
  OBVIOUS
<1> DEFINE x == w \o r
<1>1. x \in Seq(Nat)
  OBVIOUS
<1>2. Elements(x) = Elements(w) \cup Elements(r)
  BY ElementsOfConcat, Zenon
<1> HIDE DEF x
<1>3. Elements(x \o q) = Elements(x) \cup Elements(q)
  BY <1>1, ElementsOfConcat, Zenon
<1>4. Elements(x \o q) = Elements(w) \cup Elements(r) \cup Elements(q)
  BY <1>2, <1>3
<1> QED
  BY <1>4, Zenon DEF x

(* A step of one client leaves the others alone.                            *)
LEMMA OthersAreSame ==
    ASSUME TypeOK, NEW c \in Client, NEW d \in Client, c # d,
           \/ Connect(c) \/ ServerStep(c) \/ Hydrate(c) \/ LoadHistory(c) \/ Receive(c)
           \/ RefreshRead(c) \/ RefreshApply(c) \/ Reload(c)
    PROVE  Same(d) /\ timeline' = timeline
<1>1. CASE Connect(c)
  BY <1>1 DEF Connect, Same, TypeOK, inspector
<1>2. CASE ServerStep(c)
  BY <1>2 DEF ServerStep, SendRow, Register, SendLive, Same, TypeOK, inspector
<1>3. CASE Hydrate(c) \/ LoadHistory(c)
  BY <1>3 DEF Hydrate, LoadHistory, Lists, Accounts, Same, TypeOK, subscription
<1>4. CASE Receive(c)
  BY <1>4 DEF Receive, Lists, Accounts, Same, TypeOK, subscription
<1>5. CASE RefreshRead(c) \/ RefreshApply(c)
  BY <1>5 DEF RefreshRead, RefreshApply, Lists, Accounts, Same, TypeOK, subscription
<1>6. CASE Reload(c)
  BY <1>6 DEF Reload, Same, TypeOK
<1> QED
  BY <1>1, <1>2, <1>3, <1>4, <1>5, <1>6

(* What is put into the queue comes in at the end of the feed.              *)
LEMMA FeedGrows ==
    ASSUME TypeOK, NEW c \in Client, NEW e \in Nat,
           wire' = wire, rows' = rows, queue'[c] = Append(queue[c], e)
    PROVE  Feed(c)' = Append(Feed(c), e)
<1>1. wire[c] \o rows[c] \in Seq(Nat) /\ queue[c] \in Seq(Nat)
  BY ClientTypes
<1>2. wire[c] \o rows[c] \o Append(queue[c], e) = Append(wire[c] \o rows[c] \o queue[c], e)
  BY <1>1, ConcatAppend, Zenon
<1> QED
  BY <1>2, Zenon DEF Feed

(* A new event is put into the queue, skipped, or left to the replay.       *)
LEMMA AppendSound ==
    ASSUME IInv, AppendEvent, NEW c \in Client
    PROVE  Sound(c)'
<1>1. /\ timeline' = timeline + 1 /\ phase' = phase /\ rows' = rows /\ wire' = wire
      /\ cursor' = cursor /\ events' = events /\ page' = page /\ overtaken' = overtaken
  BY DEF AppendEvent, inspector
<1>2. timeline \in Nat /\ cursor[c] \in 0 .. timeline /\ Sound(c)
  BY ClientTypes DEF IInv
<1>3. /\ queue'[c] = IF phase[c] = "live" /\ ~Misses(c) THEN Append(queue[c], timeline') ELSE queue[c]
      /\ skipped'[c] = IF Misses(c) THEN skipped[c] \cup {timeline'} ELSE skipped[c]
  BY DEF AppendEvent
<1>4. phase[c] \in {"unloaded", "closed", "replay", "live"}
  BY ClientTypes DEF IInv
<1>5. Page(c)'
  <2>1. \A s \in Seq(1 .. timeline) : s \in Seq(1 .. timeline')
    BY <1>1, <1>2
  <2> QED
    BY <1>1, <1>2, <2>1 DEF Sound, Page, Numbers
<1>6. Shown(c)'
  BY <1>1, <1>2 DEF Sound, Shown
<1>7. CASE phase[c] = "live" /\ ~Misses(c)
  <2>1. queue'[c] = Append(queue[c], timeline') /\ skipped'[c] = skipped[c]
    BY <1>3, <1>7
  <2>2. /\ wire[c] \in Seq(Nat) /\ rows[c] \in Seq(Nat) /\ queue[c] \in Seq(Nat)
        /\ timeline' \in Nat /\ Feed(c) \in Seq(Nat) /\ Feed(c) \in Seq(1 .. timeline)
    BY <1>1, ClientTypes DEF IInv
  <2>3. InFlight(c)' = InFlight(c) \cup {timeline'}
    <3>1. Elements(Append(queue[c], timeline')) = Elements(queue[c]) \cup {timeline'}
      BY <2>2, ElementsOfAppend, Zenon
    <3> QED
      BY <1>1, <2>1, <3>1 DEF InFlight
  <2>4. Feed(c)' = Append(Feed(c), timeline')
    BY <1>1, <1>2, <2>1, <2>2, FeedGrows DEF IInv
  <2>5. Increasing(Feed(c)')
    <3>1. \A e \in Elements(Feed(c)) : e < timeline'
      BY <1>1, <1>2, <2>2 DEF Elements
    <3> QED
      BY <1>2, <2>2, <2>4, <3>1, IncreasingAppend DEF Sound
  <2>6. Under(c)'
    BY <1>1, <1>2, <1>7 DEF Sound, Under
  <2>7. Ahead(c)'
    BY <1>1, <1>2, <2>1, <2>3 DEF Sound, Ahead
  <2>8. Covered(c)'
    BY <1>1, <1>2, <2>1, <2>3 DEF Sound, Covered
  <2> QED
    BY <1>5, <1>6, <2>5, <2>6, <2>7, <2>8 DEF Sound
<1>8. CASE ~(phase[c] = "live" /\ ~Misses(c))
  <2>1. queue'[c] = queue[c]
    BY <1>3, <1>8
  <2>2. InFlight(c)' = InFlight(c) /\ Feed(c)' = Feed(c)
    BY <1>1, <2>1 DEF InFlight, Feed
  <2>3. phase[c] \notin {"unloaded", "closed"} => timeline' \in skipped'[c]
    BY <1>3, <1>4, <1>8 DEF Misses
  <2>4. skipped[c] \subseteq skipped'[c]
    BY <1>3
  <2>5. Covered(c)'
    BY <1>1, <1>2, <2>2, <2>3, <2>4 DEF Sound, Covered
  <2>6. Under(c)' /\ Ahead(c)' /\ Increasing(Feed(c)')
    BY <1>1, <1>2, <2>1, <2>2, <2>4 DEF Sound, Under, Ahead
  <2> QED
    BY <1>5, <1>6, <2>5, <2>6 DEF Sound
<1> QED
  BY <1>7, <1>8

(* The replay holds what comes after the cursor, up to its limit.           *)
LEMMA ConnectSound ==
    ASSUME IInv, NEW c \in Client, Connect(c)
    PROVE  Sound(c)'
<1> DEFINE list == ListEvents(cursor[c], ReplayLimit)
<1>1. /\ timeline' = timeline /\ wire' = wire /\ queue' = queue
      /\ cursor' = cursor /\ events' = events /\ page' = page /\ overtaken' = overtaken
      /\ phase[c] = "closed"
  BY DEF Connect, inspector
<1>2. /\ rows'[c] = list
      /\ phase'[c] = IF list = <<>> THEN "live" ELSE "replay"
      /\ skipped'[c] = skipped[c] \cup ((cursor[c] + ReplayLimit + 1) .. timeline)
  BY DEF Connect, IInv, TypeOK
<1>3. /\ Sound(c) /\ timeline \in Nat /\ cursor[c] \in Nat /\ ReplayLimit \in Nat
  BY ClientTypes, LimitAssumption DEF IInv
<1>4. /\ list \in Seq(1 .. timeline) /\ Increasing(list)
      /\ Elements(list) = {e \in (cursor[c] + 1) .. timeline : e <= cursor[c] + ReplayLimit}
  BY <1>3, EventsListed
<1> HIDE DEF list
<1>5. wire[c] = <<>> /\ queue[c] = <<>>
  BY <1>1, <1>3 DEF Sound, Under
<1>6. Feed(c)' = list /\ InFlight(c)' = Elements(list)
  <2>1. <<>> \o list \o <<>> = list
    BY <1>4
  <2> QED
    BY <1>1, <1>2, <1>5, <2>1, ElementsOfEmpty DEF Feed, InFlight
<1>7. Under(c)'
  BY <1>1, <1>2, <1>5 DEF Under
<1>8. Page(c)' /\ Shown(c)'
  BY <1>1, <1>3 DEF Sound, Page, Shown, Numbers
<1>9. Ahead(c)'
  BY <1>1, <1>2, <1>3, <1>4, <1>6 DEF Sound, Ahead
<1>10. Covered(c)'
  <2>1. (1 .. timeline) \subseteq Elements(events[c]) \cup skipped[c] \cup InFlight(c)
                               \cup ((cursor[c] + 1) .. timeline)
    BY <1>1, <1>3 DEF Sound, Covered
  <2>2. InFlight(c) = {}
    BY <1>3, <1>1, ElementsOfEmpty DEF Sound, Under, InFlight
  <2>3. \A e \in (cursor[c] + 1) .. timeline :
          e \in Elements(list) \/ e \in (cursor[c] + ReplayLimit + 1) .. timeline
    BY <1>3, <1>4
  <2>4. (1 .. timeline) \subseteq Elements(events[c]) \cup skipped'[c] \cup Elements(list)
    BY <1>2, <2>1, <2>2, <2>3
  <2> QED
    BY <1>1, <1>6, <2>4 DEF Covered
<1> QED
  BY <1>4, <1>6, <1>7, <1>8, <1>9, <1>10 DEF Sound

(* What the server does moves events along in the feed.                     *)
LEMMA SendKeepsFeed ==
    ASSUME IInv, NEW c \in Client, ServerStep(c)
    PROVE  Feed(c)' = Feed(c) /\ InFlight(c)' = InFlight(c)
<1>0. /\ wire[c] \in Seq(Nat) /\ rows[c] \in Seq(Nat) /\ queue[c] \in Seq(Nat) /\ Sound(c)
  BY ClientTypes DEF IInv
<1>1. CASE SendRow(c)
  <2>1. /\ wire'[c] = Append(wire[c], Head(rows[c])) /\ rows'[c] = Tail(rows[c])
        /\ queue'[c] = queue[c] /\ rows[c] # <<>>
    BY <1>1 DEF SendRow, IInv, TypeOK
  <2>2. Head(rows[c]) \in Nat
    BY <1>0, <2>1, HeadAndTail
  <2>3. Append(wire[c], Head(rows[c])) \o Tail(rows[c]) = wire[c] \o rows[c]
    BY <1>0, <2>1, MoveHead
  <2>4. Elements(Append(wire[c], Head(rows[c]))) \cup Elements(Tail(rows[c]))
          = Elements(wire[c]) \cup Elements(rows[c])
    BY <1>0, <2>1, <2>2, ElementsOfAppend, ElementsOfTail
  <2> QED
    BY <2>1, <2>3, <2>4 DEF Feed, InFlight
<1>2. CASE Register(c)
  BY <1>2 DEF Register, Feed, InFlight
<1>3. CASE SendLive(c)
  <2>1. /\ wire'[c] = Append(wire[c], Head(queue[c])) /\ queue'[c] = Tail(queue[c])
        /\ rows'[c] = <<>> /\ rows[c] = <<>> /\ queue[c] # <<>>
    BY <1>0, <1>3 DEF SendLive, IInv, TypeOK, Sound, Under
  <2>2. Head(queue[c]) \in Nat /\ Append(wire[c], Head(queue[c])) \in Seq(Nat)
    <3>1. Head(queue[c]) \in Nat
      BY <1>0, <2>1, HeadAndTail
    <3>2. \A e \in Nat : Append(wire[c], e) \in Seq(Nat)
      BY <1>0
    <3> QED
      BY <3>1, <3>2
  <2>3. Append(wire[c], Head(queue[c])) \o Tail(queue[c]) = wire[c] \o queue[c]
    BY <1>0, <2>1, MoveHead
  <2>4. Elements(Append(wire[c], Head(queue[c]))) \cup Elements(Tail(queue[c]))
          = Elements(wire[c]) \cup Elements(queue[c])
    BY <1>0, <2>1, <2>2, ElementsOfAppend, ElementsOfTail
  <2>5. \A s \in Seq(Nat) : s \o <<>> = s
    OBVIOUS
  <2> QED
    BY <1>0, <2>1, <2>2, <2>3, <2>4, <2>5 DEF Feed, InFlight
<1> QED
  BY <1>1, <1>2, <1>3 DEF ServerStep

(* The server sends the head of the feed, or goes over to the live part.    *)
LEMMA ServerSound ==
    ASSUME IInv, NEW c \in Client, ServerStep(c)
    PROVE  Sound(c)'
<1>1. /\ timeline' = timeline /\ cursor' = cursor /\ events' = events /\ page' = page
      /\ skipped' = skipped /\ overtaken' = overtaken
  BY DEF ServerStep, SendRow, Register, SendLive, inspector
<1>2. /\ wire[c] \in Seq(Nat) /\ rows[c] \in Seq(Nat) /\ queue[c] \in Seq(Nat) /\ Sound(c)
  BY ClientTypes DEF IInv
<1>3. Under(c)' /\ phase'[c] \in {"replay", "live"} /\ phase[c] \in {"replay", "live"}
  BY <1>2 DEF ServerStep, SendRow, Register, SendLive, IInv, TypeOK, Sound, Under
<1>4. Feed(c)' = Feed(c) /\ InFlight(c)' = InFlight(c)
  BY SendKeepsFeed
<1>5. Page(c)' /\ Shown(c)' /\ Ahead(c)' /\ Covered(c)'
  BY <1>1, <1>2, <1>3, <1>4 DEF Sound, Page, Shown, Ahead, Covered, Numbers
<1> QED
  BY <1>2, <1>3, <1>4, <1>5 DEF Sound

(* What arrives is the head of the feed.                                    *)
LEMMA ArrivalIsHead ==
    ASSUME IInv, NEW c \in Client, Receive(c)
    PROVE  Feed(c)' = Tail(Feed(c)) /\ Head(Feed(c)) = Head(wire[c]) /\ Feed(c) # <<>>
<1>1. wire[c] # <<>> /\ wire'[c] = Tail(wire[c]) /\ rows'[c] = rows[c] /\ queue'[c] = queue[c]
  BY DEF Receive, subscription, IInv, TypeOK
<1>2. /\ wire[c] \in Seq(Nat) /\ rows[c] \in Seq(Nat) /\ queue[c] \in Seq(Nat)
      /\ wire[c] \o rows[c] \in Seq(Nat)
  BY ClientTypes DEF IInv
<1>3. /\ Tail(wire[c]) \o rows[c] = Tail(wire[c] \o rows[c])
      /\ Head(wire[c] \o rows[c]) = Head(wire[c]) /\ wire[c] \o rows[c] # <<>>
  BY <1>1, <1>2, TailOfConcat
<1>4. /\ Tail(wire[c] \o rows[c]) \o queue[c] = Tail(wire[c] \o rows[c] \o queue[c])
      /\ Head(wire[c] \o rows[c] \o queue[c]) = Head(wire[c] \o rows[c])
      /\ wire[c] \o rows[c] \o queue[c] # <<>>
  BY <1>2, <1>3, TailOfConcat
<1> QED
  BY <1>1, <1>3, <1>4 DEF Feed

(* What arrives is shown already, is the next after all that is shown, or   *)
(* was overtaken.                                                           *)
LEMMA ReceiveSound ==
    ASSUME IInv, NEW c \in Client, Receive(c)
    PROVE  Sound(c)'
<1> DEFINE e == Head(wire[c])
<1>1. /\ timeline' = timeline /\ phase' = phase /\ rows' = rows /\ queue' = queue
      /\ page' = page /\ wire[c] # <<>> /\ wire'[c] = Tail(wire[c])
  BY DEF Receive, subscription, IInv, TypeOK
<1>2. /\ wire[c] \in Seq(Nat) /\ rows[c] \in Seq(Nat) /\ queue[c] \in Seq(Nat)
      /\ events[c] \in Seq(Nat) /\ cursor[c] \in Nat /\ Feed(c) \in Seq(Nat) /\ Sound(c)
  BY ClientTypes DEF IInv
<1>3. e \in Nat /\ Tail(wire[c]) \in Seq(Nat)
  BY <1>1, <1>2, HeadAndTail
<1> DEFINE arrived == Append(events[c], e)
<1>4. \/ Known(c, e) /\ UNCHANGED <<events, cursor, skipped, overtaken>>
      \/ /\ ~Known(c, e) /\ cursor'[c] = Larger(cursor[c], e)
         /\ Lists(c, arrived) /\ Accounts(c, Leaves(c, arrived))
  BY DEF Receive, IInv, TypeOK
<1>0. arrived \in Numbers
  <2>1. wire[c] \in Seq(1 .. timeline) /\ events[c] \in Seq(1 .. timeline)
    BY ClientTypes DEF IInv
  <2>2. e \in 1 .. timeline
    BY <1>1, <2>1, HeadAndTail
  <2> QED
    BY <2>1, <2>2 DEF Numbers
<1> HIDE DEF e
<1>5. Elements(wire[c]) = {e} \cup Elements(wire'[c])
  BY <1>1, <1>2, ElementsOfTail DEF e
<1>6. InFlight(c) = {e} \cup InFlight(c)'
  BY <1>1, <1>5 DEF InFlight
<1>7. Feed(c)' = Tail(Feed(c)) /\ Head(Feed(c)) = e /\ Feed(c) # <<>>
  BY ArrivalIsHead DEF e
<1>8. Increasing(Feed(c)') /\ \A x \in InFlight(c)' : x > e
  <2>1. Increasing(Tail(Feed(c))) /\ \A x \in Elements(Tail(Feed(c))) : x > e
    BY <1>2, <1>7, IncreasingTail DEF Sound
  <2>2. wire'[c] \in Seq(Nat) /\ rows'[c] \in Seq(Nat) /\ queue'[c] \in Seq(Nat)
    BY <1>1, <1>2, <1>3
  <2>3. Elements(Feed(c)') = InFlight(c)'
    <3> PICK w \in Seq(Nat), r \in Seq(Nat), q \in Seq(Nat) :
          w = wire'[c] /\ r = rows'[c] /\ q = queue'[c]
      BY <2>2
    <3>1. Elements(w \o r \o q) = Elements(w) \cup Elements(r) \cup Elements(q)
      BY FeedElements
    <3>2. Feed(c)' = w \o r \o q
      BY Zenon DEF Feed
    <3>3. InFlight(c)' = Elements(w) \cup Elements(r) \cup Elements(q)
      BY Zenon DEF InFlight
    <3> QED
      BY <3>1, <3>2, <3>3, Zenon
  <2> QED
    BY <1>7, <2>1, <2>3
<1>9. Under(c)'
  <2>1. phase[c] \notin {"unloaded", "closed"}
    BY <1>1, <1>2 DEF Sound, Under
  <2> QED
    BY <1>1, <1>2, <2>1 DEF Sound, Under
<1>10. Page(c)'
  BY <1>1, <1>2 DEF Sound, Page, Numbers
<1>11. CASE Known(c, e) /\ UNCHANGED <<events, cursor, skipped, overtaken>>
  <2>1. Shown(c)' /\ Ahead(c)'
    BY <1>2, <1>6, <1>11 DEF Sound, Shown, Ahead
  <2>2. Covered(c)'
    BY <1>1, <1>2, <1>6, <1>11 DEF Sound, Covered, Known
  <2> QED
    BY <1>8, <1>9, <1>10, <2>1, <2>2 DEF Sound
<1>12. CASE /\ ~Known(c, e) /\ cursor'[c] = Larger(cursor[c], e)
            /\ Lists(c, arrived) /\ Accounts(c, Leaves(c, arrived))
  <2> DEFINE left == Leaves(c, arrived)
  <2>1. /\ events'[c] = Latest(arrived) /\ Elements(events'[c]) \subseteq Elements(arrived)
        /\ skipped'[c] = skipped[c] \cup left
        /\ overtaken'[c] = overtaken[c] \cup (left \cap InFlight(c))
        /\ Elements(events[c]) \cup Elements(arrived) \subseteq Elements(events'[c]) \cup left
        /\ \A f \in InFlight(c) :
             f \in Elements(events[c]) \cup Elements(arrived) \cup overtaken[c] =>
                 f \in Elements(events'[c]) \cup overtaken'[c]
        /\ overtaken[c] \subseteq skipped[c] => overtaken'[c] \subseteq skipped'[c]
    <3>1. Leaves(c, arrived) \subseteq Leaves(c, arrived) /\ TypeOK
      BY DEF IInv
    <3> HIDE DEF arrived
    <3> QED
      BY <1>0, <1>12, <3>1, ListedAccounts
  <2> HIDE DEF left
  <2>2. Elements(arrived) = Elements(events[c]) \cup {e}
    BY <1>2, <1>3, ElementsOfAppend, Zenon
  <2>3. \A x \in Elements(events[c]) : x \in Nat /\ x <= cursor[c]
    <3>1. \A x \in Elements(events[c]) : x \in Nat
      BY <1>2, ElementsInSet, Zenon
    <3> QED
      BY <1>2, <3>1 DEF Sound, Shown
  <2>4. e \in InFlight(c) /\ e \notin Elements(events[c]) /\ (e > cursor[c] \/ e \in overtaken[c])
    BY <1>2, <1>6, <1>12, <2>3 DEF Sound, Ahead, Known
  <2>5. /\ cursor'[c] \in Nat /\ cursor[c] <= cursor'[c] /\ e <= cursor'[c]
        /\ (cursor'[c] = cursor[c] \/ cursor'[c] = e)
    BY <1>2, <1>3, <1>12 DEF Larger
  <2>6. InOrder(events'[c], overtaken'[c])
    <3>1. \A x \in Elements(events[c]) : x < e \/ (e \in overtaken[c] /\ x # e)
      BY <1>2, <1>3, <2>3, <2>4
    <3>2. InOrder(arrived, overtaken[c])
      BY <1>2, <1>3, <3>1, OrderedAppend DEF Sound, Shown
    <3>3. arrived \in Seq(Nat)
      BY <1>2, <1>3
    <3> HIDE DEF arrived
    <3>4. InOrder(events'[c], overtaken[c])
      BY <2>1, <3>2, <3>3, LatestInOrder
    <3> QED
      BY <2>1, <3>4, MoreIsLate
  <2> HIDE DEF arrived
  <2>7. Shown(c)'
    BY <1>2, <1>3, <2>1, <2>2, <2>3, <2>5, <2>6 DEF Shown
  <2>8. Ahead(c)'
    <3>1. \A f \in InFlight(c)' : f > e /\ f \in InFlight(c) /\ f \in Nat
      <4>1. \A f \in InFlight(c) : f \in Nat
        BY <1>2, ElementsInSet, Zenon DEF InFlight
      <4> QED
        BY <1>6, <1>8, <4>1
    <3> QED
      BY <1>2, <2>1, <2>5, <3>1 DEF Sound, Ahead
  <2>9. Covered(c)'
    <3>1. phase[c] # "closed" /\ phase'[c] = phase[c]
      BY <1>1, <1>2 DEF Sound, Under
    <3> QED
      BY <1>1, <1>2, <1>6, <2>1, <2>2, <3>1 DEF Sound, Covered
  <2> QED
    BY <1>8, <1>9, <1>10, <2>7, <2>8, <2>9 DEF Sound
<1> QED
  BY <1>4, <1>11, <1>12

(* The first page and its cursor.                                           *)
LEMMA LoadSound ==
    ASSUME IInv, NEW c \in Client, Hydrate(c) \/ LoadHistory(c)
    PROVE  Sound(c)'
<1>1. /\ timeline' = timeline /\ rows' = rows /\ queue' = queue /\ wire' = wire
      /\ phase[c] = "unloaded"
  BY DEF Hydrate, LoadHistory, subscription
<1>2. /\ events[c] \in Seq(Nat) /\ cursor[c] \in 0 .. timeline /\ timeline \in Nat /\ Sound(c)
  BY ClientTypes DEF IInv
<1>3. wire[c] = <<>> /\ rows[c] = <<>> /\ queue[c] = <<>>
  BY <1>1, <1>2 DEF Sound, Under
<1>4. InFlight(c)' = {} /\ InFlight(c) = {} /\ Under(c)'
  BY <1>1, <1>3, ElementsOfEmpty DEF InFlight, Under
<1>5. Increasing(Feed(c)')
  <2>1. <<>> \o <<>> \o <<>> = <<>>
    OBVIOUS
  <2> QED
    BY <1>1, <1>3, <2>1 DEF Feed, Increasing
<1>6. CASE Hydrate(c)
  <2>1. /\ cursor'[c] = timeline /\ page'[c] = <<>> /\ events' = events /\ phase' = phase
        /\ UNCHANGED <<skipped, overtaken>>
    BY <1>6 DEF Hydrate, subscription, IInv, TypeOK
  <2>2. Page(c)'
    <3>1. <<>> \in Seq(1 .. timeline')
      OBVIOUS
    <3> QED
      BY <2>1, <3>1 DEF Page, Numbers
  <2>3. Shown(c)'
    <3>1. \A x \in Elements(events[c]) : x \in Nat
      BY <1>2, ElementsInSet, Zenon
    <3> QED
      BY <1>2, <2>1, <3>1 DEF Sound, Shown
  <2>4. Covered(c)' /\ Ahead(c)'
    BY <1>1, <1>2, <1>4, <2>1 DEF Sound, Covered, Ahead
  <2> QED
    BY <1>4, <1>5, <2>2, <2>3, <2>4 DEF Sound
<1>7. CASE LoadHistory(c)
  <2> DEFINE list == ListEvents(0, HistoryLimit)
           left == Leaves(c, list) \cup ((Len(list) + 1) .. cursor[c])
  <2>1. /\ cursor'[c] = Larger(cursor[c], Len(list)) /\ page'[c] = NoPage
        /\ phase'[c] = "closed" /\ Lists(c, list) /\ Accounts(c, left)
    BY <1>7 DEF LoadHistory, IInv, TypeOK
  <2>2. /\ list \in Seq(1 .. timeline) /\ Increasing(list) /\ Elements(list) = 1 .. Len(list)
        /\ Len(list) \in 0 .. timeline
    BY <1>2, FirstEvents
  <2> HIDE DEF list
  <2>3. /\ events'[c] = Latest(list) /\ Elements(events'[c]) \subseteq Elements(list)
        /\ skipped'[c] = skipped[c] \cup left
        /\ overtaken'[c] = overtaken[c] \cup (left \cap InFlight(c))
        /\ Elements(events[c]) \cup Elements(list) \subseteq Elements(events'[c]) \cup left
        /\ overtaken[c] \subseteq skipped[c] => overtaken'[c] \subseteq skipped'[c]
    <3>1. Leaves(c, list) \subseteq left /\ TypeOK /\ list \in Numbers
      BY <2>2 DEF IInv, Numbers
    <3> HIDE DEF left
    <3> QED
      BY <2>1, <3>1, ListedAccounts
  <2>4. cursor'[c] \in Nat /\ cursor'[c] >= cursor[c] /\ cursor'[c] >= Len(list)
        /\ (cursor'[c] = cursor[c] \/ cursor'[c] = Len(list))
    BY <1>2, <2>1, <2>2 DEF Larger
  <2>5. InOrder(events'[c], overtaken'[c])
    <3>1. list \in Seq(Nat)
      BY <1>2, <2>2
    <3> QED
      BY <2>2, <2>3, <3>1, IncreasingInOrder, LatestInOrder
  <2>6. Shown(c)' /\ Page(c)' /\ Ahead(c)'
    BY <1>2, <1>4, <2>1, <2>2, <2>3, <2>4, <2>5 DEF Sound, Shown, Page, Ahead
  <2>7. Covered(c)'
    BY <1>1, <1>2, <2>1, <2>2, <2>3, <2>4 DEF Covered
  <2> QED
    BY <1>4, <1>5, <2>6, <2>7 DEF Sound
<1> QED
  BY <1>6, <1>7

(* The refreshed page is whole, and what it takes off the screen is counted *)
(* as skipped.                                                              *)
LEMMA RefreshSound ==
    ASSUME IInv, NEW c \in Client, RefreshRead(c) \/ RefreshApply(c)
    PROVE  Sound(c)'
<1>1. /\ timeline' = timeline /\ rows' = rows /\ queue' = queue /\ wire' = wire
      /\ phase' = phase /\ phase[c] # "unloaded"
  BY DEF RefreshRead, RefreshApply, subscription
<1>2. /\ events[c] \in Seq(Nat) /\ cursor[c] \in 0 .. timeline /\ timeline \in Nat /\ Sound(c)
  BY ClientTypes DEF IInv
<1>3. InFlight(c)' = InFlight(c) /\ Feed(c)' = Feed(c) /\ Under(c)'
  BY <1>1, <1>2 DEF InFlight, Feed, Sound, Under
<1>4. CASE RefreshRead(c)
  <2> DEFINE list == ListEvents(0, HistoryLimit)
  <2>1. /\ page'[c] = list /\ cursor' = cursor /\ events' = events /\ skipped' = skipped
        /\ overtaken' = overtaken
    BY <1>4 DEF RefreshRead, IInv, TypeOK
  <2>2. list \in Seq(1 .. timeline) /\ \A i \in DOMAIN list : list[i] = i
    BY <1>2, FirstEvents
  <2> HIDE DEF list
  <2> QED
    BY <1>1, <1>2, <1>3, <2>1, <2>2 DEF Sound, Page, Shown, Ahead, Covered, Numbers
<1>5. CASE RefreshApply(c)
  <2> DEFINE left == Leaves(c, page[c])
  <2>1. /\ cursor'[c] = Len(page[c]) /\ page'[c] = NoPage /\ page[c] # NoPage
        /\ Lists(c, page[c]) /\ Accounts(c, left)
    BY <1>5 DEF RefreshApply, IInv, TypeOK
  <2>2. page[c] \in Seq(1 .. timeline) /\ \A i \in DOMAIN page[c] : page[c][i] = i
    BY <1>2, <2>1 DEF Sound, Page, Numbers
  <2>3. /\ Increasing(page[c]) /\ Elements(page[c]) = 1 .. Len(page[c])
        /\ Len(page[c]) \in 0 .. timeline
    BY <1>2, <2>2, PageElements
  <2>4. /\ events'[c] = Latest(page[c]) /\ Elements(events'[c]) \subseteq Elements(page[c])
        /\ skipped'[c] = skipped[c] \cup left
        /\ overtaken'[c] = overtaken[c] \cup (left \cap InFlight(c))
        /\ Elements(events[c]) \cup Elements(page[c]) \subseteq Elements(events'[c]) \cup left
        /\ \A e \in InFlight(c) :
             e \in Elements(events[c]) \cup Elements(page[c]) \cup overtaken[c] =>
                 e \in Elements(events'[c]) \cup overtaken'[c]
        /\ overtaken[c] \subseteq skipped[c] => overtaken'[c] \subseteq skipped'[c]
    <3>1. Leaves(c, page[c]) \subseteq left /\ TypeOK /\ page[c] \in Numbers
      BY <2>2 DEF IInv, Numbers
    <3> HIDE DEF left
    <3> QED
      BY <2>1, <3>1, ListedAccounts
  <2> HIDE DEF left
  <2>5. InOrder(events'[c], overtaken'[c])
    <3>1. page[c] \in Seq(Nat)
      BY <1>2, <2>2
    <3> QED
      BY <2>3, <2>4, <3>1, IncreasingInOrder, LatestInOrder
  <2>6. Shown(c)' /\ Page(c)'
    BY <2>1, <2>3, <2>4, <2>5 DEF Shown, Page
  <2>7. Ahead(c)'
    <3>1. \A e \in InFlight(c) : e \in Nat /\ e >= 1
      <4>1. /\ wire[c] \in Seq(1 .. timeline) /\ rows[c] \in Seq(1 .. timeline)
            /\ queue[c] \in Seq(1 .. timeline)
        BY ClientTypes DEF IInv
      <4>2. \A e \in InFlight(c) : e \in 1 .. timeline
        BY <4>1, ElementsInSet, Zenon DEF InFlight
      <4> QED
        BY <4>2
    <3>2. \A e \in InFlight(c) : e > Len(page[c]) \/ e \in Elements(page[c])
      BY <2>3, <3>1
    <3> QED
      BY <1>2, <1>3, <2>1, <2>4, <3>2 DEF Sound, Ahead
  <2>8. Covered(c)'
    BY <1>1, <1>2, <1>3, <2>1, <2>3, <2>4 DEF Sound, Covered
  <2> QED
    BY <1>2, <1>3, <2>6, <2>7, <2>8 DEF Sound
<1> QED
  BY <1>4, <1>5

(* A connection that ends takes what was under way with it; all of it is    *)
(* ahead of the cursor, shown, or given up.                                 *)
LEMMA LostSound ==
    ASSUME IInv, NEW c \in Client,
           (\E clients \in SUBSET Client : c \in clients /\ Disconnected(clients)) \/ Reload(c)
    PROVE  Sound(c)'
<1>1. timeline' = timeline /\ wire'[c] = <<>> /\ rows'[c] = <<>> /\ queue'[c] = <<>>
  BY DEF Disconnected, Reload, inspector, IInv, TypeOK
<1>2. /\ events[c] \in Seq(Nat) /\ cursor[c] \in 0 .. timeline /\ timeline \in Nat /\ Sound(c)
      /\ phase[c] \in {"unloaded", "closed", "replay", "live"}
  BY ClientTypes DEF IInv
<1>3. InFlight(c)' = {}
  BY <1>1, ElementsOfEmpty DEF InFlight
<1>4. Increasing(Feed(c)')
  <2>1. <<>> \o <<>> \o <<>> = <<>>
    OBVIOUS
  <2> QED
    BY <1>1, <2>1 DEF Feed, Increasing
<1>5. CASE \E clients \in SUBSET Client : c \in clients /\ Disconnected(clients)
  <2>1. /\ phase'[c] = IF phase[c] # "unloaded" THEN "closed" ELSE "unloaded"
        /\ cursor' = cursor /\ events' = events /\ page' = page /\ skipped' = skipped
        /\ overtaken' = overtaken
    BY <1>2, <1>5 DEF Disconnected, inspector
  <2>2. Under(c)' /\ Page(c)' /\ Shown(c)'
    BY <1>1, <1>2, <2>1 DEF Sound, Under, Page, Shown, Numbers
  <2>3. Covered(c)' /\ Ahead(c)'
    BY <1>1, <1>2, <1>3, <2>1 DEF Sound, Covered, Ahead
  <2> QED
    BY <1>3, <1>4, <2>2, <2>3 DEF Sound
<1>6. CASE Reload(c)
  <2>1. /\ phase'[c] = "unloaded" /\ cursor'[c] = 0 /\ events'[c] = <<>> /\ page'[c] = NoPage
        /\ overtaken'[c] = {}
    BY <1>6 DEF Reload, IInv, TypeOK
  <2>2. InOrder(<<>>, {})
    BY DEF InOrder
  <2> QED
    BY <1>1, <1>3, <1>4, <2>1, <2>2, ElementsOfEmpty
       DEF Sound, Under, Page, Shown, Ahead, Covered
<1> QED
  BY <1>5, <1>6

-----------------------------------------------------------------------------
(* No page is loaded.                                                       *)
LEMMA InitInv == Init => IInv
<1> SUFFICES ASSUME Init PROVE IInv
  OBVIOUS
<1>1. /\ <<>> \in Numbers /\ 0 \in 0 .. timeline /\ timeline \in Nat
      /\ Len(<<>>) <= QueueSize /\ Len(<<>>) <= Window
  BY LimitAssumption DEF Numbers, Init
<1>2. TypeOK
  BY <1>1 DEF Init, TypeOK
<1>3. ASSUME NEW c \in Client PROVE Sound(c)
  <2>1. <<>> \o <<>> \o <<>> = <<>>
    OBVIOUS
  <2>2. /\ phase[c] = "unloaded" /\ rows[c] = <<>> /\ queue[c] = <<>> /\ wire[c] = <<>>
        /\ events[c] = <<>> /\ page[c] = NoPage /\ overtaken[c] = {}
    BY DEF Init
  <2>3. Increasing(<<>>) /\ InOrder(<<>>, {})
    BY DEF Increasing, InOrder
  <2> QED
    BY <2>1, <2>2, <2>3, ElementsOfEmpty
       DEF Sound, Under, Page, Shown, Ahead, Covered, Feed, InFlight
<1> QED
  BY <1>2, <1>3 DEF IInv

(* Each step keeps the client that acts sound, and leaves the others alone. *)
LEMMA NextInv == IInv /\ [Next]_vars => IInv'
<1> SUFFICES ASSUME IInv, [Next]_vars PROVE IInv'
  OBVIOUS
<1>1. CASE AppendEvent
  BY <1>1, TypeAppend, AppendSound DEF IInv
<1>2. CASE \E clients \in SUBSET Client : Disconnected(clients)
  <2> PICK clients \in SUBSET Client : Disconnected(clients)
    BY <1>2
  <2>1. ASSUME NEW c \in Client PROVE Sound(c)'
    <3>1. CASE c \in clients
      BY <3>1, LostSound
    <3>2. CASE c \notin clients
      BY <3>2, SameIsSound DEF Disconnected, Same, inspector, IInv, TypeOK
    <3> QED
      BY <3>1, <3>2
  <2> QED
    BY <1>2, <2>1, TypeLost DEF IInv
<1>3. ASSUME NEW c \in Client,
             \/ Connect(c) \/ ServerStep(c) \/ Hydrate(c) \/ LoadHistory(c) \/ Receive(c)
             \/ RefreshRead(c) \/ RefreshApply(c) \/ Reload(c)
      PROVE  IInv'
  <2>1. Sound(c)'
    BY <1>3, ConnectSound, ServerSound, LoadSound, ReceiveSound, RefreshSound, LostSound
  <2>2. \A d \in Client \ {c} : Sound(d)'
    BY <1>3, OthersAreSame, SameIsSound DEF IInv
  <2>3. TypeOK'
    BY <1>3, TypeServer, TypeInspector, TypeLost
  <2> QED
    BY <2>1, <2>2, <2>3 DEF IInv
<1>4. CASE UNCHANGED vars
  BY <1>4 DEF vars, IInv, TypeOK, Sound, Under, Page, Shown, Ahead, Covered, Feed, InFlight,
     Numbers
<1>5. CASE Restart \/ \E c \in Client : Disconnect(c)
  <2>1. \E clients \in SUBSET Client : Disconnected(clients)
    BY <1>5 DEF Restart, Disconnect
  <2> QED
    BY <1>2, <2>1
<1> QED
  BY <1>1, <1>3, <1>4, <1>5 DEF Next

(* Every reachable state is of its type, and each client's feed is sound.   *)
LEMMA Invariant == Spec => []IInv
BY InitInv, NextInv, PTL DEF Spec

(* Every reachable state of the timeline, the subscriptions and the         *)
(* Inspectors is of its type; no queue outgrows its limit.                  *)
THEOREM StreamTypeCorrect == Spec => []TypeOK
BY Invariant, PTL DEF IInv

(* The Inspector holds no event twice, and shows one after a later one only *)
(* when a refresh overtook it on its way.                                   *)
THEOREM OrderIsShown == Spec => []ShownInOrder
<1>1. IInv => ShownInOrder
  BY DEF IInv, Sound, Shown, ShownInOrder
<1> QED
  BY <1>1, Invariant, PTL

(* What a connection carries is in order.                                   *)
THEOREM OrderIsCarried == Spec => []FeedInOrder
<1>1. IInv => FeedInOrder
  BY DEF IInv, Sound, Feed, FeedInOrder
<1> QED
  BY <1>1, Invariant, PTL

(* Every gap behind a cursor has a known cause.                             *)
THEOREM GapsHaveCauses == Spec => []GapsAreKnown
<1>1. IInv => GapsAreKnown
  BY DEF IInv, Sound, Covered, GapsAreKnown
<1> QED
  BY <1>1, Invariant, PTL

-----------------------------------------------------------------------------
(* A page that is not loaded shows nothing.                                 *)
Blank == \A c \in Client : phase[c] = "unloaded" => events[c] = <<>>

LEMMA BlankNext == IInv /\ Blank /\ [Next]_vars => Blank'
<1> SUFFICES ASSUME IInv, Blank, [Next]_vars, NEW c \in Client, phase'[c] = "unloaded"
             PROVE  events'[c] = <<>>
  BY DEF Blank
<1>1. ASSUME phase[c] = "unloaded", events'[c] = events[c] PROVE events'[c] = <<>>
  BY <1>1 DEF Blank
<1>2. CASE AppendEvent
  BY <1>1, <1>2 DEF AppendEvent, inspector
<1>3. CASE \E clients \in SUBSET Client : Disconnected(clients)
  BY <1>1, <1>3 DEF Disconnected, inspector
<1>4. CASE Restart \/ \E d \in Client : Disconnect(d)
  BY <1>3, <1>4 DEF Restart, Disconnect
<1>5. ASSUME NEW d \in Client, d # c,
             \/ Connect(d) \/ ServerStep(d) \/ Hydrate(d) \/ LoadHistory(d) \/ Receive(d)
             \/ RefreshRead(d) \/ RefreshApply(d) \/ Reload(d)
      PROVE  events'[c] = <<>>
  BY <1>1, <1>5, OthersAreSame DEF IInv, Same
<1>6. CASE Connect(c) \/ ServerStep(c)
  BY <1>1, <1>6 DEF Connect, ServerStep, SendRow, Register, SendLive, inspector, IInv, TypeOK
<1>7. CASE Hydrate(c) \/ LoadHistory(c) \/ RefreshRead(c) \/ RefreshApply(c)
  BY <1>1, <1>7 DEF Hydrate, LoadHistory, RefreshRead, RefreshApply, subscription, IInv, TypeOK
<1>8. CASE Receive(c)
  BY <1>8 DEF Receive, subscription, IInv, Sound, Under
<1>9. CASE Reload(c)
  BY <1>9 DEF Reload, IInv, TypeOK
<1>10. CASE UNCHANGED vars
  BY <1>1, <1>10 DEF vars
<1> QED
  BY <1>2, <1>4, <1>5, <1>6, <1>7, <1>8, <1>9, <1>10 DEF Next

(* The queue and the connection of the abstract feed, client by client.     *)
LEMMA FeedShown ==
    /\ DOMAIN OnTheWay = Client /\ DOMAIN Connected = Client
    /\ \A c \in Client : OnTheWay[c] = Feed(c) /\ OnTheWay'[c] = Feed(c)'
    /\ \A c \in Client : /\ Connected[c] = (phase[c] \in {"replay", "live"})
                         /\ Connected'[c] = (phase'[c] \in {"replay", "live"})
BY DEF OnTheWay, Connected

(* What the abstract reader shows is what the Inspector shows.              *)
LEMMA ShownElements ==
    /\ \A c : Promised!ShownTo(c) = Elements(events[c])
    /\ \A s : Promised!Held(s) = Elements(s) /\ Promised!Latest(s) = Latest(s)
BY DEF Promised!ShownTo, Promised!Held, Promised!Latest, Elements, Latest

(* A list that the Inspector builds is what the abstract reader shows.      *)
LEMMA ListedIsShown ==
    ASSUME TypeOK, NEW c \in Client, NEW s, Lists(c, s), NEW others,
           Accounts(c, Leaves(c, s) \cup others)
    PROVE  Promised!Shows(c, s, others)
<1>1. events' = [events EXCEPT ![c] = Promised!Latest(s)]
  BY ShownElements DEF Lists
<1>2. skipped' = [skipped EXCEPT ![c] = @ \cup (Leaves(c, s) \cup others)]
  BY DEF Accounts
<1>3. Leaves(c, s) = (Promised!ShownTo(c) \cup Promised!Held(s)) \ Promised!Held(Promised!Latest(s))
  BY ShownElements DEF Leaves
<1>4. skipped[c] \cup (Leaves(c, s) \cup others) = (skipped[c] \cup Leaves(c, s)) \cup others
  OBVIOUS
<1>5. skipped' = [skipped EXCEPT ![c] = @ \cup Leaves(c, s) \cup others]
  BY <1>2, <1>4
<1> QED
  BY <1>1, <1>3, <1>5, Zenon DEF Promised!Shows

(* What is on the way to the client that acts changes, and to no other.     *)
LEMMA FeedOfOne ==
    ASSUME IInv, NEW c \in Client,
           \/ Connect(c) \/ ServerStep(c) \/ Hydrate(c) \/ LoadHistory(c) \/ Receive(c)
           \/ RefreshRead(c) \/ RefreshApply(c) \/ Reload(c)
    PROVE  /\ OnTheWay' = [OnTheWay EXCEPT ![c] = Feed(c)']
           /\ Connected' = [Connected EXCEPT ![c] = phase'[c] \in {"replay", "live"}]
<1>1. \A d \in Client : d # c => Feed(d)' = Feed(d) /\ phase'[d] = phase[d]
  BY OthersAreSame DEF IInv, Same, Feed
<1> QED
  BY <1>1, Zenon DEF OnTheWay, Connected

(* An event that is appended is published.                                  *)
LEMMA AppendPublishes == ASSUME IInv, AppendEvent PROVE Promised!Publish
<1>1. /\ timeline' = timeline + 1 /\ phase' = phase /\ rows' = rows /\ wire' = wire
      /\ events' = events
  BY DEF AppendEvent, inspector
<1>2. Connected' = Connected
  BY <1>1 DEF Connected
<1> DEFINE takers == {c \in Client : phase[c] = "live" /\ ~Misses(c)}
<1>3. takers \in SUBSET {c \in Client : Connected[c]}
  BY FeedShown
<1>4. ASSUME NEW c \in Client
      PROVE  Feed(c)' = IF c \in takers THEN Append(Feed(c), timeline') ELSE Feed(c)
  <2>1. queue'[c] = IF c \in takers THEN Append(queue[c], timeline') ELSE queue[c]
    BY DEF AppendEvent
  <2>2. timeline' \in Nat /\ TypeOK
    BY <1>1 DEF IInv, TypeOK
  <2>3. CASE c \in takers
    BY <1>1, <2>1, <2>2, <2>3, FeedGrows
  <2>4. CASE c \notin takers
    BY <1>1, <2>1, <2>4 DEF Feed
  <2> QED
    BY <2>3, <2>4
<1>5. OnTheWay' = [c \in Client |-> IF c \in takers THEN Append(OnTheWay[c], timeline')
                                   ELSE OnTheWay[c]]
  BY <1>4 DEF OnTheWay
<1>6. \A c \in Client : Misses(c) <=> Connected[c] /\ c \notin takers
  BY FeedShown DEF Misses
<1>7. skipped' = [c \in Client |-> IF Connected[c] /\ c \notin takers
                                  THEN skipped[c] \cup {timeline'} ELSE skipped[c]]
  BY <1>6 DEF AppendEvent
<1> HIDE DEF takers
<1> QED
  BY <1>1, <1>2, <1>3, <1>5, <1>7 DEF Promised!Publish

(* A subscription begins where the accounts of its client end.              *)
LEMMA ConnectConnects ==
    ASSUME IInv, NEW c \in Client, Connect(c)
    PROVE  \E k, n \in 0 .. timeline : Promised!Connect(c, k, n)
<1> DEFINE list == ListEvents(cursor[c], ReplayLimit)
           n == Len(list)
<1>1. /\ timeline' = timeline /\ wire'[c] = wire[c] /\ queue'[c] = queue[c]
      /\ events' = events /\ phase[c] = "closed" /\ rows'[c] = list
      /\ phase'[c] = IF list = <<>> THEN "live" ELSE "replay"
      /\ skipped' = [skipped EXCEPT ![c] = @ \cup
                        ((cursor[c] + ReplayLimit + 1) .. timeline)]
  BY DEF Connect, inspector, IInv, TypeOK
<1>2. /\ Sound(c) /\ timeline \in Nat /\ cursor[c] \in 0 .. timeline
      /\ ReplayLimit \in Nat \ {0}
  BY ClientTypes, LimitAssumption DEF IInv
<1>3. wire[c] = <<>> /\ queue[c] = <<>> /\ rows[c] = <<>>
  BY <1>1, <1>2 DEF Sound, Under
<1>4. /\ n = Smaller(ReplayLimit, timeline - cursor[c]) /\ n \in 0 .. timeline
      /\ list = Promised!After(cursor[c], n)
  <2>1. /\ Smaller(ReplayLimit, IF timeline > cursor[c] THEN timeline - cursor[c] ELSE 0)
             = Smaller(ReplayLimit, timeline - cursor[c])
        /\ Smaller(ReplayLimit, timeline - cursor[c]) \in 0 .. timeline
    BY <1>2 DEF Smaller
  <2> DEFINE m == Smaller(ReplayLimit, timeline - cursor[c])
  <2>2. list = [i \in 1 .. m |-> cursor[c] + i]
    BY <2>1 DEF ListEvents
  <2> HIDE DEF m
  <2>3. Len(list) = m
    BY <2>1, <2>2 DEF m
  <2> QED
    BY <2>1, <2>2, <2>3 DEF m, Promised!After
<1>5. list \in Seq(Nat)
  <2>1. cursor[c] \in Nat /\ ReplayLimit \in Nat
    BY <1>2
  <2>2. list \in Seq(1 .. timeline)
    BY <1>2, <2>1, EventsListed
  <2> QED
    BY <1>2, <2>2
<1> HIDE DEF list, n
<1>6. Feed(c)' = Promised!After(cursor[c], n)
  <2>1. <<>> \o list \o <<>> = list
    BY <1>5
  <2> QED
    BY <1>1, <1>3, <1>4, <2>1 DEF Feed
<1>7. (cursor[c] + ReplayLimit + 1) .. timeline = (cursor[c] + n + 1) .. timeline
  BY <1>2, <1>4 DEF Smaller
<1>8. (1 .. cursor[c]) \subseteq Elements(events[c]) \cup skipped[c]
  <2>1. InFlight(c) = {}
    BY <1>3, ElementsOfEmpty DEF InFlight
  <2>2. (1 .. timeline) \subseteq Elements(events[c]) \cup skipped[c] \cup ((cursor[c] + 1) .. timeline)
    BY <1>1, <1>2, <2>1 DEF Sound, Covered
  <2> QED
    BY <1>2, <2>2
<1>9. n = 0 => cursor[c] = timeline
  BY <1>2, <1>4 DEF Smaller
<1>10. ~Connected[c] /\ Connected' = [Connected EXCEPT ![c] = TRUE]
  <2>1. phase'[c] \in {"replay", "live"} /\ phase[c] \notin {"replay", "live"}
    BY <1>1
  <2> QED
    BY <2>1, FeedShown, FeedOfOne
<1>11. \A e \in Elements(events[c]) : e <= cursor[c]
  BY <1>2 DEF Sound, Shown
<1>12. Promised!Connect(c, cursor[c], n)
  <2>1. OnTheWay' = [OnTheWay EXCEPT ![c] = Promised!After(cursor[c], n)]
    BY <1>6, FeedOfOne
  <2> QED
    BY <1>1, <1>7, <1>8, <1>9, <1>10, <1>11, <2>1, ShownElements DEF Promised!Connect
<1> QED
  BY <1>2, <1>4, <1>12

(* What the server does on the way is not seen.                             *)
LEMMA ServerStutters ==
    ASSUME IInv, NEW c \in Client, ServerStep(c)
    PROVE  UNCHANGED Promised!vars
<1>1. timeline' = timeline /\ events' = events /\ skipped' = skipped
  BY DEF ServerStep, SendRow, Register, SendLive, inspector
<1>2. phase[c] \in {"replay", "live"} /\ phase'[c] \in {"replay", "live"}
  BY DEF ServerStep, SendRow, Register, SendLive, IInv, TypeOK
<1>3. \A d \in Client : d # c => Same(d)
  BY OthersAreSame DEF IInv
<1>4. \A d \in Client : Feed(d)' = Feed(d)
  BY <1>3, SendKeepsFeed DEF Same, Feed
<1>5. \A d \in Client : (phase'[d] \in {"replay", "live"}) = (phase[d] \in {"replay", "live"})
  BY <1>2, <1>3 DEF Same
<1> QED
  BY <1>1, <1>4, <1>5 DEF Promised!vars, Connected, OnTheWay

(* What is received is shown already, is shown after all that was shown     *)
(* before, or was given up before.                                          *)
LEMMA ReceiveShows == ASSUME IInv, NEW c \in Client, Receive(c) PROVE Promised!Show(c)
<1> DEFINE e == Head(wire[c])
<1>1. timeline' = timeline /\ phase' = phase /\ wire[c] # <<>>
  BY DEF Receive, subscription
<1>2. wire[c] \in Seq(Nat) /\ events[c] \in Seq(Nat) /\ cursor[c] \in Nat /\ Sound(c)
  BY ClientTypes DEF IInv
<1>3. e \in Nat /\ e \in InFlight(c)
  BY <1>1, <1>2, HeadAndTail, ElementsOfTail DEF InFlight
<1> DEFINE arrived == Append(events[c], e)
<1>4. \/ Known(c, e) /\ UNCHANGED <<events, skipped>>
      \/ ~Known(c, e) /\ Lists(c, arrived) /\ Accounts(c, Leaves(c, arrived))
  BY DEF Receive
<1>5. /\ OnTheWay' = [OnTheWay EXCEPT ![c] = Tail(@)]
      /\ Head(OnTheWay[c]) = e /\ OnTheWay[c] # <<>> /\ Connected' = Connected
  <2>1. OnTheWay' = [OnTheWay EXCEPT ![c] = Tail(Feed(c))]
    BY ArrivalIsHead, FeedOfOne
  <2> QED
    BY <1>1, <2>1, ArrivalIsHead, FeedShown DEF Connected
<1> HIDE DEF e
<1>6. \/ e \in Elements(events[c]) /\ UNCHANGED <<events, skipped>>
      \/ /\ e \notin Elements(events[c])
         /\ e \in skipped[c] \/ \A d \in Elements(events[c]) : d < e
         /\ Promised!Shows(c, arrived, {})
  <2>1. \A d \in Elements(events[c]) : d \in Nat /\ d <= cursor[c]
    <3>1. \A d \in Elements(events[c]) : d \in Nat
      BY <1>2, ElementsInSet, Zenon
    <3> QED
      BY <1>2, <3>1 DEF Sound, Shown
  <2>2. e > cursor[c] \/ e \in Elements(events[c]) \/ e \in skipped[c]
    BY <1>2, <1>3 DEF Sound, Ahead
  <2>3. Known(c, e) <=> e \in Elements(events[c])
    BY <2>1 DEF Known
  <2>4. e > cursor[c] => \A d \in Elements(events[c]) : d < e
    BY <1>2, <1>3, <2>1
  <2> HIDE DEF arrived
  <2>5. ASSUME Lists(c, arrived), Accounts(c, Leaves(c, arrived)) PROVE Promised!Shows(c, arrived, {})
    <3>1. Leaves(c, arrived) = Leaves(c, arrived) \cup {}
      OBVIOUS
    <3>2. Accounts(c, Leaves(c, arrived) \cup {})
      BY <2>5, <3>1, Zenon
    <3>3. TypeOK
      BY DEF IInv
    <3> QED
      BY <2>5, <3>2, <3>3, ListedIsShown
  <2> QED
    BY <1>4, <2>2, <2>3, <2>4, <2>5
<1>7. CASE e \in Elements(events[c]) /\ UNCHANGED <<events, skipped>>
  BY <1>1, <1>5, <1>7, ShownElements DEF Promised!Show
<1>8. CASE /\ e \notin Elements(events[c])
           /\ e \in skipped[c] \/ \A d \in Elements(events[c]) : d < e
           /\ Promised!Shows(c, arrived, {})
  BY <1>1, <1>5, <1>8, ShownElements DEF Promised!Show
<1> QED
  BY <1>6, <1>7, <1>8

(* Connections that end take what was on the way with them.                 *)
LEMMA LostDisconnects ==
    ASSUME IInv, NEW clients \in SUBSET Client, Disconnected(clients)
    PROVE  Promised!Disconnect(clients)
<1>1. timeline' = timeline /\ events' = events /\ skipped' = skipped
  BY DEF Disconnected, inspector
<1>2. ASSUME NEW c \in Client
      PROVE  /\ Feed(c)' = IF c \in clients THEN <<>> ELSE Feed(c)
             /\ (phase'[c] \in {"replay", "live"}) =
                  (phase[c] \in {"replay", "live"} /\ c \notin clients)
  <2>1. <<>> \o <<>> \o <<>> = <<>>
    OBVIOUS
  <2>2. CASE c \in clients
    BY <2>1, <2>2 DEF Disconnected, Feed
  <2>3. CASE c \notin clients
    <3>1. /\ phase'[c] = phase[c] /\ wire'[c] = wire[c] /\ rows'[c] = rows[c]
          /\ queue'[c] = queue[c]
      BY <2>3 DEF Disconnected
    <3>2. Feed(c)' = Feed(c)
      BY <3>1 DEF Feed
    <3>3. (phase[c] \in {"replay", "live"} /\ c \notin clients) = (phase[c] \in {"replay", "live"})
      BY <2>3
    <3> QED
      BY <2>3, <3>1, <3>2, <3>3
  <2> QED
    BY <2>2, <2>3
<1>3. OnTheWay' = [c \in Client |-> IF c \in clients THEN <<>> ELSE OnTheWay[c]]
  BY <1>2 DEF OnTheWay
<1>4. Connected' = [c \in Client |-> Connected[c] /\ c \notin clients]
  <2>1. Connected' = [c \in Client |-> phase'[c] \in {"replay", "live"}]
    BY DEF Connected
  <2>2. \A c \in Client : (phase'[c] \in {"replay", "live"}) = (Connected[c] /\ c \notin clients)
    BY <1>2, FeedShown, Zenon
  <2> QED
    BY <2>1, <2>2, Zenon
<1> QED
  BY <1>1, <1>3, <1>4 DEF Promised!Disconnect

(* A sequence of the first events is the one the abstract feed names.       *)
LEMMA FirstInOrder ==
    ASSUME NEW n \in Nat, NEW s \in Seq(1 .. n), \A i \in DOMAIN s : s[i] = i
    PROVE  s = Promised!First(Len(s))
<1>1. s = [i \in 1 .. Len(s) |-> s[i]] /\ DOMAIN s = 1 .. Len(s)
  OBVIOUS
<1> QED
  BY <1>1 DEF Promised!First

(* A page that is loaded shows the history, and misses what its cursor has  *)
(* passed.                                                                  *)
LEMMA HistoryLoads ==
    ASSUME IInv, Blank, NEW c \in Client, LoadHistory(c)
    PROVE  \E k, m \in 0 .. timeline : Promised!Load(c, k, m)
<1> DEFINE list == ListEvents(0, HistoryLimit)
<1>1. /\ timeline' = timeline /\ wire' = wire /\ rows' = rows /\ queue' = queue
      /\ phase[c] = "unloaded" /\ phase'[c] = "closed"
      /\ Lists(c, list) /\ Accounts(c, Leaves(c, list) \cup ((Len(list) + 1) .. cursor[c]))
  BY DEF LoadHistory, IInv, TypeOK
<1>2. timeline \in Nat /\ cursor[c] \in 0 .. timeline /\ events[c] = <<>>
  BY <1>1, ClientTypes DEF IInv, Blank
<1>3. Len(list) \in 0 .. timeline /\ list = Promised!First(Len(list))
  <2>1. /\ list \in Seq(1 .. timeline) /\ \A i \in DOMAIN list : list[i] = i
        /\ Len(list) \in 0 .. timeline
    BY <1>2, FirstEvents
  <2> QED
    BY <2>1, FirstInOrder
<1> HIDE DEF list
<1>4. ~Connected[c] /\ UNCHANGED <<Connected, OnTheWay>>
  <2>1. \A d \in Client : (phase'[d] \in {"replay", "live"}) = (phase[d] \in {"replay", "live"})
    BY <1>1 DEF LoadHistory, IInv, TypeOK
  <2>2. Connected' = Connected
    BY <2>1 DEF Connected
  <2>3. OnTheWay' = OnTheWay
    BY <1>1 DEF OnTheWay, Feed
  <2> QED
    BY <1>1, <2>2, <2>3, FeedShown
<1>5. Promised!Shows(c, list, (Len(list) + 1) .. cursor[c])
  BY <1>1, ListedIsShown DEF IInv
<1>6. Promised!Load(c, Len(list), cursor[c])
  BY <1>1, <1>2, <1>3, <1>4, <1>5 DEF Promised!Load
<1> QED
  BY <1>2, <1>3, <1>6

(* A refresh shows the first events, and what it takes away is missed.      *)
LEMMA PageRefreshes ==
    ASSUME IInv, NEW c \in Client, RefreshApply(c)
    PROVE  \E k \in 0 .. timeline : Promised!Refresh(c, k)
<1>1. /\ timeline' = timeline /\ wire' = wire /\ rows' = rows /\ queue' = queue
      /\ phase' = phase /\ page[c] # NoPage
      /\ Lists(c, page[c]) /\ Accounts(c, Leaves(c, page[c]))
  BY DEF RefreshApply, subscription, IInv, TypeOK
<1>2. /\ timeline \in Nat /\ page[c] \in Seq(1 .. timeline)
      /\ \A i \in DOMAIN page[c] : page[c][i] = i
  BY <1>1, ClientTypes DEF IInv, Sound, Page
<1>3. /\ Len(page[c]) \in 0 .. timeline /\ Elements(page[c]) = 1 .. Len(page[c])
      /\ page[c] = Promised!First(Len(page[c]))
  BY <1>2, PageElements, FirstInOrder
<1>4. UNCHANGED <<Connected, OnTheWay>>
  BY <1>1 DEF Connected, OnTheWay, Feed
<1>5. Promised!Shows(c, page[c], {})
  <2>1. Leaves(c, page[c]) = Leaves(c, page[c]) \cup {}
    OBVIOUS
  <2>2. Accounts(c, Leaves(c, page[c]) \cup {})
    BY <1>1, <2>1, Zenon
  <2> QED
    BY <1>1, <2>2, ListedIsShown DEF IInv
<1>6. Promised!Refresh(c, Len(page[c]))
  BY <1>1, <1>3, <1>4, <1>5 DEF Promised!Refresh
<1> QED
  BY <1>3, <1>6

(* A page that is loaded anew begins without accounts.                      *)
LEMMA ReloadForgets == ASSUME IInv, NEW c \in Client, Reload(c) PROVE Promised!Forget(c)
<1>1. /\ timeline' = timeline /\ wire'[c] = <<>> /\ rows'[c] = <<>> /\ queue'[c] = <<>>
      /\ phase'[c] = "unloaded" /\ events' = [events EXCEPT ![c] = <<>>]
      /\ skipped' = [skipped EXCEPT ![c] = {}]
  BY DEF Reload, IInv, TypeOK
<1>2. <<>> \o <<>> \o <<>> = <<>>
  OBVIOUS
<1>3. OnTheWay' = [OnTheWay EXCEPT ![c] = <<>>]
  <2>1. Feed(c)' = <<>>
    BY <1>1, <1>2 DEF Feed
  <2> QED
    BY <2>1, FeedOfOne
<1>4. Connected' = [Connected EXCEPT ![c] = FALSE]
  <2>1. (phase'[c] \in {"replay", "live"}) = FALSE
    BY <1>1
  <2> QED
    BY <2>1, FeedOfOne
<1> QED
  BY <1>1, <1>3, <1>4 DEF Promised!Forget

(* A request that waits for its answer is not seen.                         *)
LEMMA RequestsStutter ==
    ASSUME IInv, NEW c \in Client, Hydrate(c) \/ RefreshRead(c)
    PROVE  UNCHANGED Promised!vars
BY DEF Hydrate, RefreshRead, subscription, Promised!vars, Connected, OnTheWay, Feed

(* Every step is one of the abstract feed's or none.                        *)
LEMMA FeedStep ==
    ASSUME IInv, Blank, Next
    PROVE  Promised!Next \/ UNCHANGED Promised!vars
<1>1. CASE AppendEvent
  BY <1>1, AppendPublishes DEF Promised!Next
<1>2. CASE \E clients \in SUBSET Client : Disconnected(clients)
  BY <1>2, LostDisconnects DEF Promised!Next
<1>3. CASE Restart \/ \E c \in Client : Disconnect(c)
  BY <1>2, <1>3 DEF Restart, Disconnect
<1>4. ASSUME NEW c \in Client,
             \/ Connect(c) \/ ServerStep(c) \/ Hydrate(c) \/ LoadHistory(c) \/ Receive(c)
             \/ RefreshRead(c) \/ RefreshApply(c) \/ Reload(c)
      PROVE  Promised!Next \/ UNCHANGED Promised!vars
  <2>1. CASE ServerStep(c) \/ Hydrate(c) \/ RefreshRead(c)
    BY <2>1, ServerStutters, RequestsStutter
  <2>2. CASE Receive(c) \/ Reload(c)
    BY <2>2, ReceiveShows, ReloadForgets DEF Promised!Next
  <2>3. CASE Connect(c) \/ LoadHistory(c)
    BY <2>3, ConnectConnects, HistoryLoads DEF Promised!Next
  <2>4. CASE RefreshApply(c)
    BY <2>4, PageRefreshes DEF Promised!Next
  <2> QED
    BY <1>4, <2>1, <2>2, <2>3, <2>4
<1> QED
  BY <1>1, <1>3, <1>4 DEF Next

(* The store, the subscription's generator, the socket and the Inspector    *)
(* make up one ordered queue with gaps that are accounted for: whatever     *)
(* their steps are interleaved with, what is not shown was missed where the *)
(* abstract feed says so, and a reconnection leaves out nothing.            *)
THEOREM StreamImplementsFeed == Spec => ImplementsFeed
<1>1. Init => Promised!Init /\ Blank
  <2> SUFFICES ASSUME Init PROVE Promised!Init /\ Blank
    OBVIOUS
  <2>1. timeline = 0 /\ events = [c \in Client |-> <<>>] /\ skipped = [c \in Client |-> {}]
    BY DEF Init
  <2>2. <<>> \o <<>> \o <<>> = <<>>
    OBVIOUS
  <2>3. \A c \in Client : Feed(c) = <<>> /\ phase[c] = "unloaded"
    BY <2>2 DEF Init, Feed
  <2>4. OnTheWay = [c \in Client |-> <<>>]
    BY <2>3 DEF OnTheWay
  <2>5. Connected = [c \in Client |-> FALSE]
    <3>1. \A c \in Client : (phase[c] \in {"replay", "live"}) = FALSE
      BY <2>3
    <3> QED
      BY <3>1 DEF Connected
  <2> QED
    BY <2>1, <2>3, <2>4, <2>5 DEF Promised!Init, Blank
<1>2. IInv /\ Blank /\ [Next]_vars => [Promised!Next]_(Promised!vars)
  <2>1. ASSUME UNCHANGED vars PROVE UNCHANGED Promised!vars
    BY <2>1 DEF vars, Promised!vars, Connected, OnTheWay, Feed
  <2> QED
    BY <2>1, FeedStep
<1> QED
  BY <1>1, <1>2, BlankNext, Invariant, PTL DEF Spec, ImplementsFeed, Promised!Spec
=============================================================================

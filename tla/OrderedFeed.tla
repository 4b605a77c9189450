---------------------------- MODULE OrderedFeed ----------------------------
(***************************************************************************)
(* What a reader of the timeline is promised: one queue, first in first    *)
(* out, with gaps that are accounted for.  While it is connected, each     *)
(* event that is published comes in at the end of its queue or is missed,  *)
(* and what leaves the queue is shown after all that was shown before, or  *)
(* had been given up.  While it is not connected, nothing is missed: the   *)
(* next connection begins where the accounts end.  A reader shows a number *)
(* of events, the latest, and gives up the others.                         *)
(*                                                                         *)
(* There is no replay, live feed or wire here, no cursor, and no request   *)
(* that waits for its answer.                                              *)
(***************************************************************************)
EXTENDS Naturals, Sequences

CONSTANTS
    Reader,
    Window       \* how many events a reader shows

VARIABLES
    published,   \* the number of events
    open,        \* whether a reader is connected
    feed,        \* the events on their way to it
    shown,       \* what it shows
    missed       \* what it was not sent, or shows no more

vars == <<published, open, feed, shown, missed>>

First(k)      == [i \in 1 .. k |-> i]
After(k, n)   == [i \in 1 .. n |-> k + i]
Held(s)       == {s[i] : i \in DOMAIN s}
ShownTo(c)    == Held(shown[c])
Latest(s)     == IF Len(s) > Window THEN SubSeq(s, Len(s) - Window + 1, Len(s)) ELSE s

\* A reader shows the latest of these; it gives up what it showed besides, and others.
Shows(c, s, others) ==
    /\ shown' = [shown EXCEPT ![c] = Latest(s)]
    /\ missed' = [missed EXCEPT ![c] =
                    @ \cup ((ShownTo(c) \cup Held(s)) \ Held(Latest(s))) \cup others]

Init ==
    /\ published = 0
    /\ open = [c \in Reader |-> FALSE]
    /\ feed = [c \in Reader |-> <<>>]
    /\ shown = [c \in Reader |-> <<>>]
    /\ missed = [c \in Reader |-> {}]

-----------------------------------------------------------------------------
\* Each reader that is connected takes the event or misses it.
Publish ==
    /\ published' = published + 1
    /\ \E takers \in SUBSET {c \in Reader : open[c]} :
         /\ feed' = [c \in Reader |-> IF c \in takers THEN Append(feed[c], published')
                                     ELSE feed[c]]
         /\ missed' = [c \in Reader |-> IF open[c] /\ c \notin takers
                                       THEN missed[c] \cup {published'} ELSE missed[c]]
    /\ UNCHANGED <<open, shown>>

\* All up to the k-th event is accounted for; the next n are sent.
Connect(c, k, n) ==
    /\ ~open[c]
    /\ (1 .. k) \subseteq ShownTo(c) \cup missed[c]
    /\ \A e \in ShownTo(c) : e <= k
    /\ n = 0 => k = published
    /\ open' = [open EXCEPT ![c] = TRUE]
    /\ feed' = [feed EXCEPT ![c] = After(k, n)]
    /\ missed' = [missed EXCEPT ![c] = @ \cup ((k + n + 1) .. published)]
    /\ UNCHANGED <<published, shown>>

\* The head of the queue is shown, unless it is already: last, and after earlier
\* ones only, unless it was missed and comes late.
Show(c) ==
    /\ feed[c] # <<>>
    /\ feed' = [feed EXCEPT ![c] = Tail(@)]
    /\ LET e == Head(feed[c])
       IN  \/ e \in ShownTo(c) /\ UNCHANGED <<shown, missed>>
           \/ /\ e \notin ShownTo(c)
              /\ e \in missed[c] \/ \A d \in ShownTo(c) : d < e
              /\ Shows(c, Append(shown[c], e), {})
    /\ UNCHANGED <<published, open>>

Disconnect(clients) ==
    /\ open' = [c \in Reader |-> open[c] /\ c \notin clients]
    /\ feed' = [c \in Reader |-> IF c \in clients THEN <<>> ELSE feed[c]]
    /\ UNCHANGED <<published, shown, missed>>

-----------------------------------------------------------------------------
\* A reader that shows nothing yet takes up the first k events, and misses those
\* up to the m-th.
Load(c, k, m) ==
    /\ ~open[c] /\ shown[c] = <<>>
    /\ Shows(c, First(k), (k + 1) .. m)
    /\ UNCHANGED <<published, open, feed>>

\* A reader shows the first k events instead of what it showed.
Refresh(c, k) ==
    /\ Shows(c, First(k), {})
    /\ UNCHANGED <<published, open, feed>>

Forget(c) ==
    /\ open' = [open EXCEPT ![c] = FALSE]
    /\ feed' = [feed EXCEPT ![c] = <<>>]
    /\ shown' = [shown EXCEPT ![c] = <<>>]
    /\ missed' = [missed EXCEPT ![c] = {}]
    /\ UNCHANGED published

-----------------------------------------------------------------------------
Next ==
    \/ Publish
    \/ \E clients \in SUBSET Reader : Disconnect(clients)
    \/ \E c \in Reader :
         \/ Show(c) \/ Forget(c)
         \/ \E k, m \in 0 .. published : Connect(c, k, m) \/ Load(c, k, m)
         \/ \E k \in 0 .. published : Refresh(c, k)

Spec == Init /\ [][Next]_vars
=============================================================================

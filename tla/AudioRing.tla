----------------------------- MODULE AudioRing -----------------------------
(***************************************************************************)
(* The audio ring buffer: frames in the order they came, bounded by their  *)
(* total duration.  A frame is its duration; its samples, and the count of  *)
(* frames that were dropped, are left out.                                 *)
(***************************************************************************)
EXTENDS Integers, Sequences

Total(frames) ==
    LET sum[n \in 0 .. Len(frames)] == IF n = 0 THEN 0 ELSE sum[n - 1] + frames[n]
    IN  sum[Len(frames)]

First(frames, n)     == SubSeq(frames, 1, n)
DropFirst(frames, n) == SubSeq(frames, n + 1, Len(frames))
Newest(frames, n)    == SubSeq(frames, Len(frames) - n + 1, Len(frames))

NewRing(capacity) == [capacity |-> capacity, frames |-> <<>>, duration |-> 0]

\* The least number in 0 .. limit for which Stop holds, or the limit.
Least(limit, Stop(_)) ==
    CHOOSE n \in 0 .. limit :
        /\ n = limit \/ Stop(n)
        /\ \A k \in 0 .. (n - 1) : ~Stop(k)

\* Mutant: one frame leaves for one that comes.
PushDropsOne(ring, frame) ==
    LET frames  == Append(ring.frames, frame)
        over(n) == ring.duration + frame - Total(First(frames, n))
        n       == IF over(0) > ring.capacity THEN 1 ELSE 0
    IN  [ring EXCEPT !.frames = DropFirst(frames, n), !.duration = over(n)]

\* append: the oldest frames leave until the counted duration fits, or none is
\* left; a frame longer than the buffer leaves it empty.
Push(ring, frame) ==
    LET frames  == Append(ring.frames, frame)
        over(n) == ring.duration + frame - Total(First(frames, n))
        fits(n) == over(n) <= ring.capacity
        n       == Least(Len(frames), fits)
    IN  [ring EXCEPT !.frames = DropFirst(frames, n), !.duration = over(n)]

\* clear
Cleared(ring) == [ring EXCEPT !.frames = <<>>, !.duration = 0]

\* Mutant: the duration asked for must be exceeded.
SnapshotLong(ring, last) ==
    LET enough(n) == Total(Newest(ring.frames, n)) > last
    IN  IF last >= ring.duration THEN ring.frames
        ELSE Newest(ring.frames, Least(Len(ring.frames), enough))

\* snapshot: the newest frames, as few as reach the duration asked for.
Snapshot(ring, last) ==
    LET enough(n) == Total(Newest(ring.frames, n)) >= last
    IN  IF last >= ring.duration THEN ring.frames
        ELSE Newest(ring.frames, Least(Len(ring.frames), enough))
=============================================================================

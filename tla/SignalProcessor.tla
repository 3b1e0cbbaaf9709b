-------------------------- MODULE SignalProcessor ---------------------------
(***************************************************************************)
(* What one phase-1 processor does with one input                          *)
(* (internal/intelligence/phase1_signal/signal_matrix.go).  Its mutex is   *)
(* held for the whole of process, GetNodeState and GetMatrix, so each is a *)
(* pure function of the processor's record.                                *)
(*                                                                         *)
(* A value is the number of the sample it was taken from, 0 when it was    *)
(* interpolated: smoothing, the running statistics, the outlier clamp and  *)
(* the standardisation change numbers and never which points there are.    *)
(***************************************************************************)
EXTENDS Naturals, Sequences

CONSTANT MaxArrivalWindow   \* inter-arrival gaps kept; 30 in the source

ASSUME ArrivalWindowAssumption == MaxArrivalWindow \in Nat \ {0}

\* The newest k elements of s, in order.
Newest(s, k) == IF Len(s) > k THEN SubSeq(s, Len(s) - k + 1, Len(s)) ELSE s

\* lastPoint (its tick, 0 for nil), lastIngestTime in ticks (0 for none), the
\* retained points and the retained gaps between arrivals.
NewProcessor == [lastTick |-> 0, lastTime |-> 0, window |-> << >>, gaps |-> << >>]

Point(tick, sample) == [tick |-> tick, sample |-> sample]

\* An arrival later than the one before it adds a gap, lost or not.
Tracked(p, in) ==
    [p EXCEPT
        !.gaps = IF p.lastTime > 0 /\ in.tick > p.lastTime
                 THEN Newest(Append(@, in.tick - p.lastTime), MaxArrivalWindow)
                 ELSE @,
        !.lastTime = in.tick]

\* The points an accepted input adds: itself, after an interpolated point for
\* every tick skipped since the last one.
NewPoints(p, in) ==
    IF p.lastTick = 0
    THEN << in >>
    ELSE [i \in 1..(in.tick - p.lastTick) |->
            IF p.lastTick + i = in.tick THEN in ELSE Point(p.lastTick + i, 0)]

\* insert, once for each of the points: the window keeps the newest.
Insert(w, pts, size) == Newest(w \o pts, size)

\* Mutant of Accepts: a late point is accepted.
AcceptsLate(p, in) == in.tick # p.lastTick

\* A point that is not newer than the last one is dropped.
Accepts(p, in) == p.lastTick = 0 \/ in.tick > p.lastTick

Process(p, in, size) ==
    IF Accepts(p, in)
    THEN [Tracked(p, in) EXCEPT !.window = Insert(@, NewPoints(p, in), size),
                                !.lastTick = in.tick]
    ELSE Tracked(p, in)

\* GetNodeState: the arrival rate is the inverse of the mean gap, and 0, with
\* load and queue, when no gap was seen.
ArrivalGaps(p) == p.gaps

\* One column of the pipeline's signal matrix: the window at the end of rows
\* zeros (a processor without points leaves the column zero).
Column(p, rows) ==
    [t \in 1..rows |->
        IF t > rows - Len(p.window)
        THEN p.window[t - (rows - Len(p.window))]
        ELSE Point(0, 0)]
=============================================================================

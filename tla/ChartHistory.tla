---------------------------- MODULE ChartHistory ----------------------------
(***************************************************************************)
(* The dashboard's record of the total traffic: the history "__total__" of   *)
(* ChartState, the counters it is computed from, and what a chart shows of   *)
(* it.  The collector records a point per round; so does every browser       *)
(* session when it opens.  Nothing but the GIL orders their steps.           *)
(*                                                                          *)
(* A point holds the bytes since the last one instead of their quotient by   *)
(* the time that passed.  Histories of single ports are kept the same way.   *)
(***************************************************************************)
EXTENDS Integers, Sequences, SequencesExt, FiniteSetsExt

CONSTANTS
    None,
    Collector,     \* the collector's thread
    Sessions,      \* threads of browser sessions that open the dashboard
    Interval,      \* refresh interval
    MaxHistory,    \* gost_webui_history_points
    WindowSeconds, \* gost_webui_window_seconds
    DisplayMax,    \* points of a chart
    Segments,      \* _DECAY_SEGMENTS: lengths, and weights of their quotas
    Traffic,       \* bytes that may pass per tick
    MetricsFail,   \* GOST's metrics may be unreachable
    GostRestarts,  \* GOST's counters may start anew
    MaxRecord,     \* bound: seconds it takes to record a point
    MaxTime        \* bound on the clock

ASSUME WritersAssumption == Collector \notin Sessions
ASSUME SizesAssumption == /\ Interval \in Nat \ {0} /\ MaxHistory \in Nat \ {0}
                          /\ WindowSeconds \in Nat \ {0} /\ DisplayMax \in Nat \ {0}
                          /\ Traffic \subseteq Nat /\ MaxRecord \in Nat
                          /\ MaxTime \in Nat \ {0}

(* Lists are built without recursion, so that theorems can be proved of them. *)

(* How many members of D come before d in the order R. *)
Rank(D, R, d) == Cardinality({c \in D : <<c, d>> \in R})

(* The members of a finite set in the order R, which is strict and total on it. *)
Listed(D, R) == [k \in 1..Cardinality(D) |-> CHOOSE d \in D : Rank(D, R, d) = k - 1]

Ascend(D) == {c \in D \X D : c[1] < c[2]}

-----------------------------------------------------------------------------
(* The quotas of a chart's segments                                         *)

TotalWeight == FoldLeft(LAMBDA n, s : n + s.weight, 0, Segments)

(* round(a / b): halves go to the even number. *)
Rounded(a, b) ==
    LET q == a \div b
        r == 2 * (a % b)
    IN  IF r > b \/ (r = b /\ q % 2 = 1) THEN q + 1 ELSE q

Share(k) == Max({1, Rounded(DisplayMax * Segments[k].weight, TotalWeight)})

(* What is left of the budget after each segment, if those of P have points. *)
Budget(P) ==
    LET left[k \in 0..Len(Segments)] ==
            IF k = 0 THEN DisplayMax
            ELSE IF k \in P THEN left[k - 1] - Share(k) ELSE left[k - 1]
    IN  left

ASSUME SegmentsAssumption == /\ Segments \in Seq([len : Nat, weight : Nat]) /\ Segments # <<>>
                             /\ TotalWeight \in Nat \ {0}

(* The last segment gets a point, whichever others have some.  With the code's  *)
(* segments that is so for the 1000 points of a chart, and for 5 and from 8 on. *)
ASSUME BudgetAssumption == Budget(1..Len(Segments))[Len(Segments) - 1] > 0

-----------------------------------------------------------------------------
VARIABLES
    now,      \* time.time()
    counter,  \* GOST's counter of bytes
    cached,   \* _cached_stats
    prev,     \* prev_total_input and prev_total_time; time 0: nothing recorded
    hist,     \* history["__total__"]
    w,        \* per writer: where it is, and its locals
    log,      \* ghost: every point that was appended
    recorded, \* ghost: the bytes of all points that were appended
    passed,   \* ghost: the bytes that passed so far
    misread,  \* ghost: the metrics could not be read, once at least
    overlapped \* ghost: two writers recorded at the same time, once at least

vars == <<now, counter, cached, prev, hist, w, log, recorded, passed, misread, overlapped>>

Writers == {Collector} \cup Sessions

Point == [at : Nat, bytes : Nat]

Locals ==
    [pc : {"rest", "stamp", "diff", "keep", "append", "cap", "capped", "trim", "trimmed", "over"},
     due : Nat, at : 0..now, total : 0..passed, bytes : Nat, kept : Seq(Point)]

TypeOK ==
    /\ now \in 1..MaxTime
    /\ counter \in 0..passed /\ passed \in Nat
    /\ cached \in {None} \cup 0..passed
    /\ prev \in [at : 0..now, bytes : 0..passed]
    /\ hist \in Seq(Point)
    /\ log \in Seq(Point)
    /\ recorded \in Nat
    /\ misread \in BOOLEAN /\ overlapped \in BOOLEAN
    /\ w \in [Writers -> Locals]

Rested(t) == [pc |-> "rest", due |-> t, at |-> 0, total |-> 0, bytes |-> 0, kept |-> <<>>]

Init ==
    /\ now = 1
    /\ counter = 0
    /\ cached = None
    /\ prev = [at |-> 0, bytes |-> 0]
    /\ hist = <<>>
    /\ w = [x \in Writers |-> Rested(1)]
    /\ log = <<>> /\ recorded = 0
    /\ passed = 0
    /\ misread = FALSE /\ overlapped = FALSE

Busy(x) == w[x].pc \notin {"rest", "over"}

-----------------------------------------------------------------------------
(* What is recorded                                                         *)

(* Ghost: a writer begins while another has not ended. *)
Begin == overlapped' = (overlapped \/ \E y \in Writers : Busy(y))

(* get_summary_stats: without metrics every total is 0. *)
Totals(b) ==
    \/ b = counter /\ misread' = misread
    \/ MetricsFail /\ b = 0 /\ misread' = TRUE

(* The collector reads GOST's totals and leaves them for the sessions. *)
Collect ==
    /\ w[Collector].pc = "rest" /\ now >= w[Collector].due
    /\ Begin
    /\ \E b \in {0, counter} :
          /\ Totals(b)
          /\ w' = [w EXCEPT ![Collector].pc = "stamp", ![Collector].total = b]
          /\ cached' = b
    /\ UNCHANGED <<now, counter, prev, hist, log, recorded, passed>>

(* A session takes what the collector left, or, if that has no mappings,      *)
(* reads for itself and leaves it for others.                                *)
OpenSession(x) ==
    /\ w[x].pc = "rest"
    /\ Begin
    /\ \E b \in {0, counter, cached} \ {None} :
          /\ Totals(b) \/ (b = cached /\ misread' = misread)
          /\ cached' = b
          /\ w' = [w EXCEPT ![x].pc = "stamp", ![x].total = b]
    /\ UNCHANGED <<now, counter, prev, hist, log, recorded, passed>>

Stamp(x) ==
    /\ w[x].pc = "stamp"
    /\ w' = [w EXCEPT ![x].pc = "diff", ![x].at = now]
    /\ UNCHANGED <<now, counter, cached, prev, hist, log, recorded, passed, misread, overlapped>>

(* Mutant of Since: a counter that went back counts below zero. *)
SinceSigned(x) ==
    IF prev.at > 0 /\ w[x].at > prev.at THEN w[x].total - prev.bytes ELSE 0

(* A counter that went back counts as no traffic, and so does no time. *)
Since(x) ==
    IF prev.at > 0 /\ w[x].at > prev.at THEN Max({0, w[x].total - prev.bytes}) ELSE 0

Diff(x) ==
    /\ w[x].pc = "diff"
    /\ w' = [w EXCEPT ![x].pc = "keep", ![x].bytes = Since(x)]
    /\ UNCHANGED <<now, counter, cached, prev, hist, log, recorded, passed, misread, overlapped>>

(* Mutant of Keep: the totals are remembered the first time only. *)
KeepFirst(x) ==
    /\ w[x].pc = "keep"
    /\ prev' = IF prev.at = 0 THEN [at |-> w[x].at, bytes |-> w[x].total] ELSE prev
    /\ w' = [w EXCEPT ![x].pc = "append"]
    /\ UNCHANGED <<now, counter, cached, hist, log, recorded, passed, misread, overlapped>>

Keep(x) ==
    /\ w[x].pc = "keep"
    /\ prev' = [at |-> w[x].at, bytes |-> w[x].total]
    /\ w' = [w EXCEPT ![x].pc = "append"]
    /\ UNCHANGED <<now, counter, cached, hist, log, recorded, passed, misread, overlapped>>

-----------------------------------------------------------------------------
(* _append                                                                  *)

AppendPoint(x) ==
    /\ w[x].pc = "append"
    /\ LET p == [at |-> w[x].at, bytes |-> w[x].bytes]
       IN  hist' = Append(hist, p) /\ log' = Append(log, p)
    /\ recorded' = recorded + w[x].bytes
    /\ w' = [w EXCEPT ![x].pc = "cap"]
    /\ UNCHANGED <<now, counter, cached, prev, passed, misread, overlapped>>

LastPoints(s, n) == SubSeq(s, Max({1, Len(s) - n + 1}), Len(s))

(* Mutant of Newest: the oldest points are kept. *)
OldestPoints(s) == SubSeq(s, 1, MaxHistory)

Newest(s) == LastPoints(s, MaxHistory)

(* Mutant of From: a point as old as the window is dropped. *)
FromLater(s, t) == {i \in 1..Len(s) : s[i].at > t}

(* [p for p in points if p.timestamp >= t] *)
From(s, t) == {i \in 1..Len(s) : s[i].at >= t}

PointsFrom(s, t) ==
    LET l == Listed(From(s, t), Ascend(From(s, t)))
    IN  [k \in 1..Cardinality(From(s, t)) |-> s[l[k]]]

(* _trim_window *)
Trimmed(s, t) ==
    LET kept == PointsFrom(s, t - WindowSeconds)
    IN  IF kept # <<>> THEN kept ELSE LastPoints(s, 1)

(* A copy is made of what is to stay, and then put in the list's place. *)
Cap(x) ==
    /\ w[x].pc = "cap"
    /\ w' = IF Len(hist) > MaxHistory
            THEN [w EXCEPT ![x].pc = "capped", ![x].kept = Newest(hist)]
            ELSE [w EXCEPT ![x].pc = "trim"]
    /\ UNCHANGED <<now, counter, cached, prev, hist, log, recorded, passed, misread, overlapped>>

Trim(x) ==
    /\ w[x].pc = "trim"
    /\ w' = [w EXCEPT ![x].pc = "trimmed", ![x].kept = Trimmed(hist, w[x].at)]
    /\ UNCHANGED <<now, counter, cached, prev, hist, log, recorded, passed, misread, overlapped>>

(* The collector waits for its next round; a session is open. *)
Assign(x) ==
    /\ w[x].pc \in {"capped", "trimmed"}
    /\ hist' = w[x].kept
    /\ w' = IF w[x].pc = "capped" THEN [w EXCEPT ![x].pc = "trim", ![x].kept = <<>>]
            ELSE [w EXCEPT ![x] = IF x = Collector THEN Rested(now + Interval)
                                  ELSE [Rested(now) EXCEPT !.pc = "over"]]
    /\ UNCHANGED <<now, counter, cached, prev, log, recorded, passed, misread, overlapped>>

-----------------------------------------------------------------------------
(* What a chart shows                                                       *)

(* The points of a segment are those not older than its length. *)
SegmentPoints(s, t, k) == PointsFrom(s, t - Segments[k].len)

WithPoints(s, t) == {k \in 1..Len(Segments) : SegmentPoints(s, t, k) # <<>>}

(* Mutant of Rest: the budget is not used up. *)
WholeBudget(s, t) == DisplayMax

(* The last segment takes what the segments with points have left. *)
Rest(s, t) == Budget(WithPoints(s, t))[Len(Segments) - 1]

Quota(s, t, k) == IF k = Len(Segments) THEN Rest(s, t) ELSE Share(k)

(* Evenly spread, from the first one on. *)
Spread(s, q) == IF Len(s) <= q THEN s
                ELSE [i \in 1..q |-> s[((i - 1) * Len(s)) \div q + 1]]

Parts(s, t) == [k \in 1..Len(Segments) |-> Spread(SegmentPoints(s, t, k), Quota(s, t, k))]

(* The points of all parts: the part's number and the point's number in it. *)
Places(parts) == UNION {{k} \X (1..Len(parts[k])) : k \in DOMAIN parts}

Extended(a, b) == a[1] < b[1] \/ (a[1] = b[1] /\ a[2] < b[2])

(* Mutant of ByTime: part after part. *)
ByPart(parts) == {c \in Places(parts) \X Places(parts) : Extended(c[1], c[2])}

(* sorted is stable: equal times stay in the order of the parts. *)
ByTime(parts) ==
    {c \in Places(parts) \X Places(parts) :
        LET p == parts[c[1][1]][c[1][2]]
            q == parts[c[2][1]][c[2][2]]
        IN  p.at < q.at \/ (p.at = q.at /\ Extended(c[1], c[2]))}

InOrder(parts) ==
    LET l == Listed(Places(parts), ByTime(parts))
    IN  [k \in 1..Cardinality(Places(parts)) |-> parts[l[k][1]][l[k][2]]]

(* _decay_downsample *)
Decayed(s, t) == IF Len(s) <= DisplayMax THEN s ELSE InOrder(Parts(s, t))

(* _render_charts, _build_echarts_html *)
Shown ==
    IF hist = <<>> THEN <<>>
    ELSE LET r == Trimmed(hist, now)
             s == Trimmed(r, Last(r).at)
         IN  Decayed(s, Last(s).at)

-----------------------------------------------------------------------------
Tick ==
    /\ now < MaxTime
    /\ \A x \in Writers :
          w[x].pc \notin {"rest", "stamp", "over"} => now - w[x].at < MaxRecord
    /\ now' = now + 1
    /\ \E b \in Traffic : counter' = counter + b /\ passed' = passed + b
    /\ UNCHANGED <<cached, prev, hist, w, log, recorded, misread, overlapped>>

GostRestart ==
    /\ GostRestarts /\ counter > 0
    /\ counter' = 0
    /\ UNCHANGED <<now, cached, prev, hist, w, log, recorded, passed, misread, overlapped>>

Write(x) == Stamp(x) \/ Diff(x) \/ Keep(x) \/ AppendPoint(x) \/ Cap(x) \/ Trim(x) \/ Assign(x)

Next ==
    \/ Collect
    \/ \E x \in Sessions : OpenSession(x)
    \/ \E x \in Writers : Write(x)
    \/ Tick
    \/ GostRestart

Spec == Init /\ [][Next]_vars

-----------------------------------------------------------------------------
(* The inductive invariant, as long as no two writers recorded at the same time *)

Ascending(s) == \A i, j \in 1..Len(s) : i < j => s[i].at <= s[j].at

(* The list s is the end of the log l, but for points that are beyond            *)
(* MaxHistory or too old for the window of the last one.                      *)
Covers(s, l) ==
    /\ Len(s) <= Len(l)
    /\ \A i \in 1..Len(s) : s[i] = l[Len(l) - Len(s) + i]
    /\ \A j \in 1..(Len(l) - Len(s)) :
          j <= Len(l) - MaxHistory \/ l[j].at < l[Len(l)].at - WindowSeconds

(* Nor does it hold any of those. *)
Exact(s, l) ==
    /\ Covers(s, l)
    /\ Len(s) <= MaxHistory
    /\ \A i \in 1..Len(s) : s[i].at >= l[Len(l)].at - WindowSeconds

Serial == \A x, y \in Writers : Busy(x) /\ Busy(y) => x = y

(* The log is in order of time and ends before the point about to be recorded;  *)
(* the history is exact but while it is cut, when the copy made is.            *)
LogInv == Ascending(log) /\ \A i \in 1..Len(log) : log[i].at <= now

WriterInv(x) ==
    /\ w[x].pc \in {"stamp", "diff", "keep", "append"} => Exact(hist, log)
    /\ w[x].pc \in {"diff", "keep", "append"} => \A i \in 1..Len(log) : log[i].at <= w[x].at
    /\ w[x].pc \in {"cap", "capped", "trim", "trimmed"} =>
          Covers(hist, log) /\ Len(log) > 0 /\ log[Len(log)].at = w[x].at
    /\ w[x].pc = "capped" => Covers(w[x].kept, log) /\ Len(w[x].kept) <= MaxHistory
    /\ w[x].pc \in {"trim", "trimmed"} => Len(hist) <= MaxHistory
    /\ w[x].pc = "trimmed" => Exact(w[x].kept, log)

Quiet == \A x \in Writers : ~Busy(x)

HistoryInv == ~overlapped =>
    /\ Serial
    /\ LogInv
    /\ Quiet => Exact(hist, log)
    /\ \A x \in Writers : WriterInv(x)

Pos(n) == IF n > 0 THEN n ELSE 0

(* What was recorded, what is about to be, and what GOST has counted since the   *)
(* totals last read are no more than what passed; the cached totals are those. *)
Account(x) ==
    /\ w[x].pc \in {"stamp", "diff"} =>
          recorded + Pos(w[x].total - prev.bytes) + Pos(counter - w[x].total) <= passed
    /\ w[x].pc = "keep" => recorded + w[x].bytes + Pos(counter - w[x].total) <= passed
    /\ w[x].pc = "append" => recorded + w[x].bytes + Pos(counter - prev.bytes) <= passed
    /\ w[x].pc \in {"cap", "capped", "trim", "trimmed"} =>
          recorded + Pos(counter - prev.bytes) <= passed
    /\ w[x].pc \in {"stamp", "diff", "keep"} => cached = w[x].total
    /\ w[x].pc \in {"append", "cap", "capped", "trim", "trimmed"} => cached = prev.bytes

Balance == recorded + Pos(counter - prev.bytes) <= passed /\ cached \in {None, prev.bytes}

AccountInv == ~overlapped /\ ~misread =>
    /\ Serial
    /\ Quiet => Balance
    /\ \A x \in Writers : Account(x)

(* What the steps of _record_data_points keep of the history and the counters,  *)
(* also while a writer is between two of them.                               *)
IInv == HistoryInv /\ AccountInv

-----------------------------------------------------------------------------
(* Properties                                                               *)

(* The points account for no more bytes than passed, though GOST's counters   *)
(* may start anew (the differences of _record_data_points), as long as no two *)
(* writers recorded at the same time.  Metrics that cannot be read break      *)
(* this: they count as a total of 0.                                         *)
Conserved == ~overlapped /\ ~misread => recorded <= passed

(* When nobody is recording, the history is what was recorded within the      *)
(* window, up to MaxHistory of it: no point is lost or kept too long, by the  *)
(* collector or by sessions, as long as no two recorded at the same time.    *)
HistoryKept ==
    ~overlapped /\ log # <<>> /\ (\A x \in Writers : ~Busy(x)) =>
        hist = PointsFrom(LastPoints(log, MaxHistory), Last(log).at - WindowSeconds)

(* A chart has no more points than it should: the quotas of                   *)
(* _decay_downsample add up, whichever segments have points.                  *)
ShownBounded == Len(Shown) <= DisplayMax

(* As long as no two writers recorded at the same time, the time axis of a    *)
(* chart does not go back, trimmed, sampled or neither.                       *)
ShownAscending == ~overlapped => \A i \in 1..(Len(Shown) - 1) : Shown[i].at <= Shown[i + 1].at

(* What the chart's title and config.md say, that it shows the window: the    *)
(* first point shown is no further from the first one in the history than     *)
(* the longest segment.  (Violated.)                                         *)
WindowShown ==
    hist # <<>> => Shown[1].at - Trimmed(hist, now)[1].at <= Last(Segments).len
=============================================================================

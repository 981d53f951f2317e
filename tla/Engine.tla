--------------------------------- MODULE Engine ---------------------------------
(***************************************************************************)
(* The scheduling engine: from the candidate's windows and the panelists'  *)
(* busy times to the ranked slots on offer.  A pure function in the code   *)
(* (scheduling/engine.py, scoring.py), here one step from an input to its  *)
(* result.  An instant is a number of units of time since the submission,  *)
(* an interval [start, end) is half open.                                  *)
(***************************************************************************)
EXTENDS Integers, SequencesExt

CONSTANTS
  Day,                  \* length of a day, in units
  DayStart, DayEnd,     \* working hours, local time
  CoreStart, CoreEnd,   \* the comfortable part of them
  Horizon,              \* how far ahead a window may end
  ProximityHorizon,     \* when a slot is no longer near
  Step,                 \* distance of candidate slots
  TopN,                 \* slots on offer
  Weights,              \* of the five factors, in hundredths
  Scale                 \* what a factor of 1.0 is: every quotient below divides it

CONSTANTS             \* what requests are made of
  WindowLists,          \* availability as submitted, at the time 0
  Times,                \* when the recommendations are generated
  CandidateZones,
  Panels,               \* lists of panelists, each with a zone and busy intervals
  Lengths               \* pairs of a duration and a buffer

Factors == {"fairness", "comfort", "proximity", "workload", "buffer"}

Intervals == [start : Int, end : Int]

\* A zone's offset changes at most once in the time looked at.
Clocks == [at : Int, before : Int, after : Int]

Panelists == [zone : Clocks, busy : Seq(Intervals)]

ASSUME HoursAssumption ==
  /\ {Day, DayStart, DayEnd, CoreStart, CoreEnd, Horizon} \subseteq Nat
  /\ {ProximityHorizon, Step, TopN, Scale} \subseteq Nat \ {0}
  /\ DayStart < CoreStart /\ CoreStart <= CoreEnd /\ CoreEnd < DayEnd /\ DayEnd <= Day
  /\ Weights \in [Factors -> Nat]
  /\ Weights["fairness"] + Weights["comfort"] + Weights["proximity"] + Weights["workload"]
       + Weights["buffer"] = 100
  /\ Scale % (DayEnd - DayStart) = 0 /\ Scale % ProximityHorizon = 0
  /\ Scale % (2 * (CoreStart - DayStart)) = 0 /\ Scale % (2 * (DayEnd - CoreEnd)) = 0

\* What the API lets in (WindowIn, CreateInterviewRequest), and busy times that end after
\* they start.
ASSUME RequestsAssumption ==
  /\ \A ws \in WindowLists : ws \in Seq(Intervals) /\ ws # <<>> /\ \A i \in DOMAIN ws :
       0 < ws[i].start /\ ws[i].start < ws[i].end /\ ws[i].end <= Horizon
  /\ Times \subseteq Nat
  /\ CandidateZones \subseteq Clocks
  /\ \A panel \in Panels : panel \in Seq(Panelists) /\ panel # <<>> /\ \A i \in DOMAIN panel :
       \A j \in DOMAIN panel[i].busy : panel[i].busy[j].start < panel[i].busy[j].end
  /\ Lengths \subseteq (Nat \ {0}) \X Nat
  /\ \A l \in Lengths : l[2] > 0 => Scale % l[2] = 0

VARIABLES
  asked,    \* the request in hand
  outcome,  \* "none", "expired", "rejected", "empty" or "slots"
  slots     \* the slots on offer, best first

vars == <<asked, outcome, slots>>

-----------------------------------------------------------------------------
(* Intervals *)

Interval(lo, hi) == [start |-> lo, end |-> hi]
Greater(x, y) == IF x < y THEN y ELSE x
Lesser(x, y)  == IF x < y THEN x ELSE y

\* Sorted by start, equals in the order they came in: sorted is stable.
Place(ivs, i) ==
  LET before == {j \in DOMAIN ivs : ivs[j].start < ivs[i].start \/ (ivs[j].start = ivs[i].start /\ j < i)}
  IN  1 + Cardinality(before)

ByStart(ivs) == [n \in DOMAIN ivs |-> ivs[CHOOSE i \in DOMAIN ivs : Place(ivs, i) = n]]

\* Mutant: an interval inside the one before it cuts that one short.
AbsorbShrinks(merged, cur) ==
  IF merged # <<>> /\ cur.start <= Last(merged).end
  THEN [merged EXCEPT ![Len(merged)] = Interval(@.start, cur.end)] ELSE Append(merged, cur)

\* Mutant: intervals that touch stay apart.
AbsorbApart(merged, cur) ==
  IF merged # <<>> /\ cur.start < Last(merged).end
  THEN [merged EXCEPT ![Len(merged)] = Interval(@.start, Greater(@.end, cur.end))]
  ELSE Append(merged, cur)

\* The next interval, coalesced with the one before where they overlap or touch.
Absorb(merged, cur) ==
  IF merged # <<>> /\ cur.start <= Last(merged).end
  THEN [merged EXCEPT ![Len(merged)] = Interval(@.start, Greater(@.end, cur.end))]
  ELSE Append(merged, cur)

Merge(ivs) == FoldLeft(Absorb, <<>>, ByStart(ivs))

\* The interval if it is one: it ends after it starts.
Proper(lo, hi) == IF lo < hi THEN <<Interval(lo, hi)>> ELSE <<>>

\* What a cut leaves of an interval: nothing, one piece or two.
Pieces(iv, cut) ==
  IF cut.end <= iv.start \/ cut.start >= iv.end
  THEN <<iv>>
  ELSE Proper(iv.start, cut.start) \o Proper(cut.end, iv.end)

CutAll(left, cut) == FlattenSeq([i \in DOMAIN left |-> Pieces(left[i], cut)])

Subtract(base, cuts) == FoldLeft(CutAll, base, Merge(cuts))

\* One round of the two pointers: what the two intervals have in common, and the one that
\* ends first is left behind.
Sweep(p, q, s) ==
  IF s.i > Len(p) \/ s.j > Len(q) THEN s
  ELSE LET common == Proper(Greater(p[s.i].start, q[s.j].start), Lesser(p[s.i].end, q[s.j].end))
           first  == p[s.i].end < q[s.j].end
       IN  [ i   |-> IF first THEN s.i + 1 ELSE s.i,
             j   |-> IF first THEN s.j ELSE s.j + 1,
             out |-> s.out \o common ]

\* Each round moves one of the two, so Len(p) + Len(q) rounds are enough.
Intersect(a, b) ==
  LET p == Merge(a)
      q == Merge(b)
  IN  FoldLeft(LAMBDA s, round : Sweep(p, q, s), [i |-> 1, j |-> 1, out |-> <<>>],
               [n \in 1..Len(p) + Len(q) |-> n]).out

Clip(ivs, lo, hi) ==
  FlattenSeq([i \in DOMAIN ivs |-> Proper(Greater(ivs[i].start, lo), Lesser(ivs[i].end, hi))])

-----------------------------------------------------------------------------
(* Time zones *)

Local(z, t) == t + (IF t < z.at THEN z.before ELSE z.after)

\* The instant of a local time.  Of a time that occurs twice the first is meant; one
\* that is skipped is read with the offset before the change.
Utc(z, local) ==
  IF local - z.before < z.at \/ local - z.after < z.at THEN local - z.before ELSE local - z.after

\* The working hours of every local day that the span touches.
WorkingIntervals(z, span) ==
  LET first == Local(z, span.start) \div Day
      last  == Local(z, span.end) \div Day
  IN  Merge([n \in 1..last - first + 1 |->
               LET d == (first + n - 1) * Day
               IN  Interval(Utc(z, d + DayStart), Utc(z, d + DayEnd))])

-----------------------------------------------------------------------------
(* Free time *)

\* Mutant: a window in progress keeps its start.
PreparedUnclipped(r) ==
  FlattenSeq([i \in DOMAIN r.stored |->
                IF r.stored[i].end > r.now THEN <<r.stored[i]>> ELSE <<>>])

\* A window that has passed is dropped, one in progress starts now.
Prepared(r) ==
  FlattenSeq([i \in DOMAIN r.stored |->
                IF r.stored[i].end > r.now
                THEN <<Interval(Greater(r.stored[i].start, r.now), r.stored[i].end)>> ELSE <<>>])

Valid(r, windows) ==
  /\ r.duration > 0 /\ r.buffer >= 0
  /\ r.panel # <<>>
  /\ \A i \in DOMAIN r.panel : \A j \in DOMAIN r.panel[i].busy :
       r.panel[i].busy[j].start < r.panel[i].busy[j].end
  /\ windows # <<>>
  /\ \A i \in DOMAIN windows :
       /\ windows[i].start < windows[i].end
       /\ windows[i].start >= r.now
       /\ windows[i].end <= r.now + Horizon

Span(windows) ==
  LET starts == {windows[i].start : i \in DOMAIN windows}
      ends   == {windows[i].end : i \in DOMAIN windows}
  IN  Interval(CHOOSE s \in starts : \A x \in starts : s <= x,
               CHOOSE e \in ends : \A x \in ends : x <= e)

CandidateFree(r, windows, span) ==
  Clip(Intersect(WorkingIntervals(r.candidate, span), Merge(windows)), span.start, span.end)

PanelistFree(p, span) == Clip(Subtract(WorkingIntervals(p.zone, span), p.busy), span.start, span.end)

CommonFree(r, windows) ==
  LET span == Span(windows)
  IN  FoldLeft(LAMBDA common, p : Intersect(common, PanelistFree(p, span)),
               CandidateFree(r, windows, span), r.panel)

-----------------------------------------------------------------------------
(* Scores: a factor is a number of Scale-ths.  Times are doubled, because the *)
(* middle of a slot may lie between two units.                                *)

Clamp(x) == IF x < 0 THEN 0 ELSE IF x > Scale THEN Scale ELSE x
Distance(x, y) == IF x < y THEN y - x ELSE x - y

Zones(r) == {r.candidate} \cup {r.panel[i].zone : i \in DOMAIN r.panel}

\* Twice the local time of day in the middle of a slot.
LocalMid(z, start, r) ==
  LET mid == 2 * start + r.duration
  IN  (mid + (IF mid < 2 * z.at THEN 2 * z.before ELSE 2 * z.after)) % (2 * Day)

\* The worst-off participant decides.
Worst(r, F(_)) ==
  LET all == {F(z) : z \in Zones(r)} IN CHOOSE x \in all : \A y \in all : x <= y

TimezoneFairness(start, r) ==
  LET one(z) == Clamp(Scale - (Scale * Distance(LocalMid(z, start, r), DayStart + DayEnd))
                                \div (DayEnd - DayStart))
  IN  Worst(r, one)

WorkingHoursComfort(start, r) ==
  LET one(z) ==
        LET mid == LocalMid(z, start, r)
        IN  IF 2 * CoreStart <= mid /\ mid <= 2 * CoreEnd THEN Scale
            ELSE IF 2 * DayStart <= mid /\ mid < 2 * CoreStart
            THEN Clamp((Scale * (mid - 2 * DayStart)) \div (2 * (CoreStart - DayStart)))
            ELSE IF 2 * CoreEnd < mid /\ mid <= 2 * DayEnd
            THEN Clamp((Scale * (2 * DayEnd - mid)) \div (2 * (DayEnd - CoreEnd)))
            ELSE 0
  IN  Worst(r, one)

SchedulingProximity(start, r) ==
  Clamp(Scale - (Scale * (start - r.now)) \div ProximityHorizon)

\* The service hands in no existing bookings.
WorkloadBalance == Scale

\* Mutant: no upper bound.
BufferQualityUnbounded(start, iv, r) ==
  LET gap == Lesser(start - iv.start, iv.end - (start + r.duration))
  IN  IF r.buffer = 0 THEN Scale ELSE (Scale * (gap - r.buffer)) \div r.buffer

BufferQuality(start, iv, r) ==
  LET gap == Lesser(start - iv.start, iv.end - (start + r.duration))
  IN  IF r.buffer = 0 THEN Scale ELSE Clamp((Scale * (gap - r.buffer)) \div r.buffer)

Total(start, iv, r) ==
  Weights["fairness"] * TimezoneFairness(start, r)
  + Weights["comfort"] * WorkingHoursComfort(start, r)
  + Weights["proximity"] * SchedulingProximity(start, r)
  + Weights["workload"] * WorkloadBalance
  + Weights["buffer"] * BufferQuality(start, iv, r)

-----------------------------------------------------------------------------
(* Slots *)

\* The candidate slots: every Step from the first start in each free interval.
Raw(r, windows) ==
  LET common == CommonFree(r, windows)
      Starts(iv) == {t \in iv.start + r.buffer .. iv.end - r.duration - r.buffer :
                       (t - iv.start - r.buffer) % Step = 0}
  IN  UNION {{[start |-> t, end |-> t + r.duration, total |-> Total(t, common[i], r)] :
                t \in Starts(common[i])} : i \in DOMAIN common}

\* Mutant: the later of two equals comes first.
LaterIsBetter(a, b) == a.total > b.total \/ (a.total = b.total /\ a.start > b.start)

\* Mutant: every slot is on offer.
RecommendedAll(r, windows) ==
  LET raw == Raw(r, windows)
  IN  [n \in 1 .. Cardinality(raw) |-> CHOOSE s \in raw :
         n = 1 + Cardinality({x \in raw :
                   x.total > s.total \/ (x.total = s.total /\ x.start < s.start)})]

Better(a, b) == a.total > b.total \/ (a.total = b.total /\ a.start < b.start)

Recommended(r, windows) ==
  LET raw     == Raw(r, windows)
      Rank(s) == 1 + Cardinality({x \in raw : Better(x, s)})
  IN  [n \in 1 .. Lesser(TopN, Cardinality(raw)) |-> CHOOSE s \in raw : Rank(s) = n]

-----------------------------------------------------------------------------
Init ==
  /\ \E now \in Times, stored \in WindowLists, zone \in CandidateZones, panel \in Panels,
        length \in Lengths :
       asked = [now |-> now, stored |-> stored, candidate |-> zone, panel |-> panel,
                duration |-> length[1], buffer |-> length[2]]
  /\ outcome = "none"
  /\ slots = <<>>

\* The service prepares the windows, the engine validates and recommends; no slot, or no
\* window left, fails the request.
Generate ==
  LET windows == Prepared(asked)
  IN  /\ outcome = "none"
      /\ slots' = IF windows # <<>> /\ Valid(asked, windows)
                  THEN Recommended(asked, windows) ELSE <<>>
      /\ outcome' = IF windows = <<>> THEN "expired"
                    ELSE IF ~Valid(asked, windows) THEN "rejected"
                    ELSE IF slots' = <<>> THEN "empty" ELSE "slots"
      /\ UNCHANGED asked

Next == Generate

Spec == Init /\ [][Next]_vars

-----------------------------------------------------------------------------
(* Properties: against what being free means, instant by instant *)

AtWork(z, t) == DayStart <= Local(z, t) % Day /\ Local(z, t) % Day < DayEnd
In(ivs, t)   == \E i \in DOMAIN ivs : ivs[i].start <= t /\ t < ivs[i].end

EverybodyFree(t) ==
  /\ t >= asked.now /\ In(asked.stored, t) /\ AtWork(asked.candidate, t)
  /\ \A i \in DOMAIN asked.panel :
       AtWork(asked.panel[i].zone, t) /\ ~In(asked.panel[i].busy, t)

\* No change of a clock skips or repeats the time at which a working day begins or ends.
PlainHours(z) ==
  LET x == z.at + z.before
      y == z.at + z.after
  IN  \A l \in Lesser(x, y) + 1 .. Greater(x, y) - 1 : l % Day \notin {DayStart, DayEnd % Day}

PlainZones ==
  /\ \A z \in CandidateZones : PlainHours(z)
  /\ \A panel \in Panels : \A i \in DOMAIN panel : PlainHours(panel[i].zone)

\* A slot with its buffers, and whether a free stretch begins or ends at an instant.
Room(t)   == t - asked.buffer .. t + asked.duration + asked.buffer - 1
Opens(t)  == EverybodyFree(t) /\ ~EverybodyFree(t - 1)
Closes(t) == EverybodyFree(t - 1) /\ ~EverybodyFree(t)

TypeOK ==
  /\ outcome \in {"none", "expired", "rejected", "empty", "slots"}
  /\ Len(slots) <= TopN /\ (slots = <<>> <=> outcome # "slots")

\* Everybody is at work and free for the whole of a slot on offer and for the buffer
\* before and after it (_free_intervals; the buffers of generate_recommendations).
FitsEverybody ==
  \A n \in DOMAIN slots :
    /\ slots[n].end = slots[n].start + asked.duration
    /\ \A t \in Room(slots[n].start) : EverybodyFree(t)

\* A request fails for want of a common time only if there is none: wherever everybody
\* is free for long enough, in whichever windows and across whichever of them, a slot
\* is found (_merge, _intersect, and the service's clipping of stale windows).
FailsOnlyWithoutRoom ==
  outcome \in {"empty", "expired"} =>
    \A t \in asked.now .. Horizon : \E u \in Room(t) : ~EverybodyFree(u)

\* What is on offer is best first, earliest first among equals, and no slot of the grid
\* in a free stretch is better than what is on offer (steps 6 to 10).
OffersTheBest ==
  LET before(a, b) == a.total > b.total \/ (a.total = b.total /\ a.start < b.start) IN
  outcome \in {"empty", "slots"} =>
    /\ \A m, n \in DOMAIN slots : m < n => before(slots[m], slots[n])
    /\ \A lo \in {t \in 0 .. Horizon : Opens(t)} :
         LET hi == CHOOSE t \in lo .. Horizon + 1 :
                     Closes(t) /\ \A u \in lo .. t - 1 : EverybodyFree(u)
             grid == {t \in lo + asked.buffer .. hi - asked.duration - asked.buffer :
                        (t - lo - asked.buffer) % Step = 0}
         IN  \A t \in grid :
               LET slot == [start |-> t, end |-> t + asked.duration,
                            total |-> Total(t, Interval(lo, hi), asked)]
               IN  \/ \E n \in DOMAIN slots : slots[n] = slot
                   \/ Len(slots) = TopN /\ before(slots[TopN], slot)

\* Windows accepted when they were submitted are never refused when the recommendations
\* are generated, however late that is (availability/schemas.py against _validate).
NeverRejected == outcome # "rejected"

\* A total is between 0.0 and 1.0 (types.py: the weights sum to 1; every _clamp).
TotalInRange ==
  \A n \in DOMAIN slots : 0 <= slots[n].total /\ slots[n].total <= 100 * Scale

===============================================================================

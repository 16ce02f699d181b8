-------------------------- MODULE InterleaveControl --------------------------
(***************************************************************************)
(* What tools/cipp.cpp and tools/cipp_total_bw.cpp share: the sampling     *)
(* loop of main, the percentile, the arithmetic of a step, the two weight  *)
(* writes, and the ways the process is started and stopped.  The two       *)
(* programs differ in how a step is judged and how the ratio moves; those  *)
(* parts are in Cipp and CippTotalBw.                                      *)
(*                                                                         *)
(* Bandwidths are in MB/s; ratio is the percentage of new pages that goes  *)
(* to node 0, the local memory.                                            *)
(***************************************************************************)
EXTENDS Integers, Sequences, FiniteSets

CONSTANTS
    Bandwidths,     \* the values get_bw may return
    Cutoff,         \* bw_saturation_cutoff, argv[3]
    MaxListSize     \* adjust_interval_ms / sample_interval_ms

\* Below 400000 MB/s the 64-bit quotient wraps at most once when it is
\* stored in an int; the largest cutoff the scripts pass is 250000.
ASSUME ControlAssumption ==
    /\ Bandwidths \subseteq Nat
    /\ \A bw \in Bandwidths : bw <= 400000
    /\ Cutoff \in Nat \ {0}
    /\ MaxListSize \in Nat \ {0}

VARIABLES
    pc,             \* "loop": in main's loop; "write1": between the two writes
    bw_history,     \* samples since the last adjustment
    ratio,          \* interleave_ratio of main
    correct_count, last_bw, last_ratio, last_step,  \* statics of adjust_interleave_ratio
    cur_bw,         \* the bandwidth the last adjustment used, 0 before the first
    node0, node1    \* the kernel's weighted_interleave weights

statics == <<correct_count, last_bw, last_ratio, last_step, cur_bw>>
vars == <<pc, bw_history, ratio, correct_count, last_bw, last_ratio,
          last_step, cur_bw, node0, node1>>

BW_PERCENTILE == 90
MAX_STEP == 8
MIN_STEP == 2
INT_LIMIT == 21474836   \* the largest int that times 100 is still an int

-----------------------------------------------------------------------------
(* Arithmetic *)

Abs(n) == IF n < 0 THEN -n ELSE n
Larger(a, b) == IF a > b THEN a ELSE b

\* C division truncates toward zero.
CDiv(a, b) ==
    IF (a >= 0) = (b > 0) THEN Abs(a) \div Abs(b) ELSE -(Abs(a) \div Abs(b))

\* (10000 * (last - cur)) / last, computed in 64 bits and stored in an int.
\* Only a rise can leave the range of an int: it then comes back positive.
\* The sums below are arranged so that no term leaves that range either.
BwChange(last, cur) ==
    LET gap  == Abs(last - cur)
        q    == gap \div last
        part == 100 * (gap % last)
        s    == 100 * (part \div last) + (100 * (part % last)) \div last
    IN  IF q > 214748 \/ (q = 214748 /\ s > 3648)
        THEN 10000 * (429496 - q) + (7296 - s)
        ELSE IF cur <= last THEN 10000 * q + s ELSE -(10000 * q + s)

\* The value an adjustment uses: drop the samples before the middle one, sort
\* the others, take the one at 90%.  With a single sample the index is -1 and
\* the step back from begin() arrives at that sample again.
IsPercentile(bw, history) ==
    LET kept == {i \in DOMAIN history : i >= Len(history) \div 2}
        rank == Larger((Cardinality(kept) * BW_PERCENTILE) \div 100, 1)
    IN  /\ \E i \in kept : history[i] = bw
        /\ Cardinality({i \in kept : history[i] < bw}) < rank
        /\ Cardinality({i \in kept : history[i] <= bw}) >= rank

\* cur_bw == 0 becomes 1, so that it can be divided by later.
OneIfZero(bw) == IF bw = 0 THEN 1 ELSE bw

-----------------------------------------------------------------------------
(* The parts of the step decision both programs have *)

Choice(step, correct) == [step |-> step, correct |-> correct]

\* The share of the ratio that the bandwidth changed by, at most half a step.
HalfStepAtMost(step) ==
    IF step > MAX_STEP \div 2 THEN MAX_STEP \div 2
    ELSE IF step < -(MAX_STEP \div 2) THEN -(MAX_STEP \div 2)
    ELSE step

\* Mutant: no lower bound on the first step of a climb.
UnsaturatedStep_NoMinimum(change) ==
    IF last_step <= 0
    THEN Choice(Abs(last_step) \div 2, 0)
    ELSE Choice(last_step, correct_count + 1)

\* cur_bw < bw_cutoff: the local memory is not saturated, so move to it.
UnsaturatedStep(change) ==
    IF last_step = 0 /\ change > 0
    THEN LET step == CDiv(ratio * CDiv(change, 100), 100)
         IN  Choice(IF Abs(step) < MIN_STEP THEN MIN_STEP
                    ELSE HalfStepAtMost(step), 0)
    ELSE IF last_step <= 0
    THEN Choice(Larger(Abs(last_step) \div 2, MIN_STEP), 0)
    ELSE Choice(last_step, correct_count + 1)

\* Mutant: the sign of the change is lost.
ParkedStep_Unsigned(change) ==
    LET step == CDiv(ratio * CDiv(Abs(change), 100), 100)
    IN  Choice(IF Abs(step) < 4 THEN 0 ELSE HalfStepAtMost(step), 0)

\* last_step == 0: leave the parked ratio only for a change of at least 4%.
ParkedStep(change) ==
    LET step == CDiv(ratio * CDiv(change, 100), 100)
    IN  Choice(IF Abs(step) < 4 THEN 0 ELSE HalfStepAtMost(step), 0)

\* last_step * -100: hundredths of a percent, positive towards node 1.
InterleaveChange == -100 * last_step

\* Mutant: a step of one percent survives.
BoundStep_NoDeadZone(step) ==
    IF step > MAX_STEP THEN MAX_STEP
    ELSE IF step < -MAX_STEP THEN -MAX_STEP
    ELSE step

\* Steps of one percent are no steps, and none is longer than MAX_STEP.
BoundStep(step) ==
    IF Abs(step) < MIN_STEP THEN 0
    ELSE IF step > MAX_STEP THEN MAX_STEP
    ELSE IF step < -MAX_STEP THEN -MAX_STEP
    ELSE step

\* Mutant: a ratio out of range becomes 100 at either end.
ClampRatio_OneEnd(r) == IF r \in 0..100 THEN r ELSE 100

ClampRatio(r) == IF r > 100 THEN 100 ELSE IF r < 0 THEN 0 ELSE r

\* last_bw follows cur_bw except while the controller stays parked, so that a
\* slow drift is measured from where it parked.
Baseline(step, bw) ==
    IF last_step # 0 \/ step # 0 THEN bw ELSE last_bw

-----------------------------------------------------------------------------
(* The process *)

\* The scripts write 100 and 0 before they start the program.
Init ==
    /\ pc = "loop"
    /\ bw_history = <<>>
    /\ ratio = 100
    /\ correct_count = 0
    /\ last_bw = 0
    /\ last_ratio = 100
    /\ last_step = -(MAX_STEP * 2)
    /\ cur_bw = 0
    /\ node0 = 100
    /\ node1 = 0

\* One turn of main's loop that does not complete an adjustment interval.
Sample(bw) ==
    /\ pc = "loop"
    /\ Len(bw_history) + 1 < MaxListSize
    /\ bw_history' = Append(bw_history, bw)
    /\ UNCHANGED <<pc, ratio, statics, node0, node1>>

\* The turn of main's loop whose sample completes an interval of percentile p:
\* adjust_interleave_ratio is called and runs up to its first system(); the
\* history is cleared when it returns.
IntervalEnds(sample, p) ==
    /\ pc = "loop"
    /\ Len(bw_history) + 1 >= MaxListSize
    /\ IsPercentile(p, Append(bw_history, sample))
    /\ bw_history' = <<>>
    /\ pc' = "write1"
    /\ UNCHANGED node1

\* The change in bandwidth since the last adjustment; the first compares the
\* bandwidth with itself.
ChangeTo(bw) == BwChange(IF last_bw = 0 THEN bw ELSE last_bw, bw)

\* The assignments every path of adjust_interleave_ratio ends with, and its
\* first system(), the weight of node 0.
TakeStep(bw, step, correct, next) ==
    /\ correct_count' = correct
    /\ last_bw' = Baseline(step, bw)
    /\ last_ratio' = ratio
    /\ last_step' = step
    /\ ratio' = ClampRatio(next)
    /\ cur_bw' = bw
    /\ node0' = ClampRatio(next)

\* Mutant: node 1 gets the complement of the ratio before the adjustment.
WriteNode1_Stale ==
    /\ pc = "write1"
    /\ pc' = "loop"
    /\ node1' = 100 - last_ratio
    /\ UNCHANGED <<bw_history, ratio, statics, node0>>

\* The second system(): the weight of node 1 follows the one of node 0.
WriteNode1 ==
    /\ pc = "write1"
    /\ pc' = "loop"
    /\ node1' = 100 - ratio
    /\ UNCHANGED <<bw_history, ratio, statics, node0>>

\* The scripts kill the program when the workload ends, at any moment, and
\* start it again for the next one, after writing 100 and 0 to the weights.
\* Started by hand it finds what the last process wrote.
Restart ==
    /\ pc' = "loop"
    /\ bw_history' = <<>>
    /\ ratio' = 100
    /\ correct_count' = 0
    /\ last_bw' = 0
    /\ last_ratio' = 100
    /\ last_step' = -(MAX_STEP * 2)
    /\ cur_bw' = 0
    /\ \/ node0' = 100 /\ node1' = 0
       \/ UNCHANGED <<node0, node1>>

-----------------------------------------------------------------------------
(* Properties of both programs.  An adjustment is a step that enters "write1". *)

IsPercent(n) == n \in Nat /\ n <= 100
IsStep(n) == n \in Int /\ Abs(n) <= MAX_STEP /\ Abs(n) # 1

Adjusted == pc = "loop" /\ pc' = "write1"

\* Main's ratio and the weights are percentages; a step is 0 or 2 to 8 percent
\* long, doubled or not (16 only before the first adjustment); three good steps
\* are never left pending.
TypeOK ==
    /\ pc \in {"loop", "write1"}
    /\ bw_history \in Seq(Bandwidths) /\ Len(bw_history) < MaxListSize
    /\ IsPercent(ratio) /\ IsPercent(last_ratio)
    /\ IsPercent(node0) /\ IsPercent(node1)
    /\ last_bw \in Nat /\ cur_bw \in Nat
    /\ correct_count \in 0..2
    /\ IsStep(last_step) \/ (last_bw = 0 /\ last_step = -(MAX_STEP * 2))

\* The two writes are separate programs run by system(), pages are allocated
\* between them, and the program may be killed there.  A process that has
\* adjusted leaves weights that add up to 100 after every second write; between
\* the writes of its later adjustments node 0 has the new ratio and node 1 still
\* the complement of the one before, at most a step away.  The first adjustment
\* (last_ratio = 100) is exempt: started by hand on the 60/40 of a killed
\* process, it shows 92/40, which belong to no two neighbouring ratios.  Even
\* then no pair of weights, both 0 included, adds up to less than 92.
WeightsTrackRatio ==
    /\ node0 + node1 >= 100 - MAX_STEP
    /\ last_bw # 0 /\ pc = "loop" => node0 = ratio /\ node1 = 100 - ratio
    /\ pc = "write1" =>
         /\ node0 = ratio
         /\ Abs(ratio - last_ratio) <= MAX_STEP
         /\ last_ratio # 100 => node1 = 100 - last_ratio

\* While the bandwidth stays below the cutoff every new page ends up local.
UnsaturatedGoesLocal ==
    <>[][~Restart]_vars /\ <>[](cur_bw < Cutoff) => <>[](node0 = 100 /\ node1 = 0)

\* A workload of constant bandwidth is not migrated back and forth for ever.
ConstantBandwidthSettles ==
    \A bw \in Bandwidths \ {0} :
        <>[][~Restart]_vars /\ <>[](cur_bw = bw) => <>[][ratio' = ratio]_vars

\* "If this is the first step we've gone to a step size of 0, steady ourselves
\* at the better option" (cipp.cpp:171): a controller that parks because the
\* last step lost bandwidth goes back to the ratio before that step.  A ratio of
\* 0 or 100 may have cut the step off, so only the ratios between are compared.
ParksAtTheBetterRatio ==
    [][Adjusted /\ last_step # 0 /\ last_step' = 0 /\ cur_bw' < last_bw /\ ratio \in 1..99
         => ratio' = last_ratio]_vars

\* "if the bw change is positive (bw going down)" (cipp.cpp:103): a saturated
\* controller leaves its parked ratio towards the local node only when the
\* bandwidth went down.
LocalOnlyWhenBandwidthFalls ==
    [][Adjusted /\ last_step = 0 /\ cur_bw' >= Cutoff /\ last_step' > 0
         => cur_bw' < last_bw]_vars
=============================================================================

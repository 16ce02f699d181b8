----------------------------- MODULE CippTotalBw -----------------------------
(***************************************************************************)
(* tools/cipp_total_bw.cpp: the controller that judges a step by whether   *)
(* the total bandwidth of all sockets went up, and that steps back when    *)
(* it parks.  Names that cipp.cpp has too carry the prefix Total here.     *)
(***************************************************************************)
EXTENDS InterleaveControl

TOTAL_THRESHOLD == 90

TotalGoodStep(bw) == bw > last_bw /\ last_bw # 0

\* bw_int_ratio = abs((bw_change * 100) / interleave_change).  The product may
\* leave the range of an int: any value, of which those from the threshold up
\* have the same effect.
TotalIntRatios(change) ==
    IF Abs(change) > INT_LIMIT THEN 0..TOTAL_THRESHOLD
    ELSE {Abs(CDiv(change * 100, InterleaveChange))}

\* Keep going, in steps that shrink with the share of the predicted change
\* that the bandwidth followed, but not below MIN_STEP.
GoodChoice(r) ==
    LET step == CDiv(r * last_step, 100)
    IN  IF r >= TOTAL_THRESHOLD THEN Choice(last_step, correct_count + 1)
        ELSE IF Abs(step) >= MIN_STEP THEN Choice(step, correct_count)
        ELSE Choice(IF last_step > 0 THEN MIN_STEP ELSE -MIN_STEP, correct_count)

\* Mutant: a bad step is reversed at full length.
BadChoice_Undamped == Choice(-last_step, 0)

\* The last step was bad, reverse.
BadChoice == Choice(CDiv(-last_step, 2), 0)

\* Lines 106 to 151.
TotalStepChoices(bw, change) ==
    CASE bw < Cutoff                           -> {UnsaturatedStep(change)}
      [] bw >= Cutoff /\ last_step = 0         -> {ParkedStep(change)}
      [] bw >= Cutoff /\ last_step # 0 /\ ratio = 100
                                               -> {Choice(CDiv(-Abs(last_step), 2), 0)}
      [] bw >= Cutoff /\ last_step # 0 /\ ratio # 100 /\ TotalGoodStep(bw)
                                               -> {GoodChoice(r) : r \in TotalIntRatios(change)}
      [] OTHER                                 -> {BadChoice}

\* The doubling of cipp.cpp is commented out; the counter still starts again.
TotalAccelerate(choice) ==
    IF choice.correct >= 3 THEN Choice(choice.step, 0) ELSE choice

\* Mutant: the test cipp.cpp makes, after last_bw has been overwritten.
TotalNextRatio_TestsTooLate(step, bw) ==
    IF step = 0 /\ Baseline(step, bw) > bw THEN ratio - last_step ELSE ratio + step

\* A step of 0 after a loss takes the last step back.
TotalNextRatio(step, bw) ==
    IF step = 0 /\ last_bw > bw THEN ratio - last_step ELSE ratio + step

TotalAdjust(bw) ==
    \E choice \in TotalStepChoices(bw, ChangeTo(bw)) :
        LET next == TotalAccelerate(choice)
            step == BoundStep(next.step)
        IN  TakeStep(bw, step, next.correct, TotalNextRatio(step, bw))

TotalCompleteInterval(sample) ==
    \E p \in Bandwidths : IntervalEnds(sample, p) /\ TotalAdjust(OneIfZero(p))

TotalLoop == \/ \E bw \in Bandwidths : Sample(bw) \/ TotalCompleteInterval(bw)
        \/ WriteNode1

TotalNext == TotalLoop \/ Restart

TotalSpec == Init /\ [][TotalNext]_vars /\ WF_vars(TotalLoop)

-----------------------------------------------------------------------------
\* A saturated controller that turns around does so with at most half the
\* step, so a search cannot grow into an oscillation.
ReversalsDamped ==
    [][Adjusted /\ cur_bw' >= Cutoff /\ last_step * last_step' < 0
         => 2 * Abs(last_step') <= Abs(last_step)]_vars

\* A workload of constant, saturated bandwidth ends the search.
ConstantBandwidthParks ==
    \A bw \in {b \in Bandwidths : b >= Cutoff} :
        <>[][~Restart]_vars /\ <>[](cur_bw = bw) => <>[](last_step = 0)
=============================================================================

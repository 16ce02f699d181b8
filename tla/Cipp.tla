--------------------------------- MODULE Cipp ---------------------------------
(***************************************************************************)
(* tools/cipp.cpp: the controller that judges a step by comparing the      *)
(* relative change of the bandwidth with the relative change of the ratio. *)
(***************************************************************************)
EXTENDS InterleaveControl

THROTTLE_THRESHOLD == 15

GoodStep(change) ==
    \/ change < InterleaveChange
    \/ change > 0 /\ InterleaveChange < 0

\* bw_int_ratio = (bw_change * 100 / 2) / interleave_change.  The product of a
\* wrapped bw_change leaves the range of an int: any value, of which those
\* above 600 all end in the same bounded step.
IntRatios(change) ==
    IF change > INT_LIMIT THEN 15..600
    ELSE {CDiv(change * 50, InterleaveChange)}

\* The last step was good: keep going, but slow down (or turn around) when the
\* bandwidth fell by more than THROTTLE_THRESHOLD of what the step predicts.
GoodChoices(change) ==
    IF change > 0 /\ InterleaveChange > 0
    THEN {IF r > THROTTLE_THRESHOLD
          THEN Choice(CDiv((100 - r) * last_step, 100), correct_count)
          ELSE Choice(last_step, correct_count + 1) : r \in IntRatios(change)}
    ELSE {Choice(last_step, correct_count + 1)}

\* Lines 108 to 152; at 100% local a saturated controller probes downward.
StepChoices(bw, change) ==
    CASE bw < Cutoff                           -> {UnsaturatedStep(change)}
      [] bw >= Cutoff /\ last_step = 0         -> {ParkedStep(change)}
      [] bw >= Cutoff /\ last_step # 0 /\ ratio = 100
                                               -> {Choice(CDiv(-Abs(last_step), 2), 0)}
      [] bw >= Cutoff /\ last_step # 0 /\ ratio # 100 /\ GoodStep(change)
                                               -> GoodChoices(change)
      [] OTHER                                 -> {Choice(CDiv(-last_step, 2), 0)}

\* Three good steps in a row double the next one.
Accelerate(choice) ==
    IF choice.correct >= 3 THEN Choice(choice.step * 2, 0) ELSE choice

\* cipp.cpp:173: last_bw > cur_bw is tested after both last_bw and last_ratio
\* were overwritten, so either the test fails or last_ratio is the ratio itself.
NextRatio(step, bw) ==
    IF step = 0 /\ Baseline(step, bw) > bw THEN ratio ELSE ratio + step

\* adjust_interleave_ratio up to its first system().
Adjust(bw) ==
    \E choice \in StepChoices(bw, ChangeTo(bw)) :
        LET next == Accelerate(choice)
            step == BoundStep(next.step)
        IN  TakeStep(bw, step, next.correct, NextRatio(step, bw))

CompleteInterval(sample) ==
    \E p \in Bandwidths : IntervalEnds(sample, p) /\ Adjust(OneIfZero(p))

Loop == \/ \E bw \in Bandwidths : Sample(bw) \/ CompleteInterval(bw)
        \/ WriteNode1

Next == Loop \/ Restart

\* A process that is not killed keeps looping: nothing in it blocks.
Spec == Init /\ [][Next]_vars /\ WF_vars(Loop)
=============================================================================

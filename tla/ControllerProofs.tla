--------------------------- MODULE ControllerProofs ---------------------------
(***************************************************************************)
(* cipp.cpp and cipp_total_bw.cpp keep their ratio, their steps and the    *)
(* weights in range, whatever bandwidths they measure and whenever they    *)
(* are killed and started again.  cipp leaves a parked ratio towards node  *)
(* 0 only after a loss; cipp_total_bw turns around at half the step or     *)
(* less, and parks at the better of the last two ratios.                   *)
(***************************************************************************)
EXTENDS Cipp, CippTotalBw, TLAPS

(* What both programs share: the arithmetic, the decisions, the actions *)

\* The C division of an integer by an integer other than 0 is an integer.
LEMMA CDivType == ASSUME NEW a \in Int, NEW b \in Int \ {0} PROVE CDiv(a, b) \in Int
  BY DEF CDiv, Abs

\* The change in bandwidth is an integer once the old bandwidth is not 0.
LEMMA BwChangeType ==
  ASSUME NEW last \in Nat \ {0}, NEW cur \in Nat PROVE BwChange(last, cur) \in Int
  <1> DEFINE gap  == Abs(last - cur)
             part == 100 * (gap % last)
             s    == 100 * (part \div last) + (100 * (part % last)) \div last
  <1>1. gap \in Nat
    BY DEF Abs
  <1>2. gap \div last \in Int /\ gap % last \in Nat
    BY <1>1
  <1>3. part \in Nat
    BY <1>2
  <1>4. part \div last \in Int /\ part % last \in Nat
    BY <1>3
  <1>5. (100 * (part % last)) \div last \in Int
    BY <1>4
  <1>6. s \in Int
    BY <1>4, <1>5
  <1> HIDE DEF gap, part, s
  <1>7. QED
    BY <1>2, <1>6 DEF BwChange, gap, part, s

\* No bounded step is one percent long or longer than MAX_STEP.
LEMMA BoundStepType ==
  ASSUME NEW step \in Int PROVE IsStep(BoundStep(step))
  BY DEF BoundStep, IsStep, Abs, MAX_STEP, MIN_STEP

\* The clamp returns a percentage, and moves the ratio no further than asked.
LEMMA ClampRatioType ==
  ASSUME NEW r, IsPercent(r), NEW next \in Int, Abs(next - r) <= MAX_STEP
  PROVE  /\ IsPercent(ClampRatio(next))
         /\ ClampRatio(next) >= r - MAX_STEP
         /\ Abs(ClampRatio(next) - r) <= MAX_STEP
  BY DEF ClampRatio, IsPercent, Abs, MAX_STEP

\* In the window between the writes: the new weight of node 0 and the old one
\* of node 1, which was the complement of a ratio at most MAX_STEP larger.
LEMMA WindowSum ==
  ASSUME NEW r \in Nat, NEW next \in Nat, NEW n1 \in Nat,
         next >= r - MAX_STEP, r # 100 => n1 = 100 - r
  PROVE  next + n1 >= 100 - MAX_STEP
  BY DEF MAX_STEP

\* A choice of the unsaturated branch, from a well-typed state.
LEMMA UnsaturatedStepType ==
  ASSUME TypeOK, NEW change \in Int
  PROVE  /\ UnsaturatedStep(change).step \in Int
         /\ UnsaturatedStep(change).correct \in 0..3
  <1> DEFINE step == CDiv(ratio * CDiv(change, 100), 100)
  <1>1. step \in Int
    BY CDivType DEF TypeOK, IsPercent
  <1>2. last_step \in Int /\ correct_count \in 0..2
    BY DEF TypeOK, IsStep, MAX_STEP
  <1>3. Abs(last_step) \div 2 \in Int
    BY <1>2 DEF Abs
  <1> HIDE DEF step
  <1>4. HalfStepAtMost(step) \in Int
    BY <1>1 DEF HalfStepAtMost, MAX_STEP
  <1>5. QED
    BY <1>1, <1>2, <1>3, <1>4 DEF UnsaturatedStep, Choice, Larger, MIN_STEP, step

\* A choice of the parked branch, from a well-typed state.
LEMMA ParkedStepType ==
  ASSUME TypeOK, NEW change \in Int
  PROVE  /\ ParkedStep(change).step \in Int
         /\ ParkedStep(change).correct \in 0..3
  <1> DEFINE step == CDiv(ratio * CDiv(change, 100), 100)
  <1>1. step \in Int
    BY CDivType DEF TypeOK, IsPercent
  <1> HIDE DEF step
  <1>2. HalfStepAtMost(step) \in Int
    BY <1>1 DEF HalfStepAtMost, MAX_STEP
  <1>3. QED
    BY <1>2 DEF ParkedStep, Choice, step

-----------------------------------------------------------------------------
\* Before the first adjustment the ratio is 100 and the next step is not 0;
\* without this the first adjustment could leave last_bw at 0, and the second
\* could move the ratio by twice MAX_STEP.
FirstAdjustment ==
    last_bw = 0 => pc = "loop" /\ ratio = 100 /\ last_step # 0

IInv == TypeOK /\ WeightsTrackRatio /\ FirstAdjustment

LEMMA InitIInv == Init => IInv
  BY ControlAssumption DEF Init, IInv, TypeOK, WeightsTrackRatio, FirstAdjustment, MAX_STEP,
                             IsPercent

\* Whatever decision led to it, an adjustment whose step is bounded and which
\* asks for a ratio at most MAX_STEP away keeps the invariant: the weight of
\* node 0 moves by at most MAX_STEP while the one of node 1 still waits.
LEMMA BoundedAdjustment ==
  ASSUME IInv, NEW sample, NEW p \in Bandwidths, IntervalEnds(sample, p),
         NEW bw \in Nat \ {0}, NEW step, IsStep(step), NEW correct \in 0..2,
         NEW next \in Int, Abs(next - ratio) <= MAX_STEP,
         TakeStep(bw, step, correct, next)
  PROVE  IInv'
  <1> USE DEF IInv
  <1>1. /\ IsPercent(ratio') /\ node0' = ratio'
        /\ ratio' >= ratio - MAX_STEP /\ Abs(ratio' - ratio) <= MAX_STEP
    BY ClampRatioType DEF TakeStep, TypeOK
  <1>2. last_bw' \in Nat \ {0}
    BY DEF TakeStep, Baseline, TypeOK, FirstAdjustment
  <1>3. TypeOK'
    <2>1. bw_history' \in Seq(Bandwidths) /\ Len(bw_history') < MaxListSize
      BY ControlAssumption DEF IntervalEnds
    <2>2. IsStep(last_step')
      BY DEF TakeStep
    <2>3. IsPercent(last_ratio') /\ correct_count' \in 0..2 /\ cur_bw' \in Nat
      BY DEF TakeStep, TypeOK
    <2>4. pc' \in {"loop", "write1"} /\ IsPercent(node1')
      BY DEF IntervalEnds, TypeOK
    <2>5. QED
      BY <1>1, <1>2, <2>1, <2>2, <2>3, <2>4 DEF TypeOK
  <1>4. WeightsTrackRatio'
    <2>1. pc = "loop" /\ pc' = "write1" /\ node1' = node1 /\ last_ratio' = ratio
      BY DEF IntervalEnds, TakeStep
    <2>2. ratio # 100 => node1 = 100 - ratio
      BY <2>1 DEF WeightsTrackRatio, FirstAdjustment, TypeOK
    <2>3. node0' + node1' >= 100 - MAX_STEP
      BY <1>1, <2>1, <2>2, WindowSum DEF TypeOK, IsPercent
    <2>4. QED
      BY <1>1, <2>1, <2>2, <2>3 DEF WeightsTrackRatio, Abs
  <1>5. FirstAdjustment'
    BY <1>2 DEF FirstAdjustment
  <1>6. QED
    BY <1>3, <1>4, <1>5

\* The steps that decide nothing keep the invariant.
LEMMA OtherSteps ==
  ASSUME IInv,
         \/ \E bw \in Bandwidths : Sample(bw)
         \/ WriteNode1 \/ Restart \/ UNCHANGED vars
  PROVE  IInv'
  <1> USE DEF IInv
  <1>1. ASSUME NEW bw \in Bandwidths, Sample(bw) PROVE IInv'
    BY <1>1, ControlAssumption
       DEF Sample, statics, TypeOK, WeightsTrackRatio, FirstAdjustment
  <1>2. CASE WriteNode1
    <2>1. TypeOK'
      BY <1>2 DEF WriteNode1, statics, TypeOK, IsPercent
    <2>2. WeightsTrackRatio' /\ FirstAdjustment'
      BY <1>2 DEF WriteNode1, statics, TypeOK, IsPercent, WeightsTrackRatio,
                  FirstAdjustment, MAX_STEP
    <2>3. QED
      BY <2>1, <2>2
  <1>3. CASE Restart
    <2>1. TypeOK'
      BY <1>3, ControlAssumption DEF Restart, TypeOK, IsPercent, MAX_STEP
    <2>2. WeightsTrackRatio' /\ FirstAdjustment'
      BY <1>3 DEF Restart, TypeOK, IsPercent, WeightsTrackRatio, FirstAdjustment, MAX_STEP
    <2>3. QED
      BY <2>1, <2>2
  <1>4. CASE UNCHANGED vars
    BY <1>4 DEF vars, TypeOK, WeightsTrackRatio, FirstAdjustment
  <1>5. QED
    BY <1>1, <1>2, <1>3, <1>4

-----------------------------------------------------------------------------
(* cipp *)

\* The choices of a well-typed state have integer steps and small counts.
LEMMA StepChoicesType ==
  ASSUME TypeOK, NEW bw \in Nat, NEW change \in Int,
         NEW choice \in StepChoices(bw, change)
  PROVE  choice.step \in Int /\ choice.correct \in 0..3
  <1> USE DEF Choice
  <1>1. last_step \in Int /\ correct_count \in 0..2 /\ Abs(last_step) \in Nat
    BY DEF TypeOK, IsStep, MAX_STEP, Abs
  <1>2. CASE bw < Cutoff
    BY <1>2, UnsaturatedStepType, ControlAssumption DEF StepChoices
  <1>3. CASE bw >= Cutoff /\ last_step = 0
    BY <1>3, ParkedStepType, ControlAssumption DEF StepChoices
  <1>4. CASE bw >= Cutoff /\ last_step # 0 /\ ratio = 100
    <2>1. CDiv(-Abs(last_step), 2) \in Int
      BY <1>1, CDivType
    <2>2. QED
      BY <1>4, <2>1, ControlAssumption DEF StepChoices
  <1>5. CASE bw >= Cutoff /\ last_step # 0 /\ ratio # 100 /\ GoodStep(change)
    <2>1. choice \in GoodChoices(change)
      BY <1>5, ControlAssumption DEF StepChoices
    <2>2. CASE choice = Choice(last_step, correct_count + 1)
      BY <2>2, <1>1
    <2>3. CASE \E r \in IntRatios(change) :
                 choice = Choice(CDiv((100 - r) * last_step, 100), correct_count)
      <3>1. PICK r \in IntRatios(change) :
                 choice = Choice(CDiv((100 - r) * last_step, 100), correct_count)
        BY <2>3
      <3>2. InterleaveChange \in Int \ {0} /\ change * 50 \in Int
        BY <1>1, <1>5 DEF InterleaveChange
      <3>3. r \in Int
        BY <3>2, CDivType DEF IntRatios
      <3>4. (100 - r) * last_step \in Int
        BY <1>1, <3>3
      <3>5. CDiv((100 - r) * last_step, 100) \in Int
        BY <3>4, CDivType
      <3>6. QED
        BY <3>1, <3>5, <1>1
    <2>4. QED
      BY <2>1, <2>2, <2>3 DEF GoodChoices
  <1>6. CASE bw >= Cutoff /\ last_step # 0 /\ ratio # 100 /\ ~GoodStep(change)
    <2>1. CDiv(-last_step, 2) \in Int
      BY <1>1, CDivType
    <2>2. QED
      BY <1>6, <2>1, ControlAssumption DEF StepChoices
  <1>7. QED
    BY <1>2, <1>3, <1>4, <1>5, <1>6, ControlAssumption

\* Every adjustment is bounded.
LEMMA CompleteIntervalKeepsIInv ==
  ASSUME IInv, NEW sample \in Bandwidths, CompleteInterval(sample)
  PROVE  IInv'
  <1> USE DEF IInv
  <1>1. PICK p \in Bandwidths : IntervalEnds(sample, p) /\ Adjust(OneIfZero(p))
    BY DEF CompleteInterval
  <1> DEFINE bw == OneIfZero(p)
             change == ChangeTo(bw)
  <1>2. bw \in Nat \ {0}
    BY ControlAssumption DEF OneIfZero
  <1>3. change \in Int
    BY <1>2, BwChangeType DEF ChangeTo, TypeOK
  <1> HIDE DEF bw, change
  <1>4. PICK choice \in StepChoices(bw, change) :
          TakeStep(bw, BoundStep(Accelerate(choice).step), Accelerate(choice).correct,
                   NextRatio(BoundStep(Accelerate(choice).step), bw))
    BY <1>1 DEF Adjust, bw, change
  <1> DEFINE next == Accelerate(choice)
             step == BoundStep(next.step)
  <1>5. next.step \in Int /\ next.correct \in 0..2
    BY <1>2, <1>3, StepChoicesType DEF Accelerate, Choice
  <1> HIDE DEF next
  <1>6. IsStep(step)
    BY <1>5, BoundStepType
  <1> HIDE DEF step
  <1>7. NextRatio(step, bw) \in Int /\ Abs(NextRatio(step, bw) - ratio) <= MAX_STEP
    BY <1>6 DEF NextRatio, TypeOK, IsStep, IsPercent, MAX_STEP, Abs
  <1>8. TakeStep(bw, step, next.correct, NextRatio(step, bw))
    BY <1>4 DEF step, next
  <1>9. QED
    BY <1>1, <1>2, <1>5, <1>6, <1>7, <1>8, BoundedAdjustment

LEMMA IInvInductive == IInv /\ [Next]_vars => IInv'
  BY CompleteIntervalKeepsIInv, OtherSteps DEF Next, Loop

\* For every set of bandwidths, every cutoff and every interval length the
\* controller's state keeps its types: percentages stay percentages, no step of
\* one percent or of more than MAX_STEP is taken, no count of 3 is left pending.
THEOREM TypeCorrect == Spec => []TypeOK
  <1>1. IInv => TypeOK
    BY DEF IInv
  <1>2. QED
    BY <1>1, InitIInv, IInvInductive, PTL DEF Spec

\* The kernel's two weights never add up to less than 92, wherever the program
\* is killed and however it is started.  Except in the window of a process's
\* first adjustment, which meets the weights another process left, they are
\* those of the ratio or, between the two writes, of two ratios a step apart.
THEOREM WeightsSafe == Spec => []WeightsTrackRatio
  <1>1. IInv => WeightsTrackRatio
    BY DEF IInv
  <1>2. QED
    BY <1>1, InitIInv, IInvInductive, PTL DEF Spec

-----------------------------------------------------------------------------
\* A parked controller measures from a bandwidth that saturated the memory:
\* below the cutoff every step climbs by at least MIN_STEP, so none parks it.
ParkedSaturated == last_step = 0 => last_bw >= Cutoff

\* A climb is never cut down to nothing.
LEMMA UnsaturatedClimbs ==
  ASSUME TypeOK, NEW change \in Int
  PROVE  LET step == Accelerate(UnsaturatedStep(change)).step
         IN  step \in Int /\ BoundStep(step) # 0
  <1> DEFINE q == CDiv(ratio * CDiv(change, 100), 100)
             choice == UnsaturatedStep(change)
  <1>1. q \in Int
    BY CDivType DEF TypeOK, IsPercent
  <1> HIDE DEF q
  <1>2. last_step \in Int /\ Abs(last_step) # 1
    BY DEF TypeOK, IsStep, MAX_STEP, Abs
  <1>3. choice.step \in Int /\ Abs(choice.step) >= MIN_STEP
    <2>1. CASE last_step = 0 /\ change > 0
      BY <1>1, <2>1 DEF UnsaturatedStep, Choice, HalfStepAtMost, MIN_STEP, MAX_STEP, Abs, q
    <2>2. CASE ~(last_step = 0 /\ change > 0) /\ last_step <= 0
      <3>1. choice.step = Larger(Abs(last_step) \div 2, MIN_STEP)
        BY <2>2 DEF UnsaturatedStep, Choice
      <3>2. Abs(last_step) \div 2 \in Int
        BY <1>2 DEF Abs
      <3>3. QED
        BY <3>1, <3>2 DEF Larger, MIN_STEP, Abs
    <2>3. CASE last_step > 0
      BY <1>2, <2>3 DEF UnsaturatedStep, Choice, MIN_STEP, Abs
    <2>4. QED
      BY <1>2, <2>1, <2>2, <2>3
  <1> HIDE DEF choice
  <1>4. Accelerate(choice).step \in Int /\ Abs(Accelerate(choice).step) >= MIN_STEP
    BY <1>3 DEF Accelerate, Choice, MIN_STEP, Abs
  <1>5. QED
    BY <1>4 DEF BoundStep, MIN_STEP, MAX_STEP, Abs, choice

\* Only the rise from a bandwidth of 1 can wrap around to a positive change:
\* from any other, a positive change means that the bandwidth fell.
LEMMA PositiveChangeIsAFall ==
  ASSUME NEW last \in Nat, last > 1, NEW cur \in Nat, cur <= 400000,
         BwChange(last, cur) > 0
  PROVE  cur < last
  <1> SUFFICES ASSUME cur >= last PROVE FALSE
    OBVIOUS
  <1> DEFINE gap  == Abs(last - cur)
             q    == gap \div last
             part == 100 * (gap % last)
             s    == 100 * (part \div last) + (100 * (part % last)) \div last
  <1>1. gap \in Nat /\ gap <= 400000 /\ (cur = last => gap = 0)
    BY DEF Abs
  <1>2. q \in Nat /\ q <= 200000 /\ gap % last \in Nat /\ (cur = last => q = 0 /\ gap % last = 0)
    <2> HIDE DEF gap
    <2>1. q \in Nat /\ gap % last \in Nat
      BY <1>1
    <2>2. q * last <= gap
      BY <1>1
    <2>3. q * 2 <= q * last
      BY <2>1
    <2>4. cur = last => q = 0 /\ gap % last = 0
      BY <1>1
    <2> HIDE DEF q
    <2>5. q * last \in Int
      BY <2>1
    <2>6. QED
      BY <1>1, <2>1, <2>2, <2>3, <2>4, <2>5
  <1>3. part \in Nat /\ (cur = last => part = 0)
    BY <1>2
  <1> HIDE DEF gap, q, part
  <1>4. part \div last \in Nat /\ part % last \in Nat
        /\ (cur = last => part \div last = 0 /\ part % last = 0)
    BY <1>3
  <1>5. (100 * (part % last)) \div last \in Nat
        /\ (cur = last => (100 * (part % last)) \div last = 0)
    BY <1>4
  <1>6. s \in Nat /\ (cur = last => s = 0)
    BY <1>4, <1>5
  <1> HIDE DEF s
  <1>7. BwChange(last, cur) = IF cur <= last THEN 10000 * q + s ELSE -(10000 * q + s)
    BY <1>2 DEF BwChange, gap, q, part, s
  <1>8. QED
    BY <1>2, <1>6, <1>7

\* A parked controller that saw no positive change does not step towards node 0.
LEMMA ParkedStepSign ==
  ASSUME TypeOK, NEW change \in Int, change <= 0
  PROVE  LET step == Accelerate(ParkedStep(change)).step
         IN  step \in Int /\ BoundStep(step) \in Int /\ BoundStep(step) <= 0
  <1> DEFINE percent == CDiv(change, 100)
             product == ratio * percent
             q == CDiv(product, 100)
  <1>1. percent \in Int /\ percent <= 0
    BY DEF CDiv, Abs
  <1> HIDE DEF percent
  <1>2. product \in Int /\ product <= 0
    BY <1>1 DEF TypeOK, IsPercent
  <1> HIDE DEF product
  <1>3. q \in Int /\ q <= 0
    BY <1>2 DEF CDiv, Abs
  <1> HIDE DEF q
  <1> DEFINE choice == ParkedStep(change)
  <1>4. choice.step \in Int /\ choice.step <= 0 /\ choice.correct = 0
    BY <1>3 DEF ParkedStep, Choice, HalfStepAtMost, MAX_STEP, Abs, q, product, percent
  <1> HIDE DEF choice
  <1>5. Accelerate(choice).step \in Int /\ Accelerate(choice).step <= 0
    BY <1>4 DEF Accelerate, Choice
  <1>6. QED
    BY <1>5 DEF BoundStep, MIN_STEP, MAX_STEP, Abs, choice

\* What an adjustment is made of.
LEMMA AdjustmentParts ==
  ASSUME IInv, NEW sample \in Bandwidths, CompleteInterval(sample)
  PROVE  \E bw \in Nat \ {0}, change \in Int : \E choice \in StepChoices(bw, change) :
            /\ bw <= 400000
            /\ change = ChangeTo(bw)
            /\ cur_bw' = bw
            /\ last_step' = BoundStep(Accelerate(choice).step)
            /\ last_bw' = Baseline(last_step', bw)
  <1>1. PICK p \in Bandwidths : IntervalEnds(sample, p) /\ Adjust(OneIfZero(p))
    BY DEF CompleteInterval
  <1>2. OneIfZero(p) \in Nat \ {0} /\ OneIfZero(p) <= 400000
    <2>1. p \in Nat /\ p <= 400000
      BY ControlAssumption
    <2>2. QED
      BY <2>1 DEF OneIfZero
  <1>3. ChangeTo(OneIfZero(p)) \in Int
    <2>1. last_bw \in Nat
      BY DEF IInv, TypeOK
    <2>2. QED
      BY <1>2, <2>1, BwChangeType DEF ChangeTo
  <1>4. PICK choice \in StepChoices(OneIfZero(p), ChangeTo(OneIfZero(p))) :
          TakeStep(OneIfZero(p), BoundStep(Accelerate(choice).step),
                   Accelerate(choice).correct,
                   NextRatio(BoundStep(Accelerate(choice).step), OneIfZero(p)))
    BY <1>1 DEF Adjust
  <1>5. QED
    BY <1>2, <1>3, <1>4 DEF TakeStep

LEMMA ParkedSaturatedKept == IInv /\ ParkedSaturated /\ [Next]_vars => ParkedSaturated'
  <1> SUFFICES ASSUME IInv, ParkedSaturated, [Next]_vars PROVE ParkedSaturated'
    OBVIOUS
  <1>1. ASSUME NEW sample \in Bandwidths, CompleteInterval(sample) PROVE ParkedSaturated'
    <2>1. PICK bw \in Nat \ {0}, change \in Int :
            \E choice \in StepChoices(bw, change) :
               /\ last_step' = BoundStep(Accelerate(choice).step)
               /\ last_bw' = Baseline(last_step', bw)
      BY <1>1, AdjustmentParts
    <2>2. last_bw' = IF last_step # 0 \/ last_step' # 0 THEN bw ELSE last_bw
      BY <2>1 DEF Baseline
    <2>3. CASE bw < Cutoff
      <3>1. last_step' = BoundStep(Accelerate(UnsaturatedStep(change)).step)
        BY <2>1, <2>3, ControlAssumption DEF StepChoices
      <3>2. QED
        BY <3>1, UnsaturatedClimbs DEF IInv, ParkedSaturated
    <2>4. CASE bw >= Cutoff
      BY <2>2, <2>4 DEF ParkedSaturated
    <2>5. QED
      BY <2>3, <2>4, ControlAssumption
  <1>2. CASE \E bw \in Bandwidths : Sample(bw)
    BY <1>2 DEF Sample, statics, ParkedSaturated
  <1>3. CASE WriteNode1
    BY <1>3 DEF WriteNode1, statics, ParkedSaturated
  <1>4. CASE Restart
    BY <1>4 DEF Restart, MAX_STEP, ParkedSaturated
  <1>5. CASE UNCHANGED vars
    BY <1>5 DEF vars, ParkedSaturated
  <1>6. QED
    BY <1>1, <1>2, <1>3, <1>4, <1>5 DEF Next, Loop

\* A saturated controller leaves its parked ratio towards node 0 only when the
\* bandwidth fell.  With a cutoff of 1 it is false: from a bandwidth of 1 a rise
\* past 214748 MB/s wraps around and looks like a fall.
THEOREM LocalMovesSafe == ASSUME Cutoff > 1 PROVE Spec => LocalOnlyWhenBandwidthFalls
  <1> DEFINE A == Adjusted /\ last_step = 0 /\ cur_bw' >= Cutoff /\ last_step' > 0
                    => cur_bw' < last_bw
  <1>1. Init => ParkedSaturated
    BY DEF Init, ParkedSaturated, MAX_STEP
  <1>2. ASSUME IInv, ParkedSaturated, Next, Adjusted, last_step = 0, cur_bw' >= Cutoff,
               last_step' > 0
        PROVE  cur_bw' < last_bw
    <2>1. PICK sample \in Bandwidths : CompleteInterval(sample)
      BY <1>2 DEF Next, Loop, Sample, WriteNode1, Restart, Adjusted
    <2>2. PICK bw \in Nat \ {0}, change \in Int :
            \E choice \in StepChoices(bw, change) :
               /\ bw <= 400000
               /\ change = ChangeTo(bw)
               /\ cur_bw' = bw
               /\ last_step' = BoundStep(Accelerate(choice).step)
      BY <1>2, <2>1, AdjustmentParts
    <2>3. last_step' = BoundStep(Accelerate(ParkedStep(change)).step)
      BY <1>2, <2>2, ControlAssumption DEF StepChoices
    <2>4. change > 0
      BY <1>2, <2>3, ParkedStepSign DEF IInv
    <2>5. last_bw \in Nat /\ last_bw > 1
      <3>1. last_bw \in Nat
        BY <1>2 DEF IInv, TypeOK
      <3>2. last_bw >= Cutoff /\ Cutoff \in Nat
        BY <1>2, ControlAssumption DEF ParkedSaturated
      <3>3. QED
        BY <3>1, <3>2
    <2>6. change = BwChange(last_bw, bw)
      BY <2>2, <2>5 DEF ChangeTo
    <2>7. QED
      BY <2>2, <2>4, <2>5, <2>6, PositiveChangeIsAFall
  <1>3. IInv /\ ParkedSaturated /\ [Next]_vars => [A]_vars
    BY <1>2
  <1>4. QED
    BY <1>1, <1>3, InitIInv, IInvInductive, ParkedSaturatedKept, PTL
       DEF Spec, LocalOnlyWhenBandwidthFalls

-----------------------------------------------------------------------------
(* cipp_total_bw *)

\* The choices of a well-typed state have integer steps and small counts.
LEMMA TotalStepChoicesType ==
  ASSUME TypeOK, NEW bw \in Nat, NEW change \in Int,
         NEW choice \in TotalStepChoices(bw, change)
  PROVE  choice.step \in Int /\ choice.correct \in 0..3
  <1> USE DEF Choice
  <1>1. last_step \in Int /\ correct_count \in 0..2 /\ Abs(last_step) \in Nat
    BY DEF TypeOK, IsStep, MAX_STEP, Abs
  <1>2. CASE bw < Cutoff
    BY <1>2, UnsaturatedStepType, ControlAssumption DEF TotalStepChoices
  <1>3. CASE bw >= Cutoff /\ last_step = 0
    BY <1>3, ParkedStepType, ControlAssumption DEF TotalStepChoices
  <1>4. CASE bw >= Cutoff /\ last_step # 0 /\ ratio = 100
    <2>1. CDiv(-Abs(last_step), 2) \in Int
      BY <1>1, CDivType
    <2>2. QED
      BY <1>4, <2>1, ControlAssumption DEF TotalStepChoices
  <1>5. CASE bw >= Cutoff /\ last_step # 0 /\ ratio # 100 /\ TotalGoodStep(bw)
    <2>1. PICK r \in TotalIntRatios(change) : choice = GoodChoice(r)
      BY <1>5, ControlAssumption DEF TotalStepChoices
    <2>2. InterleaveChange \in Int \ {0} /\ change * 100 \in Int
      BY <1>1, <1>5 DEF InterleaveChange
    <2>3. r \in Int
      BY <2>2, CDivType DEF TotalIntRatios, TOTAL_THRESHOLD, Abs
    <2>4. CDiv(r * last_step, 100) \in Int
      BY <1>1, <2>3, CDivType
    <2>5. QED
      BY <1>1, <2>1, <2>4 DEF GoodChoice, MIN_STEP
  <1>6. CASE bw >= Cutoff /\ last_step # 0 /\ ratio # 100 /\ ~TotalGoodStep(bw)
    <2>1. CDiv(-last_step, 2) \in Int
      BY <1>1, CDivType
    <2>2. QED
      BY <1>6, <2>1, ControlAssumption DEF TotalStepChoices, BadChoice
  <1>7. QED
    BY <1>2, <1>3, <1>4, <1>5, <1>6, ControlAssumption

\* Every adjustment is bounded.
LEMMA TotalCompleteIntervalKeepsIInv ==
  ASSUME IInv, NEW sample \in Bandwidths, TotalCompleteInterval(sample)
  PROVE  IInv'
  <1> USE DEF IInv
  <1>1. PICK p \in Bandwidths : IntervalEnds(sample, p) /\ TotalAdjust(OneIfZero(p))
    BY DEF TotalCompleteInterval
  <1> DEFINE bw == OneIfZero(p)
             change == ChangeTo(bw)
  <1>2. bw \in Nat \ {0}
    BY ControlAssumption DEF OneIfZero
  <1>3. change \in Int
    BY <1>2, BwChangeType DEF ChangeTo, TypeOK
  <1> HIDE DEF bw, change
  <1>4. PICK choice \in TotalStepChoices(bw, change) :
          TakeStep(bw, BoundStep(TotalAccelerate(choice).step), TotalAccelerate(choice).correct,
                   TotalNextRatio(BoundStep(TotalAccelerate(choice).step), bw))
    BY <1>1 DEF TotalAdjust, bw, change
  <1> DEFINE next == TotalAccelerate(choice)
             step == BoundStep(next.step)
  <1>5. next.step \in Int /\ next.correct \in 0..2
    BY <1>2, <1>3, TotalStepChoicesType DEF TotalAccelerate, Choice
  <1> HIDE DEF next
  <1>6. IsStep(step)
    BY <1>5, BoundStepType
  <1> HIDE DEF step
  <1>7. TotalNextRatio(step, bw) \in Int /\ Abs(TotalNextRatio(step, bw) - ratio) <= MAX_STEP
    <2>1. last_bw > bw => IsStep(last_step)
      BY <1>2 DEF TypeOK
    <2>2. QED
      BY <1>6, <2>1 DEF TotalNextRatio, TypeOK, IsStep, IsPercent, MAX_STEP, Abs
  <1>8. TakeStep(bw, step, next.correct, TotalNextRatio(step, bw))
    BY <1>4 DEF step, next
  <1>9. QED
    BY <1>1, <1>2, <1>5, <1>6, <1>7, <1>8, BoundedAdjustment

LEMMA TotalIInvInductive == IInv /\ [TotalNext]_vars => IInv'
  BY TotalCompleteIntervalKeepsIInv, OtherSteps DEF TotalNext, TotalLoop

\* For every set of bandwidths, every cutoff and every interval length the
\* controller's state keeps its types: percentages stay percentages, no step of
\* one percent or of more than MAX_STEP is taken, no count of 3 is left pending.
THEOREM TotalTypeCorrect == TotalSpec => []TypeOK
  <1>1. IInv => TypeOK
    BY DEF IInv
  <1>2. QED
    BY <1>1, InitIInv, TotalIInvInductive, PTL DEF TotalSpec

\* The kernel's two weights never add up to less than 92, wherever the program
\* is killed and however it is started.  Except in the window of a process's
\* first adjustment, which meets the weights another process left, they are
\* those of the ratio or, between the two writes, of two ratios a step apart.
THEOREM TotalWeightsSafe == TotalSpec => []WeightsTrackRatio
  <1>1. IInv => WeightsTrackRatio
    BY DEF IInv
  <1>2. QED
    BY <1>1, InitIInv, TotalIInvInductive, PTL DEF TotalSpec

-----------------------------------------------------------------------------
(* The steps of an adjustment *)

\* Keeps(step): the sign of the last step is kept; Halves(step): at most half
\* of the last step, in either direction.
Keeps(step) == step \in Int /\ (last_step > 0 => step >= 0) /\ (last_step < 0 => step <= 0)
Halves(step) == step \in Int /\ 2 * Abs(step) <= Abs(last_step)

\* Bounding a step neither lengthens nor turns it.
LEMMA BoundStepShrinks ==
  ASSUME NEW step \in Int
  PROVE  /\ BoundStep(step) \in Int
         /\ Abs(BoundStep(step)) <= Abs(step)
         /\ step >= 0 => BoundStep(step) >= 0
         /\ step <= 0 => BoundStep(step) <= 0
  BY DEF BoundStep, MAX_STEP, MIN_STEP, Abs

\* C halves towards zero, so the half is never longer than half.
LEMMA CHalf ==
  ASSUME NEW n \in Int
  PROVE  CDiv(n, 2) \in Int /\ 2 * Abs(CDiv(n, 2)) <= Abs(n)
  BY DEF CDiv, Abs

\* A share of the last step, as C computes it, has the sign of the last step.
LEMMA CShare ==
  ASSUME NEW r \in Nat, NEW n \in Int
  PROVE  /\ CDiv(r * n, 100) \in Int
         /\ n >= 0 => CDiv(r * n, 100) >= 0
         /\ n <= 0 => CDiv(r * n, 100) <= 0
  <1> DEFINE product == r * n
  <1>1. product \in Int /\ (n >= 0 => product >= 0) /\ (n <= 0 => product <= 0)
    OBVIOUS
  <1> HIDE DEF product
  <1>2. /\ CDiv(product, 100) \in Int
        /\ product >= 0 => CDiv(product, 100) >= 0
        /\ product <= 0 => CDiv(product, 100) <= 0
    BY <1>1 DEF CDiv, Abs
  <1>3. QED
    BY <1>1, <1>2 DEF product

\* Two steps in the same direction have no negative product.
LEMMA SameDirection ==
  ASSUME NEW a \in Int, NEW b \in Int, a > 0 => b >= 0, a < 0 => b <= 0
  PROVE  a * b \in Nat
  OBVIOUS

\* A saturated controller keeps its direction or halves its step.
LEMMA SaturatedSteps ==
  ASSUME TypeOK, last_step # 0, NEW bw \in Nat, bw >= Cutoff, NEW change \in Int,
         NEW choice \in TotalStepChoices(bw, change)
  PROVE  Keeps(choice.step) \/ Halves(choice.step)
  <1> USE DEF Choice
  <1>1. last_step \in Int /\ Abs(last_step) \in Nat /\ Abs(-Abs(last_step)) = Abs(last_step)
        /\ Abs(-last_step) = Abs(last_step)
    BY DEF TypeOK, IsStep, MAX_STEP, Abs
  <1>2. CASE ratio = 100
    <2>1. choice.step = CDiv(-Abs(last_step), 2)
      BY <1>2, ControlAssumption DEF TotalStepChoices
    <2>2. QED
      BY <1>1, <2>1, CHalf DEF Halves
  <1>3. CASE ratio # 100 /\ TotalGoodStep(bw)
    <2>1. PICK r \in TotalIntRatios(change) : choice = GoodChoice(r)
      BY <1>3, ControlAssumption DEF TotalStepChoices
    <2>2. r \in Nat
      <3>1. InterleaveChange \in Int \ {0} /\ change * 100 \in Int
        BY <1>1 DEF InterleaveChange
      <3>2. CDiv(change * 100, InterleaveChange) \in Int
        BY <3>1, CDivType
      <3>3. QED
        BY <3>2 DEF TotalIntRatios, TOTAL_THRESHOLD, Abs
    <2> DEFINE share == CDiv(r * last_step, 100)
    <2>3. share \in Int /\ (last_step >= 0 => share >= 0) /\ (last_step <= 0 => share <= 0)
      BY <1>1, <2>2, CShare
    <2> HIDE DEF share
    <2>4. choice.step \in {last_step, share, IF last_step > 0 THEN MIN_STEP ELSE -MIN_STEP}
      BY <2>1 DEF GoodChoice, share
    <2>5. QED
      BY <1>1, <2>3, <2>4 DEF Keeps, MIN_STEP
  <1>4. CASE ratio # 100 /\ ~TotalGoodStep(bw)
    <2>1. choice.step = CDiv(-last_step, 2)
      BY <1>4, ControlAssumption DEF TotalStepChoices, BadChoice
    <2>2. QED
      BY <1>1, <2>1, CHalf DEF Halves
  <1>5. QED
    BY <1>2, <1>3, <1>4

\* What an adjustment is made of.
LEMMA TotalAdjustmentParts ==
  ASSUME IInv, NEW sample \in Bandwidths, TotalCompleteInterval(sample)
  PROVE  \E bw \in Nat \ {0}, change \in Int : \E choice \in TotalStepChoices(bw, change) :
            /\ choice.step \in Int
            /\ cur_bw' = bw
            /\ last_step' = BoundStep(choice.step)
            /\ last_ratio' = ratio
            /\ ratio' = ClampRatio(TotalNextRatio(last_step', bw))
  <1>1. PICK p \in Bandwidths : IntervalEnds(sample, p) /\ TotalAdjust(OneIfZero(p))
    BY DEF TotalCompleteInterval
  <1>2. OneIfZero(p) \in Nat \ {0}
    BY ControlAssumption DEF OneIfZero
  <1>3. ChangeTo(OneIfZero(p)) \in Int
    <2>1. last_bw \in Nat
      BY DEF IInv, TypeOK
    <2>2. QED
      BY <1>2, <2>1, BwChangeType DEF ChangeTo
  <1>4. PICK choice \in TotalStepChoices(OneIfZero(p), ChangeTo(OneIfZero(p))) :
          TakeStep(OneIfZero(p), BoundStep(TotalAccelerate(choice).step),
                   TotalAccelerate(choice).correct,
                   TotalNextRatio(BoundStep(TotalAccelerate(choice).step), OneIfZero(p)))
    BY <1>1 DEF TotalAdjust
  <1>5. TotalAccelerate(choice).step = choice.step
    BY DEF TotalAccelerate, Choice
  <1>6. choice.step \in Int
    BY <1>2, <1>3, TotalStepChoicesType DEF IInv
  <1>7. QED
    BY <1>2, <1>3, <1>4, <1>5, <1>6 DEF TakeStep

LEMMA AdjustedIsInterval ==
  TotalNext /\ Adjusted => \E sample \in Bandwidths : TotalCompleteInterval(sample)
  BY DEF TotalNext, TotalLoop, Sample, WriteNode1, Restart, Adjusted

\* A saturated controller that turns around does so with at most half of the
\* last step, whatever bandwidths it measures.
THEOREM ReversalsSafe == TotalSpec => ReversalsDamped
  <1> DEFINE A == Adjusted /\ cur_bw' >= Cutoff /\ last_step * last_step' < 0
                    => 2 * Abs(last_step') <= Abs(last_step)
  <1>1. ASSUME IInv, TotalNext, Adjusted, cur_bw' >= Cutoff, last_step * last_step' < 0
        PROVE  2 * Abs(last_step') <= Abs(last_step)
    <2>1. PICK sample \in Bandwidths : TotalCompleteInterval(sample)
      BY <1>1, AdjustedIsInterval
    <2>2. PICK bw \in Nat \ {0}, change \in Int : \E choice \in TotalStepChoices(bw, change) :
            /\ choice.step \in Int
            /\ cur_bw' = bw
            /\ last_step' = BoundStep(choice.step)
      BY <1>1, <2>1, TotalAdjustmentParts
    <2>3. PICK choice \in TotalStepChoices(bw, change) :
            /\ choice.step \in Int
            /\ cur_bw' = bw
            /\ last_step' = BoundStep(choice.step)
      BY <2>2
    <2>4. last_step \in Int
      BY <1>1 DEF IInv, TypeOK, IsStep, MAX_STEP
    <2>5. last_step' \in Int /\ Abs(last_step') <= Abs(choice.step)
          /\ (choice.step >= 0 => last_step' >= 0) /\ (choice.step <= 0 => last_step' <= 0)
      BY <2>3, BoundStepShrinks
    <2>6. last_step # 0
      BY <1>1, <2>5
    <2>7. Keeps(choice.step) \/ Halves(choice.step)
      BY <1>1, <2>3, <2>6, SaturatedSteps DEF IInv
    <2>8. CASE Keeps(choice.step)
      <3>1. (last_step > 0 => last_step' >= 0) /\ (last_step < 0 => last_step' <= 0)
        BY <2>5, <2>8 DEF Keeps
      <3>2. last_step * last_step' \in Nat
        BY <2>4, <2>5, <3>1, SameDirection
      <3>3. QED
        BY <1>1, <3>2
    <2>9. CASE Halves(choice.step)
      BY <2>3, <2>4, <2>5, <2>9 DEF Halves, Abs
    <2>10. QED
      BY <2>7, <2>8, <2>9
  <1>2. IInv /\ [TotalNext]_vars => [A]_vars
    BY <1>1
  <1>3. QED
    BY <1>2, InitIInv, TotalIInvInductive, PTL DEF TotalSpec, ReversalsDamped

-----------------------------------------------------------------------------
\* The ratio is the last one moved by the last step: only so does taking the
\* step back lead to the last ratio.
StepTaken == last_bw # 0 /\ last_step # 0 => ratio = ClampRatio(last_ratio + last_step)

LEMMA StepTakenKept == IInv /\ StepTaken /\ [TotalNext]_vars => StepTaken'
  <1> SUFFICES ASSUME IInv, StepTaken, [TotalNext]_vars PROVE StepTaken'
    OBVIOUS
  <1>1. ASSUME NEW sample \in Bandwidths, TotalCompleteInterval(sample) PROVE StepTaken'
    <2>1. PICK bw \in Nat \ {0}, change \in Int : \E choice \in TotalStepChoices(bw, change) :
            /\ last_ratio' = ratio
            /\ ratio' = ClampRatio(TotalNextRatio(last_step', bw))
      BY <1>1, TotalAdjustmentParts
    <2>2. QED
      BY <2>1 DEF StepTaken, TotalNextRatio
  <1>2. CASE \E bw \in Bandwidths : Sample(bw)
    BY <1>2 DEF Sample, statics, StepTaken
  <1>3. CASE WriteNode1
    BY <1>3 DEF WriteNode1, statics, StepTaken
  <1>4. CASE Restart
    BY <1>4 DEF Restart, StepTaken
  <1>5. CASE UNCHANGED vars
    BY <1>5 DEF vars, StepTaken
  <1>6. QED
    BY <1>1, <1>2, <1>3, <1>4, <1>5 DEF TotalNext, TotalLoop

\* A controller that parks because the last step lost bandwidth goes back to
\* the ratio before that step.
THEOREM ParkingSafe == TotalSpec => ParksAtTheBetterRatio
  <1> DEFINE A == Adjusted /\ last_step # 0 /\ last_step' = 0 /\ cur_bw' < last_bw
                      /\ ratio \in 1..99
                    => ratio' = last_ratio
  <1>1. Init => StepTaken
    BY DEF Init, StepTaken
  <1>2. ASSUME IInv, StepTaken, TotalNext, Adjusted, last_step # 0, last_step' = 0,
               cur_bw' < last_bw, ratio \in 1..99
        PROVE  ratio' = last_ratio
    <2>1. PICK sample \in Bandwidths : TotalCompleteInterval(sample)
      BY <1>2, AdjustedIsInterval
    <2>2. PICK bw \in Nat \ {0}, change \in Int : \E choice \in TotalStepChoices(bw, change) :
            /\ cur_bw' = bw
            /\ ratio' = ClampRatio(TotalNextRatio(last_step', bw))
      BY <1>2, <2>1, TotalAdjustmentParts
    <2>3. last_bw \in Nat /\ last_step \in Int /\ last_ratio \in 0..100
      BY <1>2 DEF IInv, TypeOK, IsStep, IsPercent, MAX_STEP
    <2>4. ratio' = ClampRatio(ratio - last_step)
      BY <1>2, <2>2 DEF TotalNextRatio
    <2>5. ratio = ClampRatio(last_ratio + last_step)
      BY <1>2, <2>2, <2>3 DEF StepTaken
    <2>6. ratio = last_ratio + last_step
      BY <1>2, <2>3, <2>5 DEF ClampRatio
    <2>7. QED
      BY <2>3, <2>4, <2>6 DEF ClampRatio
  <1>3. IInv /\ StepTaken /\ [TotalNext]_vars => [A]_vars
    BY <1>2
  <1>4. QED
    BY <1>1, <1>3, InitIInv, TotalIInvInductive, StepTakenKept, PTL
       DEF TotalSpec, ParksAtTheBetterRatio
=============================================================================

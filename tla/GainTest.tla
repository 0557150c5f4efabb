------------------------------- MODULE GainTest -------------------------------
(***************************************************************************)
(* AmplifierControllerTest::TestTask, the test the repository keeps for    *)
(* this code, run on the model: an amplitude just under the lower limit    *)
(* until the level is at its maximum, then one just over the upper limit   *)
(* until it is at its minimum, and again for ever.                         *)
(***************************************************************************)
EXTENDS GainResponse

CONSTANT TickLimit   \* tickOverflowLimit, 501

VARIABLES
  stage,    \* which of the two loops of the test runs
  tick,     \* tick_counter
  failed    \* TickOverflowCallback has been called

testVars == <<observed, stage, tick, failed>>

TestInit == AloneInit /\ stage = "up" /\ tick = 0 /\ failed = FALSE

Reached == IF stage = "up" THEN gain' >= MaxGain ELSE gain' <= MinGain
OtherStage == IF stage = "up" THEN "down" ELSE "up"

Tick ==
  /\ ObservedSample(IF stage = "up" THEN "low" ELSE "high")
  /\ IF gain' # gain
     THEN /\ tick' = 0
          /\ stage' = IF Reached THEN OtherStage ELSE stage
          /\ UNCHANGED failed
     ELSE IF tick >= TickLimit
     THEN /\ failed' = TRUE
          /\ tick' = 0
          /\ stage' = OtherStage
     ELSE /\ tick' = tick + 1
          /\ UNCHANGED <<stage, failed>>

TestSpec == TestInit /\ [][Tick]_testVars

-----------------------------------------------------------------------------
\* The test never reports "tick overflow! Test failed".
TestNeverFails == ~failed
=============================================================================

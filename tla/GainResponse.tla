----------------------------- MODULE GainResponse -----------------------------
(***************************************************************************)
(* GainControl with observers.  One counts the too-low samples in a row    *)
(* that left the sensor's level where it was, below its maximum: the       *)
(* quantity tests/amplifier_controller_tests.hpp counts in tick_counter    *)
(* and fails on.  One counts the too-low samples since the last sample in  *)
(* range, and since the one before it.                                     *)
(***************************************************************************)
EXTENDS GainControl

VARIABLES
  starved,    \* too-low samples in a row that did not raise the level
  lowSince    \* too-low samples since the last and the last but one in range

observed == <<vars, starved, lowSince>>

\* Long enough for any history: at most LowTrigger - 1 samples are lost to a
\* window that was already open, then LowTrigger of them raise the level.
StarvationLimit == 2 * LowTrigger

ResponseInit == Init /\ starved = 0 /\ lowSince = <<0, 0>>

UpToTrigger(n) == IF n < LowTrigger THEN n + 1 ELSE n

ObservedSample(amplitude) ==
  /\ Sample(amplitude)
  /\ starved' = IF amplitude = "low" /\ agcEnabled /\ gain < MaxGain /\ gain' = gain
                THEN IF starved > StarvationLimit THEN starved ELSE starved + 1
                ELSE 0
  /\ lowSince' =
       CASE ~agcEnabled -> lowSince
         [] agcEnabled /\ amplitude = "low" ->
              <<UpToTrigger(lowSince[1]), UpToTrigger(lowSince[2])>>
         [] agcEnabled /\ amplitude = "inRange" -> <<0, lowSince[1]>>
         [] OTHER -> lowSince

\* Any other event starts a new series; the AGC itself does not notice it.
ObservedOther == (Key \/ Life) /\ starved' = 0 /\ UNCHANGED lowSince

\* The amplifier alone, as the test has it: samples and nothing else.
AloneInit ==
  /\ gain = MinGain /\ agcGain = MinGain
  /\ lowCnt = 0 /\ highCnt = 0 /\ sampleCnt = 0
  /\ agcEnabled = TRUE /\ mode = "Normal" /\ phase = "measuring"
  /\ key = NoKey
  /\ starved = 0 /\ lowSince = <<0, 0>>

AloneNext == \E amplitude \in Amplitudes : ObservedSample(amplitude)

\* The amplifier in the meter, with the sensor's life and the keys.
InMeterNext == AloneNext \/ ObservedOther
InMeterSpec == ResponseInit /\ [][InMeterNext]_observed

-----------------------------------------------------------------------------
\* "amplitude too low test, gain should go high": a signal that stays too low
\* raises the level, one step after another, until it is at its maximum.
LowSignalRaisesGain == starved <= StarvationLimit

\* It does when the level the AGC believes in is the controller's: neither a window
\* of samples that was open, nor the counters' history, delays the rise for longer.
KnownLevelRises == agcGain = gain => LowSignalRaisesGain

\* The AGC raises its level only after LowTrigger too-low samples since the last
\* but one sample in range: a signal that is in range now and then never meets a
\* higher level, whatever happened to the counters when the sensor was switched,
\* the AGC turned off or the level changed by hand.
RiseNeedsSteadyLow ==
  [][agcGain' > agcGain => lowSince[2] + 1 >= LowTrigger]_observed
=============================================================================

------------------------------ MODULE OutputStage ------------------------------
(***************************************************************************)
(* What the output of the meter promises to the circuit under test,        *)
(* whatever operations switch it: the supply comes first, then the test    *)
(* signal, then the relay connects them; the relay opens first, then the   *)
(* supply goes off, then the signal; and the output never stays half way.  *)
(***************************************************************************)
VARIABLE stage

Stages == {"off", "powered", "driven", "connected", "draining"}

Init == stage = "off"

Goes(from, to) == stage = from /\ stage' = to

PowerUp == Goes("off", "powered")
Drive == Goes("powered", "driven")
Connect == Goes("driven", "connected")
Disconnect == Goes("connected", "driven")
PowerDown == Goes("driven", "draining")
Silence == Goes("draining", "off")

Next == PowerUp \/ Drive \/ Connect \/ Disconnect \/ PowerDown \/ Silence

Spec ==
  /\ Init /\ [][Next]_stage
  /\ WF_stage(Drive) /\ WF_stage(Connect \/ PowerDown) /\ WF_stage(Silence)
=============================================================================

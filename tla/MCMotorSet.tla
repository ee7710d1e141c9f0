----------------------------- MODULE MCMotorSet -----------------------------
(* Two motors, named alone or together, in order or the other way round.   *)
EXTENDS MotorSet

TwoMotors == {0, 1}
AnyOrder  == {<<0>>, <<1>>, <<0, 1>>, <<1, 0>>}
=============================================================================

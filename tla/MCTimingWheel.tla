--------------------------- MODULE MCTimingWheel ----------------------------
(* TimingWheel for TLC: three small wheels, so that timers of a few ticks    *)
(* use every wheel and both cascades.                                        *)
EXTENDS TimingWheel

FourTicks == <<2, 2>>
EightTicks == <<2, 2, 2>>

OneToFour == {1, 3, 5, 7}   \* 1 to 4 ticks of two units: into every wheel
OneThree == {1, 5}          \* 1 and 3 ticks

Twice == {2}
OnceOrAlways == {1, -1}

SteadySteps == {1, 3}       \* half a tick; a late batch
JumpSteps == {2, 5, -3}     \* a whole tick; more than an int holds; set back

=============================================================================

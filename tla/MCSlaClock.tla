------------------------------- MODULE MCSlaClock -------------------------------
(* SlaClock for TLC: a short and a long SLA, in ticks.                        *)
EXTENDS SlaClock

ShortAndLong == {TicksPerSecond, 3 * TicksPerSecond}
===============================================================================

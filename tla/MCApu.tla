---------------------------- MODULE MCApu ----------------------------
(* Small instances of Apu. *)
EXTENDS Apu

SweepOf(p, n, s) == [period |-> p, negate |-> n, shift |-> s]
SomeSweeps == {SweepOf(1, FALSE, 1), SweepOf(1, TRUE, 1), SweepOf(0, FALSE, 1), SweepOf(2, FALSE, 0)}
EnvelopeOf(i, u, p) == [init |-> i, up |-> u, period |-> p]
SomeEnvelopes == {EnvelopeOf(1, FALSE, 1), EnvelopeOf(1, TRUE, 1)}
Tone(f, l, s) == [frequency |-> f, length_on |-> l, start |-> s]
SomeTones == {Tone(2, TRUE, TRUE), Tone(2, FALSE, TRUE), Tone(1, TRUE, FALSE)}
SomeNoises == [frequency : {2}, width : BOOLEAN, length_on : BOOLEAN, start : BOOLEAN]
SomeWaves == [dimension : BOOLEAN, bank : {0, 1}, dac : BOOLEAN]
SomeLevels == {0, 2}

TwoAndFour == {2, 4}
=============================================================================

-------------------------------- MODULE Drift --------------------------------
(***************************************************************************)
(* The drift controller (actors/drift.rs): a stream of measured deltas     *)
(* (the reference's position minus ours) becomes speed commands and hard   *)
(* seeks.  A speed is written as its distance from 1.0 in units of 1/tau,  *)
(* so that the proportional slew is the delta itself, clamped.             *)
(***************************************************************************)
EXTENDS Integers

CONSTANTS EngageMillis, ReleaseMillis, HardSeekMillis,  \* the bands
          SlewMax,           \* the largest slew
          SlewQuantum,       \* the least change worth a command
          EngageRun,         \* samples in a row before acting
          RecommandSamples   \* samples between two slews

ASSUME DriftBands ==
    /\ ReleaseMillis \in Nat /\ EngageMillis \in Nat /\ HardSeekMillis \in Nat
    /\ 0 < ReleaseMillis /\ ReleaseMillis < EngageMillis /\ EngageMillis <= HardSeekMillis
    /\ SlewMax \in Nat \ {0} /\ SlewQuantum \in Nat
    /\ EngageRun \in Nat \ {0} /\ RecommandSamples \in Nat

Normal == 0   \* speed 1.0
Slews == (-SlewMax)..SlewMax

\* slew = Normal while no correction runs; since stops counting once it no
\* longer matters.
Controller ==
    [slew : Slews, engageRun : 0..(EngageRun - 1), seekRun : 0..(EngageRun - 1), since : 0..RecommandSamples]
IdleController == [slew |-> Normal, engageRun |-> 0, seekRun |-> 0, since |-> 0]

Keep(d) == [controller |-> d, action |-> "none", speed |-> Normal]
SetSpeed(d, s) ==
    [controller |-> [d EXCEPT !.slew = s, !.since = 0, !.engageRun = 0], action |-> "speed", speed |-> s]
HardSeek == [controller |-> IdleController, action |-> "seek", speed |-> Normal]

Clamped(delta) == IF delta > SlewMax THEN SlewMax ELSE IF delta < -SlewMax THEN -SlewMax ELSE delta
Magnitude(n) == IF n < 0 THEN -n ELSE n

\* A sample in the slewing bands, the controller's runs counted.
Correct(d, delta) ==
    IF Magnitude(delta) < ReleaseMillis
    THEN SetSpeed(d, Normal)
    ELSE IF d.slew # Normal /\ (Magnitude(Clamped(delta) - d.slew) < SlewQuantum \/ d.since < RecommandSamples)
    THEN Keep([d EXCEPT !.engageRun = 0])
    ELSE SetSpeed(d, Clamped(delta))

Observe(d0, delta) ==
    LET d == [d0 EXCEPT !.since = IF @ < RecommandSamples THEN @ + 1 ELSE @]
        e == [d EXCEPT !.seekRun = 0]
    IN IF Magnitude(delta) > HardSeekMillis
       THEN IF d.seekRun + 1 >= EngageRun THEN HardSeek ELSE Keep([d EXCEPT !.seekRun = @ + 1])
       ELSE IF d.slew = Normal /\ Magnitude(delta) < EngageMillis
       THEN Keep([e EXCEPT !.engageRun = 0])
       ELSE IF d.slew = Normal /\ d.engageRun + 1 < EngageRun
       THEN Keep([e EXCEPT !.engageRun = @ + 1])
       ELSE Correct(e, delta)
=============================================================================

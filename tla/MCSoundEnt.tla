------------------------------ MODULE MCSoundEnt ------------------------------
(* Small instances of SoundEnt for TLC.                                      *)
EXTENDS SoundEnt, TLC

\* Sounds that expire at once and after one unit of time.
MCDurations == {0, 1}
=============================================================================

-------------------------- MODULE MCFlightRecorder --------------------------
(* Small instances of FlightRecorder for TLC. *)
EXTENDS FlightRecorder

\* A mapping of two blocks and a half, and what may be mapped in its place.
FewMappings == {Range(0, 5), Range(0, 2), Range(2, 5)}
FewOneShots == {{}, {Range(0, 3), Range(2, 5)}}

NoPractices == {}
Again == {"again"}
Race == {"race"}
=============================================================================

---------------------------- MODULE MCRadioClient ----------------------------
(* One station of each kind, opened twice by the user and as often as the  *)
(* timer wants; two threads with three calls between them; two units of    *)
(* audio, so that a metadata block comes between two of them.              *)
EXTENDS RadioClient

MCStation == {"plain", "icy", "hls"}
MCKind == [s \in MCStation |-> s]
MCController == {"window", "keys"}
MCMaxUnits == 2
MCMaxOpens == 2
MCMaxCalls == 3
==============================================================================

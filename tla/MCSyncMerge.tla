----------------------------- MODULE MCSyncMerge -----------------------------
(* Two devices and three changes, which may come from either, be merged in *)
(* any order, one at a time or together, and again until the clocks reach  *)
(* four.  Every clock is below the cutoff.                                 *)
EXTENDS SyncMerge

MCDevice == {1, 2}
MCDeviceId == [d \in MCDevice |-> d]
MCPlayedAt == {1, 2}
MCCutoffClock == 5
MCMaxChanges == 3
MCMaxClock == 4
==============================================================================

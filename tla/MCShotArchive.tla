--------------------------- MODULE MCShotArchive ---------------------------
(* ShotArchive on two scopes: two shots of one, the first on two channels,  *)
(* and one shot of the other; a third shot that is asked for is never taken. *)
EXTENDS ShotArchive

MCScopes == <<"A", "B">>
MCChannels == <<"C1", "C2">>
MCRecorded == {At("A", 1, "C1"), At("A", 2, "C1"), At("A", 1, "C2"), At("B", 1, "C1")}

Series(shots, expected) ==
  [scope |-> "A", channel |-> "C1", shots |-> shots, expected |-> expected]
MCAsks == {Series(<<2, 3, 1>>, 0), Series(<<1, 2>>, 2)}
=============================================================================

--------------------------- MODULE MCDeviceCache ---------------------------
(* Instances of DeviceCache for TLC.                                       *)
EXTENDS DeviceCache

\* Ranges inside a block, across two blocks and over the whole device.
SomeRequests == {<<1, 2>>, <<0, 4>>, <<3, 3>>, <<0, 6>>}
SomeGuesses == <<2, 4>>
=============================================================================

-------------------------------- MODULE MCWire -------------------------------
(* Bytes for the runs of Wire: long runs of 1s from any place on.            *)
EXTENDS Wire

FirstBytes == {{0, 1, 6, 7}, {0, 3, 5, 6}, {0, 5, 6, 7}, {1, 2, 3, 4}}   \* DATA0 IN OUT STALL
Runs == {{}, Bit, Bit \ {0}, Bit \ {1}, Bit \ {2}}
AllClocks == {120, 128, 150, 160, 165, 180, 200}
=============================================================================

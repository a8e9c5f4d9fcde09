-------------------------------- MODULE MCI2c --------------------------------
(* Both libraries, for the runs of I2c.                                      *)
EXTENDS I2c

BothLibraries == {"usi", "bitbang"}
=============================================================================

-------------------------------- MODULE MCLan --------------------------------
EXTENDS Lan
=============================================================================

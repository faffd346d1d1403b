------------------------- MODULE MCInstanceRefresh -------------------------
EXTENDS InstanceRefresh
=============================================================================

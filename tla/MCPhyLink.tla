---------------------------- MODULE MCPhyLink ----------------------------
EXTENDS PhyLink
============================================================================

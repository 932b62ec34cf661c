---------------------------- MODULE MCMacLife ----------------------------
EXTENDS MacLife
============================================================================

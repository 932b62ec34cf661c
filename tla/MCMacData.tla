----------------------------- MODULE MCMacData -----------------------------
EXTENDS MacData
============================================================================

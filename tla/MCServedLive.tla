---------------------------- MODULE MCServedLive ----------------------------
EXTENDS ServedLive
=============================================================================

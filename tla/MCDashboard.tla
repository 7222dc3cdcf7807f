---------------------------- MODULE MCDashboard ----------------------------
\* One tab over a few visibility periods.  One time unit is two and a half seconds
\* of the program's constants, rounded so that their order is kept.
EXTENDS Dashboard
=============================================================================

-------------------------- MODULE MCConnectionServer --------------------------
\* Two remote peers share one slot, a loopback peer has its own; one handler at a
\* time, so that a request can pass the bucket and still find no slot.
EXTENDS ConnectionServer
=============================================================================

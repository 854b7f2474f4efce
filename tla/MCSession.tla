----------------------------- MODULE MCSession ------------------------------
\* Session for TLC.  The constants are numbers and sets of strings, which each
\* configuration gives: N data channels besides the system channel, the faults
\* that may happen, the messages the peer may send, and the bounds MaxTasks of
\* the model's queue and MaxReceives of the receive tasks in flight.
EXTENDS Session
=============================================================================

--------------------------- MODULE MCZoomClient ---------------------------
EXTENDS ZoomClient, TLC

CONSTANTS s1, p1, alice

MCSpeakerOf == p1 :> alice
\* The search for a pause that is never lifted looks only at sessions that go well.
Undisturbed == session.state \notin {"degraded", "stopped"} /\ ~client.closed
=============================================================================

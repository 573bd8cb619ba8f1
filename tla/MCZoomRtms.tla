---------------------------- MODULE MCZoomRtms ----------------------------
EXTENDS ZoomRtms, TLC

CONSTANTS s1, s2, p1, p2, alice, bob

MCSpeakerOf == (p1 :> alice) @@ (p2 :> bob)
=============================================================================

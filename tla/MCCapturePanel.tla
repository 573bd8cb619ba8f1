--------------------------- MODULE MCCapturePanel ---------------------------
EXTENDS CapturePanel
=============================================================================

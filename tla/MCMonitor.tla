----------------------------- MODULE MCMonitor -----------------------------
(* Monitor over a number of frames that its configuration chooses.          *)
EXTENDS Monitor
=============================================================================

--------------------------- MODULE MCCaptureSchedule ---------------------------
(* A small instance of CaptureSchedule for TLC.                            *)
EXTENDS CaptureSchedule

CONSTANTS p, q

MCSlots == <<"train/0", "test/0">>
=============================================================================

----------------------------- MODULE MCUsbMode -----------------------------
(* Passes of 0 or 1 ms against a debounce of 2 ms, on a clock that wraps     *)
(* every 4 ms, and epochs that wrap every 2 changes.                         *)
EXTENDS UsbMode
=============================================================================

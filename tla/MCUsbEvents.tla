----------------------------- MODULE MCUsbEvents -----------------------------
EXTENDS UsbEvents

CONSTANTS s1, loop, m1, home
=============================================================================

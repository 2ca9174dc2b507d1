---------------------------- MODULE MCUsbDevices -----------------------------
EXTENDS UsbDevices

CONSTANTS theHub, theStick, c1

\* A hub and a device on it.
Tree == [d \in {theHub, theStick} |-> IF d = theStick THEN theHub ELSE "none"]
=============================================================================

--------------------------- MODULE MCUsbTransfers ---------------------------
EXTENDS UsbTransfers

CONSTANTS t1, t2

\* A split transfer with a time-out, bulk or isochronous, against a control
\* transfer that waits for ever.
SplitAndControl ==
    (t1 :> {<<"BULK", 1>>, <<"ISOCHRONOUS", 1>>}) @@ (t2 :> {<<"CONTROL", 0>>})

\* Three URBs: the first fails, and of the other two each may overtake the other.
UrbsThree == [k \in Types |-> CASE k = "CONTROL" -> 1 [] k = "ISOCHRONOUS" -> 2 [] k = "BULK" -> 3]
=============================================================================

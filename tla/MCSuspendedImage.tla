------------------------- MODULE MCSuspendedImage -------------------------
\* Two explicit stops, two events to take in each and four reports: enough for
\* a stop that gives up at its limit, a retry, and the destructor's own stop.
EXTENDS SuspendedImage
=============================================================================

---- MODULE MCCausalPair ----
EXTENDS CausalPair

\* Telemetry is sent at 6, 12, 18, ...  The first contact of Late ends at 25, right
\* after the telemetry of 24, when its frame is still in flight.  The first contact
\* of Early lasts the 20 ticks that SP-2 needs, but its pass in the schedule only 19.
Late == 3..24 \cup 33..56
Early == 3..22 \cup 27..48 \cup 57..74
\* The first contact of OnTick ends at 24 itself: the satellite offers the observation
\* of that instant as a target, and the link drops it.
OnTick == 3..23 \cup 33..56
AllSkies == {Late, Early, OnTick}
=============================

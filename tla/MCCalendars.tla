---------------------------- MODULE MCCalendars ----------------------------
(* Stretches around the epochs, the year 0, ends of centuries and the present. *)
EXTENDS CalendarWalk

MCStarts == {-1373800, -272900, -1500, -200, 2700, 103500, 226900, 577700, 693500,
             729900, 732000, 737000, 742900}
============================================================================

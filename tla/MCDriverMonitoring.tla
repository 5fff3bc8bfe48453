-------------------------- MODULE MCDriverMonitoring --------------------------
\* Five units of awareness: vision uses two of them in a frame, the wheel one.  One thing at a time
\* is special about the car.
EXTENDS DriverMonitoring

MCInputs ==
  {i \in InputRecord : (i.driver_engaged => ~i.lowspeed) /\ (i.driver_engaged \/ i.lowspeed => ~i.wrong_gear)}

MCFloor  == -1
MCStep   == [vision |-> 2, wheeltouch |-> 1]
MCAlert1 == [vision |-> 3, wheeltouch |-> 3]
MCAlert2 == [vision |-> 2, wheeltouch |-> 2]
MCTimes  == <<2>>
=============================================================================

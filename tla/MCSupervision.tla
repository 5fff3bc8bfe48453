---------------------------- MODULE MCSupervision ----------------------------
\* A process of each kind, in the order of process_config.py.
EXTENDS Supervision

MCOrder == <<"ui", "calibrationd", "dmonitoringd">>
=============================================================================

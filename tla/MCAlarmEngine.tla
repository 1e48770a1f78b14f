----------------------------- MODULE MCAlarmEngine -----------------------------
\* The engine's statuses for TLC: a task may move from the first listed to the
\* second and back; "broken", the third, adds nothing new.
EXTENDS AlarmEngine

MCStatuses == <<"running", "failed">>
===============================================================================

--------------------------- MODULE MCOsdTelemetry ---------------------------
(***************************************************************************)
(* The OSD on small instances: the queue is shorter than the longest run   *)
(* of items one message produces, so that the MAVLink thread has to wait.  *)
(***************************************************************************)
EXTENDS OsdTelemetry

MCPositions == {"p1", "p2"}

ArmMessages ==
  {[msgid |-> "HEARTBEAT", arm |-> a] : a \in {0, 1}}
    \cup {[msgid |-> "STATUSTEXT"], [msgid |-> "PLAIN", ids |-> <<"E_BATTERY", "E_CURRENT">>]}

AllMessages ==
  ArmMessages \cup
  {[msgid |-> t, pos |-> p] : t \in {"GPS_RAW_INT", "GLOBAL_POSITION_INT"},
                              p \in MCPositions}
    \cup {[msgid |-> "HOME_POSITION", pos |-> "p1"]}
=============================================================================

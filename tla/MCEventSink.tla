---------------------------- MODULE MCEventSink ----------------------------
(* Instances of EventSink for TLC. *)
EXTENDS EventSink

CONSTANTS hangup, dtmf, dtmf2, d1, d2

\* event-filter=SWITCH_EVENT_ALL: one entry that matches everything.  The hangup is
\* delivered to it and to the CDR node.
AllFilter == << Event >>
=============================================================================

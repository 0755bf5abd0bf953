-------------------------- MODULE MCMonitorControl --------------------------
(* The instance of MonitorControl that TLC checks. *)
EXTENDS MonitorControl

MCBits == {"DOWN", "ENCRYPT", "LOCKDOWN", "WIPE"}

Change(grade, verb) == [grade |-> grade, verb |-> verb]

(* Raising and lowering, one entry and two, and one whose second entry fails. *)
MCEdits ==
    {<<Change("watch", "lockdown")>>, <<Change("watch", "observe")>>, <<Change("stop", "down")>>,
     <<Change("watch", "down"), Change("stop", "lockdown")>>,
     <<Change("quarantine", "reboot"), Change("unknown", "down")>>}

(* Some verbs, fewer, and a caller without limits, who has the verb of no grade too. *)
MCCapabilities ==
    {{"observe", "down", "lockdown", "reboot"}, {"observe", "lockdown"},
     {"observe", "down", "lockdown", "reboot", "secure_reboot", NoVerb}}

Terms(ts, ttl, expiry) == [ts |-> ts, ttl |-> ttl, expiry |-> expiry]

(* Nothing said; a time and a life of its own; an expiry, beside a life it overrides. *)
MCVoteTerms ==
    {Terms(Unset, Unset, Unset), Terms(1, 0, Unset), Terms(Unset, 0, 2)}
=============================================================================

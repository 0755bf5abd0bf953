--------------------------- MODULE MonitorControl ---------------------------
(***************************************************************************)
(* The components of the monitor that decide: network, place, isolate,     *)
(* policy and respond.  They share one thing, the table of rejects, so     *)
(* that a behaviour of this module exercises one of them, over a table in  *)
(* which tickets may have been rejected before.                            *)
(***************************************************************************)
EXTENDS MonitorNetwork, MonitorPlace, MonitorIsolate, MonitorPolicy, MonitorRespond

VARIABLE exercised   \* the component that this behaviour exercises

Components == {"network", "place", "isolate", "policy", "respond"}

controlVars ==
    <<exercised, rejected, netVars, placeVars, isolateVars, policyVars, respondVars>>

ControlInit ==
    /\ exercised \in Components
    /\ rejected \in [Tickets -> {NoReject, "ipc"}]
    /\ NetInit /\ PlaceInit /\ IsolateInit /\ PolicyInit /\ RespondInit

ControlNext ==
    /\ UNCHANGED exercised
    /\ \/ /\ exercised = "network" /\ NetNext
          /\ UNCHANGED <<placeVars, isolateVars, policyVars, respondVars>>
       \/ /\ exercised = "place" /\ PlaceNext
          /\ UNCHANGED <<netVars, isolateVars, policyVars, respondVars>>
       \/ /\ exercised = "isolate" /\ IsolateNext
          /\ UNCHANGED <<netVars, placeVars, policyVars, respondVars>>
       \/ /\ exercised = "policy" /\ PolicyNext
          /\ UNCHANGED <<netVars, placeVars, isolateVars, respondVars>>
       \/ /\ exercised = "respond" /\ RespondNext
          /\ UNCHANGED <<netVars, placeVars, isolateVars, policyVars>>

ControlSpec == ControlInit /\ [][ControlNext]_controlVars
=============================================================================

---------------------------- MODULE GatewayState ----------------------------
(***************************************************************************)
(* What the Gateway of Green Roomz holds beside its turns (module ChatTurn)*)
(* and its processes (module ProcessManager): the session ledger, and the  *)
(* three sinks of observeHop, the mailbox, the monitor's rings and the     *)
(* audit log.  Every hop of a turn goes to the three at once; each then    *)
(* drains, writes and fails at its own pace.                               *)
(*                                                                         *)
(* The ledger shares no state with the sinks, and the monitor's other      *)
(* callers none with the mailbox and the log, so that a behaviour of this  *)
(* module exercises one of three parts: interleaving steps of parts that   *)
(* share nothing shows nothing more.                                       *)
(***************************************************************************)
EXTENDS Mailbox, MonitorIpc, AuditLog, SessionLedger

CONSTANT GatewayCaller   \* the rights and the role the gateway gives its MonitorIpc

VARIABLE part            \* the part that this behaviour exercises

gatewayVars == <<part, boxVars, ipcVars, logVars, ledgerVars>>

GatewayInit ==
    /\ part \in {"hops", "monitor", "sessions"}
    /\ BoxInit
    /\ IpcInit
    /\ LogInit
    /\ LedgerInit

(* Gateway.observeHop, called by a turn and not by a listener.  A sink that throws
   does not keep the hop from the others; none of the three throws here. *)
ObserveHopEverywhere(t) ==
    /\ drains = << >>
    /\ PushEvent
    /\ ObserveHop(GatewayCaller, t)
    /\ Emit

(* The sinks by themselves, and a listener of the mailbox that pushes to it. *)
Sinks ==
    \/ /\ \/ drains # << >> /\ PushEvent
          \/ ScheduledDrain \/ CallDrain \/ TakeNext \/ CallListener \/ EndDrain
       /\ UNCHANGED <<ipcVars, logVars>>
    \/ (BeginWrite \/ WriteSucceeds \/ WriteFails) /\ UNCHANGED <<boxVars, ipcVars>>
    \/ ScheduledIpcDrain /\ UNCHANGED <<boxVars, logVars>>

GatewayNext ==
    /\ UNCHANGED part
    /\ \/ /\ part = "hops"
          /\ (\E t \in Tickets : ObserveHopEverywhere(t)) \/ Sinks
          /\ UNCHANGED ledgerVars
       \/ part = "monitor" /\ IpcNext /\ UNCHANGED <<boxVars, logVars, ledgerVars>>
       \/ part = "sessions" /\ LedgerNext /\ UNCHANGED <<boxVars, ipcVars, logVars>>

GatewaySpec == GatewayInit /\ [][GatewayNext]_gatewayVars
=============================================================================

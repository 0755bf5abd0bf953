---------------------------- MODULE RejectCache ----------------------------
(***************************************************************************)
(* makeReject of monitor/states.mjs: one table for the whole monitor, from *)
(* the ticket of a call to the reject it was answered with.  The first     *)
(* reject of a ticket is the answer to every later one, of whichever       *)
(* component.  Of the envelope, who made it is kept; reasons, targets and  *)
(* what decorateReject adds for the caller are left out.  A call without a *)
(* ticket is cached under a key made of what it asked for, as a ticket of  *)
(* its own.                                                                *)
(***************************************************************************)
CONSTANTS
    Tickets,    \* tickets of calls
    NoReject    \* no entry

VARIABLE rejected   \* rejectsByTicket: ticket -> the component that rejected it, or NoReject

Reject(ticket, component) ==
    rejected' = IF rejected[ticket] = NoReject
                THEN [rejected EXCEPT ![ticket] = component]
                ELSE rejected
=============================================================================

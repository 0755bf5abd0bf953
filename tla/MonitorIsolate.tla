--------------------------- MODULE MonitorIsolate ---------------------------
(***************************************************************************)
(* monitor/isolate.mjs: what subjects are granted and what they have       *)
(* mapped, two tables of bit masks, here sets of bits.  Calls that throw   *)
(* (a role that may not call, the verbs lockdown, reboot, secure_reboot)   *)
(* change nothing and are left out.                                        *)
(***************************************************************************)
EXTENDS RejectCache, FiniteSets

CONSTANTS
    Subjects,     \* whom rights are given to
    SelfDenied,   \* SELF_GRANT_DENIED
    Bits          \* the bits of ISO_CAP that calls ask for

VARIABLES
    granted,      \* subject -> set of bits
    mapped        \* subject -> set of bits

isolateVars == <<granted, mapped>>

LockdownMask == {"LOCKDOWN", "REBOOT", "SECURE_REBOOT", "WIPE"}
OutOfVersion == {"ENCRYPT", "WIPE"}

IsolateInit ==
    /\ granted = [s \in Subjects |-> {}]
    /\ mapped = [s \in Subjects |-> {}]

(* The rejects common to the calls: a missing capability (for map also without
   AID_ROOT), encryption and wiping, by name or by bit. *)
IsolateRefuses(bits, byVerb, capable) ==
    ~capable \/ byVerb \/ bits \cap OutOfVersion # {}

DeniesSelf(subject, bits) == subject \in SelfDenied /\ bits \cap LockdownMask # {}

OrBits(table, subject, bits) == [table EXCEPT ![subject] = table[subject] \cup bits]

IsolateReject(ticket) == Reject(ticket, "isolate") /\ UNCHANGED isolateVars

Grant(subject, bits, byVerb, capable, ticket) ==
    IF IsolateRefuses(bits, byVerb, capable) \/ DeniesSelf(subject, bits)
    THEN IsolateReject(ticket)
    ELSE /\ granted' = OrBits(granted, subject, bits)
         /\ UNCHANGED <<mapped, rejected>>

(* Mutant: mapping does not grant. *)
MapOnly(subject, bits, byVerb, capable, ticket) ==
    IF IsolateRefuses(bits, byVerb, capable) \/ DeniesSelf(subject, bits)
    THEN IsolateReject(ticket)
    ELSE /\ mapped' = OrBits(mapped, subject, bits)
         /\ UNCHANGED <<granted, rejected>>

Map(subject, bits, byVerb, capable, ticket) ==
    IF IsolateRefuses(bits, byVerb, capable) \/ DeniesSelf(subject, bits)
    THEN IsolateReject(ticket)
    ELSE /\ granted' = OrBits(granted, subject, bits)
         /\ mapped' = OrBits(mapped, subject, bits)
         /\ UNCHANGED rejected

(* Without bits everything is unmapped.  What is granted stays granted. *)
Unmap(subject, bits, byVerb, capable, ticket) ==
    IF IsolateRefuses(bits, byVerb, capable)
    THEN IsolateReject(ticket)
    ELSE /\ mapped' = [mapped EXCEPT ![subject] =
                          IF bits = {} THEN {} ELSE mapped[subject] \ bits]
         /\ UNCHANGED <<granted, rejected>>

(* encrypt(), wipe(), and apply() of a verb that is none of the three calls. *)
IsolateOther(ticket) == IsolateReject(ticket)

IsolateNext ==
    \E ticket \in Tickets :
        \/ \E subject \in Subjects, bits \in SUBSET Bits, byVerb, capable \in BOOLEAN :
              \/ Grant(subject, bits, byVerb, capable, ticket)
              \/ Map(subject, bits, byVerb, capable, ticket)
              \/ Unmap(subject, bits, byVerb, capable, ticket)
        \/ IsolateOther(ticket)

(* Whatever is granted, mapped and unmapped: what is mapped was granted, nobody
   holds encryption or wiping, and those who answer for others never hold a right
   of the reboot class. *)
RightsBounded ==
    \A s \in Subjects :
        /\ mapped[s] \subseteq granted[s]
        /\ granted[s] \cap OutOfVersion = {}
        /\ s \in SelfDenied => granted[s] \cap LockdownMask = {}
=============================================================================

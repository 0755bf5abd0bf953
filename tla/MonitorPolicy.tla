--------------------------- MODULE MonitorPolicy ---------------------------
(***************************************************************************)
(* monitor/policy.mjs: the map from threat grades to verbs, in the two     *)
(* versions the code keeps (what was asked for, and what is in force), and *)
(* the labels.  Every answer is advisory and executes nothing.  Calls that *)
(* the caller's role forbids throw and are left out.                       *)
(***************************************************************************)
EXTENDS RejectCache, Integers, Sequences, FiniteSets

CONSTANTS
    Labels,           \* names that are labelled
    Edits,            \* edits of the map: sequences of a grade and a verb, no grade twice
    Capabilities,     \* sets of verbs that a caller may be capable of
    NonGatewayRespond \* hasNon8080Respond: there is a respond process of its own

ASSUME PolicyAssumption ==
    \A edit \in Edits : \A i, j \in DOMAIN edit : edit[i].grade = edit[j].grade => i = j

VARIABLES
    activeMap,        \* grade -> verb in force
    intendedMap,      \* grade -> verb asked for
    labels            \* label -> grade, or "none"

policyVars == <<activeMap, intendedMap, labels>>

RebootClass == {"lockdown", "reboot", "secure_reboot"}
GradeVerb ==
    [watch |-> "observe", quarantine |-> "down", stop |-> "lockdown", wipe |-> "secure_reboot"]
Grades == DOMAIN GradeVerb
UnknownGrade == "unknown"
NoGrade == ""              \* an empty name: label() takes it for a grade, check() does not
NoVerb == "undefined"      \* what the table of verbs has for it

PolicyInit ==
    /\ activeMap = GradeVerb
    /\ intendedMap = GradeVerb
    /\ labels = [l \in Labels |-> "none"]

(* The entries of an edit are taken in turn up to the first that is rejected; those
   before it stay. *)
Rejected(entry, capable) == entry.grade \notin Grades \/ entry.verb \notin capable

Taken(entries, capable) ==
    {i \in DOMAIN entries : \A j \in 1..i : ~Rejected(entries[j], capable)}

(* A verb of the reboot class is asked for, but comes into force only with a respond
   process of its own. *)
Inert(verb) == verb \in RebootClass /\ ~NonGatewayRespond

Edited(table, entries, positions) ==
    [g \in Grades |->
        IF \E i \in positions : entries[i].grade = g
        THEN entries[CHOOSE i \in positions : entries[i].grade = g].verb
        ELSE table[g]]

(* Mutant: the edit is noted as asked for before it is checked. *)
EditMapEarly(entries, capable, ticket) ==
    LET taken == Taken(entries, capable)
        noted == {i \in DOMAIN entries : entries[i].grade \in Grades} IN
    /\ intendedMap' = Edited(intendedMap, entries, noted)
    /\ activeMap' = Edited(activeMap, entries, {i \in taken : ~Inert(entries[i].verb)})
    /\ IF taken = DOMAIN entries THEN UNCHANGED rejected ELSE Reject(ticket, "policy")
    /\ UNCHANGED labels

EditMap(entries, capable, ticket) ==
    LET taken == Taken(entries, capable) IN
    /\ intendedMap' = Edited(intendedMap, entries, taken)
    /\ activeMap' = Edited(activeMap, entries, {i \in taken : ~Inert(entries[i].verb)})
    /\ IF taken = DOMAIN entries THEN UNCHANGED rejected ELSE Reject(ticket, "policy")
    /\ UNCHANGED labels

VerbOf(grade) == IF grade \in Grades THEN GradeVerb[grade] ELSE NoVerb

Label(l, grade, capable, ticket) ==
    IF grade \notin Grades \cup {NoGrade} \/ VerbOf(grade) \notin capable
    THEN Reject(ticket, "policy") /\ UNCHANGED policyVars
    ELSE labels' = [labels EXCEPT ![l] = grade] /\ UNCHANGED <<activeMap, intendedMap, rejected>>

(* check() of a posted grade: with what was asked for, not with what is in force. *)
CheckRejects(grade, capable, ticket) ==
    /\ grade \in Grades => intendedMap[grade] \notin capable
    /\ Reject(ticket, "policy")
    /\ UNCHANGED policyVars

PolicyNext ==
    \E ticket \in Tickets, capable \in Capabilities :
        \/ \E edit \in Edits : EditMap(edit, capable, ticket)
        \/ \E grade \in Grades \cup {UnknownGrade, NoGrade} :
              \/ \E l \in Labels : Label(l, grade, capable, ticket)
              \/ CheckRejects(grade, capable, ticket)

(* After any edits, those too that fail half way: a grade whose verb in force is not
   the one asked for was asked a verb of the reboot class that stays inert. *)
ActiveFollowsIntended ==
    \A g \in Grades :
        activeMap[g] # intendedMap[g] => Inert(intendedMap[g])
=============================================================================

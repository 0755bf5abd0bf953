--------------------------- MODULE MonitorRespond ---------------------------
(***************************************************************************)
(* monitor/respond.mjs: votes of replicas and peers on a response, and     *)
(* their tally.  Votes travel as messages: the model lets a vote that was  *)
(* cast arrive at any later time, any number of times and in any order,    *)
(* also at a process started since.  A tally changes nothing, and judges   *)
(* at the moment its caller names; lockdown, reboot, secure_reboot and     *)
(* halt are always rejected in this version.                               *)
(***************************************************************************)
EXTENDS RejectCache, Integers, FiniteSets

CONSTANTS
    Voters,
    VoteDomains,   \* those of the domains that votes are cast in
    RespondVerbs,  \* verbs that are voted on
    VoteTickets,   \* tickets of the votes
    Replicas,      \* replicaCount
    VoteTerms,     \* what a vote may say of time: its ts, ttlMs and expiry, each or Unset
    VoteTtl,       \* voteTtlMs in ticks, or Unset (the default: votes live on)
    BootIds,       \* the boot ids that an instance may have
    FirstBoot,     \* the boot id of the first instance of a process: u64(0xB007, 1)
    MaxTime,       \* bound of the model: ticks of the clock
    MaxCast        \* bound of the model: votes cast

Unset == -1             \* the vote, or the instance, leaves it out

ASSUME RespondAssumption ==
    /\ IsFiniteSet(Voters)
    /\ Replicas \in Nat \ {0}
    /\ VoteTerms \subseteq [ts : Nat \cup {Unset}, ttl : Nat \cup {Unset}, expiry : Nat \cup {Unset}]
    /\ VoteTtl \in Nat \cup {Unset}
    /\ FirstBoot \in BootIds
    /\ MaxTime \in Nat
    /\ MaxCast \in Nat
    /\ VoteDomains \subseteq {"localReplica", "livePeer", "localEmergency"}

VARIABLES
    boot,      \* bootId of the instance
    time,      \* monotonicNow
    cast,      \* the votes cast so far, by anybody; all of them may still arrive
    votes      \* votes: the records stored, one for each key, with their ts

respondVars == <<boot, time, cast, votes>>

Rebooting == {"lockdown", "reboot", "secure_reboot"}
Any == "any"            \* no verb, or no ticket, is named in a tally
Moments == 0..MaxTime + 1   \* that a tally may be asked for

Vote == [domain : VoteDomains, verb : RespondVerbs, voter : Voters, ticket : VoteTickets,
         boot : BootIds, terms : VoteTerms]

(* A record has the ts that its vote carries, or the time at which the vote came. *)
RespondTypeOK ==
    /\ boot \in BootIds
    /\ time \in 0..MaxTime
    /\ cast \subseteq Vote
    /\ \A record \in votes :
        /\ record.vote \in cast
        /\ IF record.vote.terms.ts # Unset THEN record.ts = record.vote.terms.ts
           ELSE record.ts \in 0..time

RespondInit ==
    /\ boot = FirstBoot
    /\ time = 0
    /\ cast = {}
    /\ votes = {}

-----------------------------------------------------------------------------
(* voteKey. *)
SameKey(v, w) ==
    /\ v.domain = w.domain
    /\ v.verb = w.verb
    /\ v.voter = w.voter
    /\ v.ticket = w.ticket

(* How long a vote lives: as it says, or else as the instance lets it. *)
Life(vote) == IF vote.terms.ttl # Unset THEN vote.terms.ttl ELSE VoteTtl

(* isExpired: a vote ends at its own expiry, or else when its life is over, if ever. *)
Expired(record, now) ==
    IF record.vote.terms.expiry # Unset THEN now >= record.vote.terms.expiry
    ELSE Life(record.vote) # Unset /\ now - record.ts > Life(record.vote)

(* A replica or a peer votes, with whatever boot id it knows. *)
CastVote(vote) ==
    /\ Cardinality(cast) < MaxCast
    /\ cast' = cast \cup {vote}
    /\ UNCHANGED <<boot, time, votes, rejected>>

(* vote() of a well-formed vote: one that carries another boot id is rejected, one
   with the key of a stored vote changes nothing, even if that vote has expired.  A
   vote that does not say when it was cast is taken to be cast when it comes. *)
ReceiveVote(vote) ==
    LET stamp == IF vote.terms.ts # Unset THEN vote.terms.ts ELSE time IN
    IF vote.boot # boot
    THEN Reject(vote.ticket, "respond") /\ UNCHANGED respondVars
    ELSE /\ votes' = IF \E record \in votes : SameKey(record.vote, vote) THEN votes
                     ELSE votes \cup {[vote |-> vote, ts |-> stamp]}
         /\ UNCHANGED <<boot, time, cast, rejected>>

(* vote() without a domain, a boot id or the capability; tally() of an unknown
   domain; and every call of lockdown, reboot, secure_reboot and halt, by whom
   and on whatever target. *)
RespondRejects(ticket) == Reject(ticket, "respond") /\ UNCHANGED respondVars

(* createRespond, in a process started anew or once more in the same one.  The boot id
   is the one it is given, or the next of a counter that starts over with the process:
   a process started anew has the same id again, and takes the votes cast for it. *)
Restart ==
    /\ \E id \in BootIds : boot' = id
    /\ votes' = {}
    /\ UNCHANGED <<time, cast, rejected>>

Elapse == time < MaxTime /\ time' = time + 1 /\ UNCHANGED <<boot, cast, votes, rejected>>

RespondNext ==
    \/ \E vote \in Vote : CastVote(vote)
    \/ \E vote \in cast : ReceiveVote(vote)
    \/ \E ticket \in Tickets : RespondRejects(ticket)
    \/ Restart
    \/ Elapse

-----------------------------------------------------------------------------
(* tally(): the records it matches, the voters it counts, and what it reports. *)
Asked(vote, domain, verb, ticket) ==
    /\ vote.domain = domain
    /\ verb = Any \/ vote.verb = verb
    /\ ticket = Any \/ vote.ticket = ticket

Matched(domain, verb, ticket, now) ==
    {record \in votes :
        /\ Asked(record.vote, domain, verb, ticket)
        /\ record.vote.boot = boot
        /\ ~Expired(record, now)}

(* Mutant: every record counts. *)
CountRecords(domain, verb, ticket, now) == Cardinality(Matched(domain, verb, ticket, now))

Count(domain, verb, ticket, now) ==
    Cardinality({record.vote.voter : record \in Matched(domain, verb, ticket, now)})

CannotSelfMajority(domain, verb) ==
    verb \in Rebooting /\ domain = "localReplica" /\ Replicas < 2

Reached(domain, verb, ticket, quorum, now) ==
    ~CannotSelfMajority(domain, verb) /\ Count(domain, verb, ticket, now) >= quorum

(* By what a vote says of itself it is still good at a moment.  One that does not say
   when it was cast can only be asked to have come by now. *)
GoodAt(vote, now) ==
    IF vote.terms.expiry # Unset THEN now < vote.terms.expiry
    ELSE \/ Life(vote) = Unset
         \/ now - (IF vote.terms.ts # Unset THEN vote.terms.ts ELSE time) <= Life(vote)

(* Who cast what a tally asks for under this boot id, by a vote still good at the moment. *)
GoodVoters(domain, verb, ticket, now) ==
    {v \in Voters : \E vote \in cast :
        /\ vote.voter = v
        /\ Asked(vote, domain, verb, ticket)
        /\ vote.boot = boot
        /\ GoodAt(vote, now)}

(* However late, often and out of order votes arrive and however the process is
   restarted meanwhile, at whatever moment a tally is asked for: a quorum that is
   reported is one of as many different voters, each of whom cast what is asked for
   under this boot id, by a vote that is still good at that moment; and one replica
   alone never carries a verb of the reboot class. *)
QuorumIsReal ==
    \A domain \in VoteDomains, verb \in RespondVerbs \cup {Any}, ticket \in VoteTickets \cup {Any},
       quorum \in 1..Cardinality(Voters) + 1, now \in Moments :
        Reached(domain, verb, ticket, quorum, now) =>
            /\ Cardinality(GoodVoters(domain, verb, ticket, now)) >= quorum
            /\ domain = "localReplica" /\ verb \in Rebooting => Replicas > 1
=============================================================================

------------------------------ MODULE AuditLog ------------------------------
(***************************************************************************)
(* monitor/logger.mjs: records are written one after the other, each       *)
(* carrying the hash of the one before.  A write is asynchronous and may   *)
(* fail; a record that cannot be written, and every record beyond          *)
(* MAX_IN_FLIGHT, is dropped.  A record's body is the number of its emit;  *)
(* a hash stands for what it is computed from, the bodies up to its own.   *)
(***************************************************************************)
EXTENDS Integers, Sequences

CONSTANTS
    MaxInFlight,   \* MAX_IN_FLIGHT
    MaxEmits       \* bound of the model: calls of emit

ASSUME LogAssumption == MaxInFlight \in Nat \ {0} /\ MaxEmits \in Nat

VARIABLES
    emits,      \* calls of emit so far
    inFlight,   \* inFlight
    tail,       \* the emits that wait for the tail of the promise chain
    writing,    \* the record being written, or NoRecord
    logSeq,     \* seq of the last record written
    prev,       \* its hash
    chain       \* the records written

logVars == <<emits, inFlight, tail, writing, logSeq, prev, chain>>

Genesis == << >>
NoRecord == [seq |-> 0]
Record(body) ==
    [seq |-> logSeq + 1, body |-> body, prev |-> prev, hash |-> Append(prev, body)]

LogInit ==
    /\ emits = 0
    /\ inFlight = 0
    /\ tail = << >>
    /\ writing = NoRecord
    /\ logSeq = 0
    /\ prev = Genesis
    /\ chain = << >>

(* A flood is dropped and never waited for. *)
Emit ==
    /\ emits < MaxEmits
    /\ emits' = emits + 1
    /\ IF inFlight >= MaxInFlight
       THEN UNCHANGED <<inFlight, tail>>
       ELSE inFlight' = inFlight + 1 /\ tail' = Append(tail, emits + 1)
    /\ UNCHANGED <<writing, logSeq, prev, chain>>

(* Mutant: sequence number and hash advance before the write is known to be good. *)
BeginAdvancing ==
    /\ writing = NoRecord
    /\ tail # << >>
    /\ writing' = Record(Head(tail))
    /\ tail' = Tail(tail)
    /\ logSeq' = logSeq + 1
    /\ prev' = Record(Head(tail)).hash
    /\ UNCHANGED <<emits, inFlight, chain>>

(* run(): the record is made when its turn has come. *)
BeginWrite ==
    /\ writing = NoRecord
    /\ tail # << >>
    /\ writing' = Record(Head(tail))
    /\ tail' = Tail(tail)
    /\ UNCHANGED <<emits, inFlight, logSeq, prev, chain>>

EndWrite == writing # NoRecord /\ writing' = NoRecord /\ inFlight' = inFlight - 1

WriteSucceeds ==
    /\ EndWrite
    /\ logSeq' = writing.seq
    /\ prev' = writing.hash
    /\ chain' = Append(chain, writing)
    /\ UNCHANGED <<emits, tail>>

WriteFails == EndWrite /\ UNCHANGED <<emits, tail, logSeq, prev, chain>>

LogNext == Emit \/ BeginWrite \/ WriteSucceeds \/ WriteFails

LogSpec == LogInit /\ [][LogNext]_logVars

-----------------------------------------------------------------------------
(* Whichever writes fail or are dropped, verifyChain holds of the records written:
   numbered without a gap, each with the hash of the one before, in the order of
   their emits. *)
ChainContinuous ==
    \A i \in 1..Len(chain) :
        /\ chain[i].seq = i
        /\ chain[i].prev = (IF i = 1 THEN Genesis ELSE chain[i - 1].hash)
        /\ i > 1 => chain[i - 1].body < chain[i].body

(* What counts against MAX_IN_FLIGHT is what waits or is being written: failed
   writes give their place back, and the log cannot end up refusing everything. *)
FlightCounted ==
    /\ inFlight = Len(tail) + (IF writing = NoRecord THEN 0 ELSE 1)
    /\ inFlight <= MaxInFlight
=============================================================================

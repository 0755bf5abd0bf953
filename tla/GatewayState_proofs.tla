------------------------- MODULE GatewayState_proofs -------------------------
(***************************************************************************)
(* Proofs about GatewayState for any number of turns, sessions, events,    *)
(* listeners and records, and any capacity.  The gateway's steps are steps *)
(* of each of its parts or leave it alone, so that what is proved of the   *)
(* audit log, of the session ledger, of the mailbox and of the monitor's   *)
(* rings holds in it.                                                      *)
(***************************************************************************)
EXTENDS GatewayState, FiniteSetTheorems, SequenceTheorems, WellFoundedInduction, TLAPS

(* The audit log.  LastBody is the emit of the newest record; everything that waits
   comes after what is being written, and that after what was written. *)
LogRecord == [seq : Nat, body : Nat, prev : Seq(Nat), hash : Seq(Nat)]

Writing == writing # NoRecord

LogTypes ==
    /\ emits \in Nat /\ inFlight \in Nat /\ logSeq \in Nat
    /\ tail \in Seq(Nat) /\ prev \in Seq(Nat) /\ chain \in Seq(LogRecord)
    /\ Writing => writing \in LogRecord

Chained ==
    /\ logSeq = Len(chain)
    /\ prev = (IF Len(chain) = 0 THEN Genesis ELSE chain[Len(chain)].hash)
    /\ Writing => writing.seq = logSeq + 1 /\ writing.prev = prev

LastBody == IF Len(chain) = 0 THEN 0 ELSE chain[Len(chain)].body

InOrder ==
    /\ \A i \in 1..Len(tail) : tail[i] > LastBody /\ tail[i] <= emits
    /\ \A i, j \in 1..Len(tail) : i < j => tail[i] < tail[j]
    /\ Writing => /\ writing.body > LastBody /\ writing.body <= emits
                  /\ \A i \in 1..Len(tail) : writing.body < tail[i]
    /\ LastBody <= emits

LogInv == LogTypes /\ Chained /\ InOrder /\ ChainContinuous /\ FlightCounted

(* The emit of the last record written is a number, 0 when there is none. *)
LEMMA LastBodyIsNat ==
    ASSUME LogTypes
    PROVE  LastBody \in Nat
<1>1. CASE Len(chain) = 0 BY <1>1 DEF LastBody
<1>2. CASE Len(chain) # 0
  <2>1. Len(chain) \in 1..Len(chain) /\ chain \in Seq(LogRecord) BY <1>2 DEF LogTypes
  <2>2. chain[Len(chain)] \in LogRecord BY <2>1, ElementOfSeq
  <2> QED BY <1>2, <2>2 DEF LastBody, LogRecord
<1> QED BY <1>1, <1>2

(* An empty log satisfies the invariant of the log. *)
LEMMA LogStarts == LogInit => LogInv
<1> SUFFICES ASSUME LogInit PROVE LogInv OBVIOUS
<1> USE LogAssumption DEF LogInit, Genesis, Writing
<1>1. << >> \in Seq(Nat) /\ << >> \in Seq(LogRecord) /\ Len(<< >>) = 0 OBVIOUS
<1>2. LogTypes BY <1>1 DEF LogTypes
<1>3. Chained /\ InOrder BY <1>1 DEF Chained, InOrder, LastBody
<1>4. ChainContinuous /\ FlightCounted BY <1>1 DEF ChainContinuous, FlightCounted
<1> QED BY <1>2, <1>3, <1>4 DEF LogInv

(* An emit, dropped or queued, keeps the invariant of the log. *)
LEMMA EmitKeeps ==
    ASSUME LogInv, Emit
    PROVE  LogInv'
<1> USE DEF LogInv, Emit
<1>1. CASE inFlight >= MaxInFlight
  <2>1. LogTypes' BY <1>1 DEF LogTypes, Writing
  <2>2. Chained' BY <1>1 DEF Chained, Writing
  <2>3. InOrder'
    <3>1. emits \in Nat /\ tail \in Seq(Nat) /\ LastBody' = LastBody
      BY DEF LogTypes, LastBody
    <3>2. \A i \in 1..Len(tail) : tail[i] \in Nat BY <3>1
    <3>3. LastBody \in Nat BY LastBodyIsNat
    <3>4. Writing => writing.body \in Nat BY DEF LogTypes, LogRecord
    <3> QED BY <1>1, <3>1, <3>2, <3>3, <3>4 DEF InOrder, Writing
  <2>4. ChainContinuous' /\ FlightCounted' BY <1>1 DEF ChainContinuous, FlightCounted
  <2> QED BY <2>1, <2>2, <2>3, <2>4
<1>2. CASE ~(inFlight >= MaxInFlight)
  <2>0. /\ emits \in Nat /\ inFlight \in Nat /\ tail \in Seq(Nat) /\ MaxInFlight \in Nat
        /\ emits' = emits + 1 /\ inFlight' = inFlight + 1 /\ tail' = Append(tail, emits + 1)
        /\ UNCHANGED <<writing, logSeq, prev, chain>>
    BY <1>2, LogAssumption DEF LogTypes
  <2>1. /\ tail' \in Seq(Nat) /\ Len(tail) \in Nat /\ Len(tail') = Len(tail) + 1
        /\ \A i \in 1..Len(tail) : tail'[i] = tail[i] /\ tail[i] \in Nat
        /\ tail'[Len(tail) + 1] = emits + 1
    BY <2>0, AppendProperties
  <2>2. LogTypes' BY <2>0, <2>1 DEF LogTypes, Writing
  <2>3. Chained' BY <2>0 DEF Chained, Writing
  <2>4. LastBody \in Nat /\ LastBody' = LastBody BY <2>0, LastBodyIsNat DEF LastBody
  <2>5. Writing => writing.body \in Nat BY DEF LogTypes, LogRecord
  <2>6. InOrder' BY <2>0, <2>1, <2>4, <2>5 DEF InOrder, Writing
  <2>7. ChainContinuous' BY <2>0 DEF ChainContinuous
  <2>8. FlightCounted' BY <1>2, <2>0, <2>1 DEF FlightCounted
  <2> QED BY <2>2, <2>3, <2>6, <2>7, <2>8
<1> QED BY <1>1, <1>2

(* Making the record whose turn has come keeps the invariant of the log. *)
LEMMA BeginWriteKeeps ==
    ASSUME LogInv, BeginWrite
    PROVE  LogInv'
<1> DEFINE new == Record(Head(tail))
<1>0. /\ tail \in Seq(Nat) /\ tail # << >> /\ writing = NoRecord
      /\ writing' = new /\ tail' = Tail(tail)
      /\ UNCHANGED <<emits, inFlight, logSeq, prev, chain>>
  BY DEF BeginWrite, LogInv, LogTypes
<1>1. /\ Head(tail) \in Nat /\ Head(tail) = tail[1]
      /\ Tail(tail) \in Seq(Nat) /\ Len(tail) \in Nat \ {0} /\ Len(Tail(tail)) = Len(tail) - 1
      /\ \A i \in 1..Len(Tail(tail)) : Tail(tail)[i] = tail[i + 1]
      /\ \A i \in 1..Len(tail) : tail[i] \in Nat
  BY <1>0, HeadTailProperties, EmptySeq
<1>2. prev \in Seq(Nat) /\ logSeq \in Nat /\ emits \in Nat BY DEF LogInv, LogTypes
<1>3. /\ new \in LogRecord /\ new.seq = logSeq + 1 /\ new.prev = prev /\ new.body = Head(tail)
  <2>1. Append(prev, Head(tail)) \in Seq(Nat) BY <1>1, <1>2
  <2> QED BY <1>1, <1>2, <2>1 DEF Record, LogRecord
<1>4. new # NoRecord
  <2>1. new.seq # NoRecord.seq BY <1>2, <1>3 DEF NoRecord
  <2> QED BY <2>1
<1> HIDE DEF new
<1>5. LogTypes' BY <1>0, <1>1, <1>3 DEF LogInv, LogTypes, Writing
<1>6. Chained' BY <1>0, <1>3 DEF LogInv, Chained, Writing
<1>7. LastBody \in Nat /\ LastBody' = LastBody
  BY <1>0, LastBodyIsNat DEF LogInv, LastBody
<1>8. InOrder'
  <2>1. /\ \A i \in 1..Len(tail) : tail[i] > LastBody /\ tail[i] <= emits
        /\ \A i, j \in 1..Len(tail) : i < j => tail[i] < tail[j]
        /\ LastBody <= emits
    BY DEF LogInv, InOrder
  <2>2. \A i \in 1..Len(tail') : tail'[i] = tail[i + 1] /\ i + 1 \in 2..Len(tail)
    BY <1>0, <1>1
  <2>3. \A i, j \in 1..Len(tail') : i < j => tail'[i] < tail'[j] BY <1>1, <2>1, <2>2
  <2>4. \A i \in 1..Len(tail') : tail'[i] > LastBody /\ tail'[i] <= emits /\ tail[1] < tail'[i]
    BY <1>1, <2>1, <2>2
  <2>5. tail[1] > LastBody /\ tail[1] <= emits BY <1>1, <2>1
  <2> QED BY <1>0, <1>1, <1>3, <1>7, <2>1, <2>3, <2>4, <2>5 DEF InOrder, Writing
<1>9. ChainContinuous' BY <1>0 DEF LogInv, ChainContinuous
<1>10. FlightCounted' BY <1>0, <1>1, <1>4 DEF LogInv, FlightCounted
<1> QED BY <1>5, <1>6, <1>8, <1>9, <1>10 DEF LogInv

(* A record that is written continues the chain. *)
LEMMA WriteSucceedsKeeps ==
    ASSUME LogInv, WriteSucceeds
    PROVE  LogInv'
<1>0. /\ Writing /\ writing' = NoRecord /\ inFlight' = inFlight - 1
      /\ logSeq' = writing.seq /\ prev' = writing.hash /\ chain' = Append(chain, writing)
      /\ UNCHANGED <<emits, tail>>
  BY DEF WriteSucceeds, EndWrite, Writing
<1>1. /\ writing \in LogRecord /\ chain \in Seq(LogRecord) /\ tail \in Seq(Nat)
      /\ inFlight \in Nat /\ emits \in Nat /\ MaxInFlight \in Nat
  BY <1>0, LogAssumption DEF LogInv, LogTypes
<1>2. /\ chain' \in Seq(LogRecord) /\ Len(chain) \in Nat /\ Len(chain') = Len(chain) + 1
      /\ \A i \in 1..Len(chain) : chain'[i] = chain[i] /\ chain[i] \in LogRecord
      /\ chain'[Len(chain) + 1] = writing
  BY <1>0, <1>1, AppendProperties
<1>3. writing.seq \in Nat /\ writing.hash \in Seq(Nat) /\ writing.body \in Nat
  BY <1>1 DEF LogRecord
<1>4. FlightCounted'
  BY <1>0, <1>1 DEF LogInv, FlightCounted, Writing
<1>5. LogTypes'
  <2>1. inFlight' \in Nat
    <3>1. Len(tail) \in Nat BY <1>1
    <3>2. inFlight = Len(tail) + 1 BY <1>0 DEF LogInv, FlightCounted, Writing
    <3> QED BY <1>0, <3>1, <3>2
  <2> QED BY <1>0, <1>1, <1>2, <1>3, <2>1 DEF LogTypes, Writing
<1>6. Chained' BY <1>0, <1>2 DEF LogInv, Chained, Writing
<1>7. LastBody' = writing.body BY <1>2 DEF LastBody
<1>8. InOrder'
  <2>1. \A i \in 1..Len(tail) : tail[i] \in Nat BY <1>1
  <2> QED BY <1>0, <1>1, <1>3, <1>7, <2>1 DEF LogInv, InOrder, Writing
<1>9. ChainContinuous'
  <2>1. \A i \in 1..Len(chain) :
          /\ chain[i].seq = i
          /\ chain[i].prev = (IF i = 1 THEN Genesis ELSE chain[i - 1].hash)
          /\ i > 1 => chain[i - 1].body < chain[i].body
    BY DEF LogInv, ChainContinuous
  <2>2. /\ writing.seq = Len(chain) + 1
        /\ writing.prev = (IF Len(chain) = 0 THEN Genesis ELSE chain[Len(chain)].hash)
        /\ Len(chain) > 0 => chain[Len(chain)].body < writing.body
    <3>1. writing.body > LastBody BY <1>0 DEF LogInv, InOrder
    <3>2. Len(chain) > 0 => LastBody = chain[Len(chain)].body /\ LastBody \in Nat
      BY <1>2 DEF LastBody, LogRecord
    <3> QED BY <1>0, <1>2, <1>3, <3>1, <3>2 DEF LogInv, Chained
  <2> SUFFICES ASSUME NEW i \in 1..Len(chain')
               PROVE  /\ chain'[i].seq = i
                      /\ chain'[i].prev = (IF i = 1 THEN Genesis ELSE chain'[i - 1].hash)
                      /\ i > 1 => chain'[i - 1].body < chain'[i].body
    BY DEF ChainContinuous
  <2>3. CASE i = Len(chain) + 1 BY <1>2, <2>2, <2>3
  <2>4. CASE i \in 1..Len(chain)
    <3>1. i > 1 => i - 1 \in 1..Len(chain) BY <1>2, <2>4
    <3> QED BY <1>2, <2>1, <2>4, <3>1
  <2> QED BY <1>2, <2>3, <2>4
<1> QED BY <1>4, <1>5, <1>6, <1>8, <1>9 DEF LogInv

(* A write that fails keeps the invariant of the log. *)
LEMMA WriteFailsKeeps ==
    ASSUME LogInv, WriteFails
    PROVE  LogInv'
<1>0. /\ Writing /\ writing' = NoRecord /\ inFlight' = inFlight - 1
      /\ UNCHANGED <<emits, tail, logSeq, prev, chain>>
  BY DEF WriteFails, EndWrite, Writing
<1>1. inFlight \in Nat /\ MaxInFlight \in Nat /\ tail \in Seq(Nat) /\ Len(tail) \in Nat
  BY LogAssumption DEF LogInv, LogTypes
<1>2. FlightCounted' /\ inFlight' \in Nat
  BY <1>0, <1>1 DEF LogInv, FlightCounted, Writing
<1>3. LogTypes' BY <1>0, <1>2 DEF LogInv, LogTypes, Writing
<1>4. Chained' BY <1>0 DEF LogInv, Chained, Writing
<1>5. InOrder' BY <1>0 DEF LogInv, InOrder, LastBody, Writing
<1>6. ChainContinuous' BY <1>0 DEF LogInv, ChainContinuous
<1> QED BY <1>2, <1>3, <1>4, <1>5, <1>6 DEF LogInv

(* The invariant of the audit log is inductive. *)
THEOREM LogInvariant == LogSpec => []LogInv
<1>1. LogInit => LogInv BY LogStarts
<1>2. LogInv /\ [LogNext]_logVars => LogInv'
  <2> SUFFICES ASSUME LogInv, [LogNext]_logVars PROVE LogInv' OBVIOUS
  <2>1. CASE UNCHANGED logVars
    BY <2>1 DEF logVars, LogInv, LogTypes, Chained, InOrder, LastBody, ChainContinuous,
                FlightCounted, Writing
  <2> QED BY <2>1, EmitKeeps, BeginWriteKeeps, WriteSucceedsKeeps, WriteFailsKeeps DEF LogNext
<1> QED BY <1>1, <1>2, PTL DEF LogSpec

-----------------------------------------------------------------------------
(* The session ledger. *)
OneUser == \A id \in 1..MaxSessions : users[id] = {} \/ \E i \in Identities : users[id] = {i}

UnissuedUnused == \A id \in 1..MaxSessions : id > issued => users[id] = {}

EntriesUsed == \A id \in DOMAIN ledger : users[id] = {ledger[id].identity}

LedgerInv == LedgerTypeOK /\ OneUser /\ UnissuedUnused /\ EntriesUsed

(* One step of the ledger: what comes and what goes. *)
Turnover ==
    /\ \A id \in DOMAIN ledger' : id \in DOMAIN ledger \/ id = issued + 1
    /\ \A id \in DOMAIN ledger \ DOMAIN ledger' :
          \/ ledger[id].expiresAt <= clock
          \/ /\ Cardinality(DOMAIN ledger) = SessionLimit
             /\ \A other \in DOMAIN ledger :
                   ledger[other].lastAccess >= ledger[id].lastAccess

(* The types of the ledger proper, which turns do not disturb. *)
Entries(table, limit) ==
    /\ DOMAIN table \subseteq 1..limit
    /\ \A id \in DOMAIN table : table[id] \in SessionEntry
    /\ Cardinality(DOMAIN table) <= SessionLimit

(* An entry written now is well formed and belongs to the identity given. *)
LEMMA FreshTyped ==
    ASSUME clock \in 0..MaxClock, NEW i \in Identities
    PROVE  Fresh(i) \in SessionEntry /\ Fresh(i).identity = i
<1>1. clock + SessionTtl \in Nat BY LedgerAssumption
<1> QED BY <1>1 DEF Fresh, SessionEntry

(* Sets of issued sessions are finite. *)
LEMMA DomainFinite ==
    ASSUME issued \in 0..MaxSessions, NEW S \in SUBSET (1..issued)
    PROVE  IsFiniteSet(S) /\ Cardinality(S) \in Nat
<1>1. issued \in Int /\ 1 \in Int BY LedgerAssumption
<1>2. IsFiniteSet(1..issued) BY <1>1, FS_Interval
<1>3. IsFiniteSet(S) BY <1>2, FS_Subset
<1> QED BY <1>3, FS_CardinalityType

(* Sweeping what expired leaves the other entries as they are. *)
LEMMA ExpireKeeps ==
    ASSUME LedgerInv
    PROVE  /\ Entries(Expire(ledger), issued)
           /\ DOMAIN Expire(ledger) \subseteq DOMAIN ledger
           /\ \A id \in DOMAIN Expire(ledger) : Expire(ledger)[id] = ledger[id]
           /\ \A id \in DOMAIN ledger \ DOMAIN Expire(ledger) : ledger[id].expiresAt <= clock
<1> DEFINE live == {id \in DOMAIN ledger : ledger[id].expiresAt > clock}
<1>1. /\ DOMAIN ledger \subseteq 1..issued /\ issued \in 0..MaxSessions /\ clock \in 0..MaxClock
      /\ \A id \in DOMAIN ledger : ledger[id] \in SessionEntry
      /\ Cardinality(DOMAIN ledger) <= SessionLimit
  BY DEF LedgerInv, LedgerTypeOK
<1>2. Expire(ledger) = [id \in live |-> ledger[id]] BY DEF Expire, Only
<1>3. live \subseteq DOMAIN ledger OBVIOUS
<1>4. \A id \in DOMAIN ledger \ live : ledger[id].expiresAt <= clock
  BY <1>1, LedgerAssumption DEF SessionEntry
<1> HIDE DEF live
<1>5. IsFiniteSet(DOMAIN ledger) /\ Cardinality(DOMAIN ledger) \in Nat BY <1>1, DomainFinite
<1>6. Cardinality(live) <= Cardinality(DOMAIN ledger) BY <1>3, <1>5, FS_Subset
<1>7. Cardinality(live) \in Nat BY <1>1, <1>3, DomainFinite
<1>8. Cardinality(live) <= SessionLimit BY <1>1, <1>5, <1>6, <1>7, LedgerAssumption
<1> QED BY <1>1, <1>2, <1>3, <1>4, <1>8 DEF Entries

(* A new session takes the place of the one left alone longest, when there is none. *)
LEMMA CreateKeeps ==
    ASSUME LedgerInv, NEW i \in Identities, Create(ledger, i), UNCHANGED clock
    PROVE  /\ Turnover
           /\ issued' = issued + 1 /\ issued' \in 1..MaxSessions
           /\ Entries(ledger', issued')
           /\ issued' \in DOMAIN ledger' /\ ledger'[issued'].identity = i
           /\ \A id \in DOMAIN ledger' : id # issued' =>
                 id \in DOMAIN ledger /\ ledger'[id] = ledger[id]
<1> DEFINE live == Expire(ledger)
           new == issued + 1
<1>1. /\ DOMAIN ledger \subseteq 1..issued /\ issued \in 0..MaxSessions /\ clock \in 0..MaxClock
      /\ Cardinality(DOMAIN ledger) <= SessionLimit
  BY DEF LedgerInv, LedgerTypeOK
<1>2. /\ Entries(live, issued) /\ DOMAIN live \subseteq DOMAIN ledger
      /\ \A id \in DOMAIN live : live[id] = ledger[id]
      /\ \A id \in DOMAIN ledger \ DOMAIN live : ledger[id].expiresAt <= clock
  BY ExpireKeeps
<1>3. issued' = new /\ new \in 1..MaxSessions BY <1>1, LedgerAssumption DEF Create
<1>4. PICK evicted \in IF Cardinality(DOMAIN live) >= SessionLimit
                       THEN {{id} : id \in Oldest(live)} ELSE {{}} :
         LET kept == Only(live, DOMAIN live \ evicted) IN
         ledger' = [id \in DOMAIN kept \cup {new} |->
                      IF id = new THEN Fresh(i) ELSE kept[id]]
  BY DEF Create
<1> HIDE DEF live
<1> DEFINE left == DOMAIN live \ evicted
<1>5. ledger' = [id \in left \cup {new} |-> IF id = new THEN Fresh(i) ELSE live[id]]
  BY <1>4 DEF Only
<1>6. new \notin left BY <1>1, <1>2 DEF Entries
<1>7. Fresh(i) \in SessionEntry /\ Fresh(i).identity = i BY <1>1, FreshTyped
<1>8. /\ DOMAIN ledger' = left \cup {new}
      /\ ledger'[new] = Fresh(i)
      /\ \A id \in left : ledger'[id] = live[id]
  BY <1>5, <1>6
<1>9. left \subseteq DOMAIN live /\ left \subseteq 1..issued BY <1>2 DEF Entries
<1>10. /\ IsFiniteSet(DOMAIN live) /\ IsFiniteSet(left) /\ IsFiniteSet(DOMAIN ledger)
       /\ Cardinality(DOMAIN live) \in Nat /\ Cardinality(left) \in Nat
       /\ Cardinality(DOMAIN ledger) \in Nat
       /\ Cardinality(DOMAIN live) <= Cardinality(DOMAIN ledger)
  <2>1. IsFiniteSet(DOMAIN live) /\ Cardinality(DOMAIN live) \in Nat
    BY <1>1, <1>2, DomainFinite
  <2>2. IsFiniteSet(left) /\ Cardinality(left) \in Nat BY <1>1, <1>9, DomainFinite
  <2>3. IsFiniteSet(DOMAIN ledger) /\ Cardinality(DOMAIN ledger) \in Nat
    BY <1>1, DomainFinite
  <2>4. Cardinality(DOMAIN live) <= Cardinality(DOMAIN ledger) BY <1>2, <2>3, FS_Subset
  <2> QED BY <2>1, <2>2, <2>3, <2>4
<1>11. /\ issued' \in DOMAIN ledger' /\ ledger'[issued'].identity = i
       /\ \A id \in DOMAIN ledger' : id # issued' =>
             id \in DOMAIN ledger /\ ledger'[id] = ledger[id]
  <2> HIDE DEF left, new
  <2> QED BY <1>2, <1>3, <1>7, <1>8, <1>9
<1>12. Cardinality(left) + 1 <= SessionLimit => Entries(ledger', issued')
  <2>1. new \in 1..new /\ 1..issued \subseteq 1..new BY <1>1, LedgerAssumption
  <2> HIDE DEF left, new
  <2>2. Cardinality(left \cup {new}) = Cardinality(left) + 1 BY <1>6, <1>10, FS_AddElement
  <2>3. DOMAIN ledger' \subseteq 1..new BY <1>8, <1>9, <2>1
  <2>4. \A id \in DOMAIN ledger' : ledger'[id] \in SessionEntry
    BY <1>2, <1>7, <1>8, <1>9 DEF Entries
  <2> QED BY <1>3, <1>8, <2>2, <2>3, <2>4 DEF Entries
<1>13. CASE Cardinality(DOMAIN live) >= SessionLimit
  <2>1. PICK old \in Oldest(live) : evicted = {old} BY <1>4, <1>13
  <2>2. old \in DOMAIN live
        /\ \A other \in DOMAIN live : live[old].lastAccess <= live[other].lastAccess
    BY <2>1 DEF Oldest
  <2>3. Cardinality(left) = Cardinality(DOMAIN live) - 1
    BY <1>10, <2>1, <2>2, FS_RemoveElement
  <2>4. /\ Cardinality(DOMAIN live) = Cardinality(DOMAIN ledger)
        /\ Cardinality(DOMAIN ledger) = SessionLimit
    BY <1>1, <1>10, <1>13, LedgerAssumption
  <2>5. DOMAIN live = DOMAIN ledger BY <1>2, <1>10, <2>4, FS_Subset
  <2>6. Cardinality(left) + 1 <= SessionLimit
    BY <1>10, <2>3, <2>4, LedgerAssumption
  <2>7. \A other \in DOMAIN ledger : ledger[other].lastAccess >= ledger[old].lastAccess
    <3>1. ASSUME NEW other \in DOMAIN ledger
          PROVE  ledger[other].lastAccess >= ledger[old].lastAccess
      <4>1. ledger[old].lastAccess <= ledger[other].lastAccess BY <1>2, <2>2, <2>5
      <4>2. ledger[old].lastAccess \in 0..MaxClock /\ ledger[other].lastAccess \in 0..MaxClock
        BY <2>2, <2>5 DEF LedgerInv, LedgerTypeOK, SessionEntry
      <4> QED BY <4>1, <4>2, LedgerAssumption
    <3> QED BY <3>1
  <2>8. \A id \in DOMAIN ledger \ DOMAIN ledger' : id = old BY <1>8, <2>1, <2>5
  <2>9. Turnover BY <1>2, <1>8, <2>4, <2>5, <2>7, <2>8 DEF Turnover
  <2> QED BY <2>6, <2>9, <1>3, <1>11, <1>12
<1>14. CASE ~(Cardinality(DOMAIN live) >= SessionLimit)
  <2>1. left = DOMAIN live BY <1>4, <1>14
  <2>2. Cardinality(left) + 1 <= SessionLimit BY <1>10, <1>14, <2>1, LedgerAssumption
  <2>3. Turnover BY <1>2, <1>8, <2>1 DEF Turnover
  <2> QED BY <2>2, <2>3, <1>3, <1>11, <1>12
<1> QED BY <1>13, <1>14

(* Every step of the ledger keeps its invariant and turns entries over as stated. *)
LEMMA LedgerStep ==
    ASSUME LedgerInv, LedgerNext
    PROVE  LedgerInv' /\ Turnover
<1> USE DEF LedgerInv
<1>0. /\ issued \in 0..MaxSessions /\ clock \in 0..MaxClock
      /\ Entries(ledger, issued)
      /\ users \in [1..MaxSessions -> SUBSET Identities]
  BY DEF LedgerTypeOK, Entries
<1> DEFINE Served == [Turns -> {NoTurn} \cup [kind : TurnKinds, session : 0..MaxSessions,
                                             identity : Identities]]
<1>00. serving \in Served BY DEF LedgerTypeOK
(* Whatever a turn serves, the ledger keeps its type when its entries do. *)
<1>1. ASSUME Entries(ledger', issued'), issued' \in 0..MaxSessions, clock' \in 0..MaxClock,
             serving' \in Served, users' \in [1..MaxSessions -> SUBSET Identities]
      PROVE  LedgerTypeOK'
  BY <1>1 DEF Entries, LedgerTypeOK
<1> HIDE DEF Served
<1>2. ASSUME NEW t \in Turns, NEW id \in 0..issued, NEW i \in Identities,
             NEW kind \in TurnKinds, ContinueSession(t, id, i, kind)
      PROVE  LedgerInv' /\ Turnover
  <2> DEFINE live == Expire(ledger)
  <2>1. /\ Entries(live, issued) /\ DOMAIN live \subseteq DOMAIN ledger
        /\ \A x \in DOMAIN live : live[x] = ledger[x]
        /\ \A x \in DOMAIN ledger \ DOMAIN live : ledger[x].expiresAt <= clock
    BY ExpireKeeps
  <2>2. /\ id \in DOMAIN live /\ live[id].identity = i
        /\ ledger' = [live EXCEPT ![id] = Fresh(live[id].identity)]
        /\ serving' = [serving EXCEPT ![t] = [kind |-> kind, session |-> id, identity |-> i]]
        /\ users' = [users EXCEPT ![id] = users[id] \cup {i}]
        /\ UNCHANGED <<issued, clock>>
    BY <1>2 DEF ContinueSession, Found, Refresh, Serve, Use
  <2> HIDE DEF live
  <2>3. Fresh(i) \in SessionEntry /\ Fresh(i).identity = i BY <1>0, FreshTyped
  <2>4. /\ DOMAIN ledger' = DOMAIN live /\ ledger'[id] = Fresh(i)
        /\ \A x \in DOMAIN live \ {id} : ledger'[x] = live[x]
    BY <2>2
  <2>5. Entries(ledger', issued') BY <2>1, <2>2, <2>3, <2>4 DEF Entries
  <2>6. id \in 1..MaxSessions /\ users[id] = {i}
    <3>1. id \in 1..issued /\ id \in DOMAIN ledger /\ ledger[id].identity = i
      BY <2>1, <2>2 DEF Entries
    <3> QED BY <1>0, <3>1, LedgerAssumption DEF EntriesUsed
  <2>7. users' = users
    <3>1. users[id] \cup {i} = users[id] BY <2>6
    <3> QED BY <1>0, <2>2, <2>6, <3>1
  <2>8. serving' \in Served
    <3>1. id \in 0..MaxSessions BY <1>0, LedgerAssumption
    <3> QED BY <1>00, <2>2, <3>1 DEF Served
  <2>9. LedgerTypeOK' BY <1>0, <1>1, <2>2, <2>5, <2>7, <2>8
  <2>10. OneUser' /\ UnissuedUnused' BY <2>2, <2>7 DEF OneUser, UnissuedUnused
  <2>11. EntriesUsed' BY <2>1, <2>3, <2>4, <2>6, <2>7 DEF EntriesUsed
  <2>12. Turnover BY <2>1, <2>4 DEF Turnover
  <2> QED BY <2>9, <2>10, <2>11, <2>12
<1>3. ASSUME NEW i \in Identities, Create(ledger, i), Use(issued + 1, i), UNCHANGED clock,
             serving' \in Served
      PROVE  LedgerInv' /\ Turnover
  <2>1. /\ Turnover
        /\ issued' = issued + 1 /\ issued' \in 1..MaxSessions
        /\ Entries(ledger', issued')
        /\ issued' \in DOMAIN ledger' /\ ledger'[issued'].identity = i
        /\ \A id \in DOMAIN ledger' : id # issued' =>
              id \in DOMAIN ledger /\ ledger'[id] = ledger[id]
    BY <1>3, CreateKeeps
  <2>2. users' = [users EXCEPT ![issued'] = users[issued'] \cup {i}] BY <1>3, <2>1 DEF Use
  <2>3. users[issued'] = {} BY <1>0, <2>1, LedgerAssumption DEF UnissuedUnused
  <2>4. /\ users'[issued'] = {i}
        /\ \A id \in 1..MaxSessions : id # issued' => users'[id] = users[id]
        /\ users' \in [1..MaxSessions -> SUBSET Identities]
    BY <1>0, <2>1, <2>2, <2>3
  <2>5. LedgerTypeOK'
    <3>1. issued' \in 0..MaxSessions /\ clock' \in 0..MaxClock
      BY <1>0, <1>3, <2>1, LedgerAssumption
    <3> QED BY <1>1, <1>3, <2>1, <2>4, <3>1
  <2>6. OneUser' BY <2>4 DEF OneUser
  <2>7. UnissuedUnused'
    <3>1. \A id \in 1..MaxSessions : id > issued' => id > issued /\ id # issued'
      BY <1>0, <2>1, LedgerAssumption
    <3> QED BY <2>4, <3>1 DEF UnissuedUnused
  <2>8. EntriesUsed'
    <3>1. \A id \in DOMAIN ledger' : id \in 1..MaxSessions
      BY <1>0, <2>1, LedgerAssumption DEF Entries
    <3> QED BY <2>1, <2>4, <3>1 DEF EntriesUsed
  <2> QED BY <2>1, <2>5, <2>6, <2>7, <2>8
<1>4. ASSUME UNCHANGED <<issued, clock, users>>, serving' \in Served,
             \/ ledger' = ledger
             \/ ledger' = Expire(ledger)
             \/ \E id \in DOMAIN ledger :
                  ledger' = [ledger EXCEPT ![id] = Fresh(ledger[id].identity)]
      PROVE  LedgerInv' /\ Turnover
  <2>1. OneUser' /\ UnissuedUnused' BY <1>4 DEF OneUser, UnissuedUnused
  <2>2. CASE ledger' = ledger
    BY <1>0, <1>1, <1>4, <2>1, <2>2 DEF EntriesUsed, Turnover
  <2>3. CASE ledger' = Expire(ledger)
    <3>1. /\ Entries(Expire(ledger), issued)
          /\ DOMAIN Expire(ledger) \subseteq DOMAIN ledger
          /\ \A id \in DOMAIN Expire(ledger) : Expire(ledger)[id] = ledger[id]
          /\ \A id \in DOMAIN ledger \ DOMAIN Expire(ledger) : ledger[id].expiresAt <= clock
      BY ExpireKeeps
    <3>2. Entries(ledger', issued') BY <1>4, <2>3, <3>1
    <3>3. LedgerTypeOK' BY <1>0, <1>1, <1>4, <3>2
    <3>4. EntriesUsed' BY <1>4, <2>3, <3>1 DEF EntriesUsed
    <3>5. Turnover BY <2>3, <3>1 DEF Turnover
    <3> QED BY <2>1, <3>3, <3>4, <3>5
  <2>4. CASE \E id \in DOMAIN ledger :
               ledger' = [ledger EXCEPT ![id] = Fresh(ledger[id].identity)]
    <3>1. PICK id \in DOMAIN ledger :
            ledger' = [ledger EXCEPT ![id] = Fresh(ledger[id].identity)]
      BY <2>4
    <3>2. ledger[id].identity \in Identities BY <1>0 DEF Entries, SessionEntry
    <3>3. /\ Fresh(ledger[id].identity) \in SessionEntry
          /\ Fresh(ledger[id].identity).identity = ledger[id].identity
      BY <1>0, <3>2, FreshTyped
    <3>4. /\ DOMAIN ledger' = DOMAIN ledger /\ ledger'[id] = Fresh(ledger[id].identity)
          /\ \A x \in DOMAIN ledger \ {id} : ledger'[x] = ledger[x]
      BY <3>1
    <3>5. Entries(ledger', issued') BY <1>0, <1>4, <3>3, <3>4 DEF Entries
    <3>6. LedgerTypeOK' BY <1>0, <1>1, <1>4, <3>5
    <3>7. EntriesUsed' BY <1>4, <3>3, <3>4 DEF EntriesUsed
    <3>8. Turnover BY <3>4 DEF Turnover
    <3> QED BY <2>1, <3>6, <3>7, <3>8
  <2> QED BY <1>4, <2>2, <2>3, <2>4
<1>5. ASSUME NEW t \in Turns, NEW id \in 0..issued, NEW i \in Identities,
             BeginChat(t, id, i)
      PROVE  LedgerInv' /\ Turnover
  <2>1. serving' \in Served
    <3>1. issued + 1 \in 0..MaxSessions BY <1>0, <1>5, LedgerAssumption DEF BeginChat, Create
    <3> QED BY <1>00, <1>5, <3>1 DEF BeginChat, Serve, Served, TurnKinds
  <2> QED BY <1>3, <1>5, <2>1 DEF BeginChat
<1>6. ASSUME NEW t \in Turns, NEW id \in 0..issued, NEW i \in Identities,
             BeginPlan(t, id, i)
      PROVE  LedgerInv' /\ Turnover
  <2>1. serving' \in Served
    <3>1. NoSession \in 0..MaxSessions BY LedgerAssumption DEF NoSession
    <3> QED BY <1>00, <1>6, <3>1 DEF BeginPlan, Serve, Served, TurnKinds
  <2> QED BY <1>4, <1>6, <2>1 DEF BeginPlan
<1>7. ASSUME NEW t \in Turns, EndChat(t) PROVE LedgerInv' /\ Turnover
  <2>1. serving' \in Served BY <1>00, <1>7 DEF EndChat, Served
  <2> QED BY <1>4, <1>7, <2>1 DEF EndChat, Patch, Refresh
<1>8. ASSUME NEW t \in Turns, EndPlan(t) PROVE LedgerInv' /\ Turnover
  <2>1. serving' \in Served BY <1>00, <1>8 DEF EndPlan, Served
  <2>2. CASE serving[t].session = NoSession
    <3>1. serving[t].identity \in Identities
      <4>1. serving[t] # NoTurn BY <1>8 DEF EndPlan, NoTurn
      <4> QED BY <1>00, <4>1 DEF Served
    <3> QED BY <1>3, <1>8, <2>1, <2>2, <3>1 DEF EndPlan
  <2>3. CASE serving[t].session # NoSession BY <1>4, <1>8, <2>1, <2>3 DEF EndPlan
  <2> QED BY <2>2, <2>3
<1>9. ASSUME NEW t \in Turns, FailTurn(t) PROVE LedgerInv' /\ Turnover
  <2>1. serving' \in Served BY <1>00, <1>9 DEF FailTurn, Served
  <2> QED BY <1>4, <1>9, <2>1 DEF FailTurn
<1>10. ASSUME Tick PROVE LedgerInv' /\ Turnover
  <2>1. clock' \in 0..MaxClock BY <1>0, <1>10, LedgerAssumption DEF Tick
  <2>2. LedgerTypeOK' BY <1>0, <1>00, <1>1, <1>10, <2>1 DEF Tick
  <2> QED BY <1>10, <2>2 DEF Tick, OneUser, UnissuedUnused, EntriesUsed, Turnover
<1>11. ASSUME NEW t \in Turns, EndAtMonitor(t) PROVE LedgerInv' /\ Turnover
  <2>1. serving' \in Served BY <1>00, <1>11 DEF EndAtMonitor, Served
  <2>2. serving[t].identity \in Identities
    <3>1. serving[t] # NoTurn BY <1>11 DEF EndAtMonitor, NoTurn
    <3> QED BY <1>00, <3>1 DEF Served
  <2> QED BY <1>3, <1>11, <2>1, <2>2 DEF EndAtMonitor
<1> QED
  BY <1>2, <1>5, <1>6, <1>7, <1>8, <1>9, <1>10, <1>11 DEF LedgerNext, TurnKinds

(* The invariant of the ledger is inductive. *)
THEOREM LedgerInvariant == LedgerSpec => []LedgerInv
<1>1. LedgerInit => LedgerInv
  <2> SUFFICES ASSUME LedgerInit PROVE LedgerInv OBVIOUS
  <2> USE DEF LedgerInit
  <2>1. DOMAIN ledger = {} OBVIOUS
  <2>2. Cardinality(DOMAIN ledger) = 0 BY <2>1, FS_EmptySet
  <2>3. LedgerTypeOK BY <2>1, <2>2, LedgerAssumption DEF LedgerTypeOK
  <2>4. OneUser /\ UnissuedUnused /\ EntriesUsed
    BY <2>1 DEF OneUser, UnissuedUnused, EntriesUsed
  <2> QED BY <2>3, <2>4 DEF LedgerInv
<1>2. LedgerInv /\ [LedgerNext]_ledgerVars => LedgerInv'
  <2>1. LedgerInv /\ UNCHANGED ledgerVars => LedgerInv'
    BY DEF ledgerVars, LedgerInv, LedgerTypeOK, OneUser, UnissuedUnused, EntriesUsed
  <2> QED BY <2>1, LedgerStep
<1> QED BY <1>1, <1>2, PTL DEF LedgerSpec

(* No session is used by two identities: late writes of a turn go to its own. *)
LEMMA OneUserEach == LedgerInv => OneIdentityPerSession
<1> SUFFICES ASSUME LedgerInv PROVE OneIdentityPerSession OBVIOUS
<1>1. ASSUME NEW id \in 1..MaxSessions PROVE Cardinality(users[id]) <= 1
  <2>1. CASE users[id] = {} BY <2>1, FS_EmptySet
  <2>2. CASE \E i \in Identities : users[id] = {i}
    <3>1. PICK i \in Identities : users[id] = {i} BY <2>2
    <3>2. Cardinality({i}) = 1 BY FS_Singleton
    <3> QED BY <3>1, <3>2
  <2> QED BY <2>1, <2>2 DEF LedgerInv, OneUser
<1> QED BY <1>1 DEF OneIdentityPerSession, LedgerInv, EntriesUsed

(* What is gone stays gone, and only the session left alone longest is evicted. *)
LEMMA GoneStep == LedgerSpec => GoneStaysGone
<1>1. LedgerInv /\ [LedgerNext]_ledgerVars => [Turnover]_ledgerVars BY LedgerStep
<1> QED BY <1>1, LedgerInvariant, PTL DEF LedgerSpec, GoneStaysGone, Turnover

-----------------------------------------------------------------------------
(* The rings.  What is said of a ring holds for any number of slots C, any content B of
   an empty slot and any set S of what slots hold: the mailbox and the two rings of the
   monitor are instances.  The head is the slot behind the newest event: what
   the two indices and the size hold of one another is what makes a ring a queue. *)
Rings(C, B) == INSTANCE CopyRing WITH Capacity <- C, Blank <- B

RingOf(C, S) ==
    [slots : [0..(C - 1) -> S], head : 0..(C - 1), tail : 0..(C - 1), size : 0..C,
     dropped : Nat, pushed : Nat]

(* The slot k places behind slot t of a ring of C slots, and the one after slot t. *)
Behind(C, t, k) == IF t + k < C THEN t + k ELSE t + k - C
NextSlot(C, t) == IF t = C - 1 THEN 0 ELSE t + 1

HeadBehind(C, ring) == ring.head = Behind(C, ring.tail, ring.size)

(* Places of a ring are slots of it, all different, and follow one another. *)
LEMMA RingArithmetic ==
    ASSUME NEW C \in Nat \ {0}, NEW t \in 0..(C - 1)
    PROVE  /\ Behind(C, t, 0) = t /\ Behind(C, t, C) = t
           /\ NextSlot(C, t) \in 0..(C - 1)
           /\ \A k \in 0..C : Behind(C, t, k) \in 0..(C - 1)
           /\ \A k, m \in 0..(C - 1) : Behind(C, t, k) = Behind(C, t, m) => k = m
           /\ \A k \in 0..(C - 1) : NextSlot(C, Behind(C, t, k)) = Behind(C, t, k + 1)
           /\ \A k \in 0..(C - 1) : Behind(C, NextSlot(C, t), k) = Behind(C, t, k + 1)
BY DEF Behind, NextSlot

(* What the model says of slots is said of these places. *)
LEMMA RingSlots ==
    ASSUME NEW C \in Nat \ {0}, NEW S, NEW B \in S, NEW ring \in RingOf(C, S)
    PROVE  /\ ring.tail \in 0..(C - 1)
           /\ \A k \in 0..C : Rings(C, B)!Slot(ring, k) = Behind(C, ring.tail, k)
           /\ \A t : Rings(C, B)!After(t) = NextSlot(C, t)
<1>2. ring.tail \in 0..(C - 1) BY DEF RingOf
<1>3. \A k \in 0..C : Rings(C, B)!Slot(ring, k) = Behind(C, ring.tail, k)
  BY DEF Rings!Slot, Behind
<1>4. \A t : Rings(C, B)!After(t) = NextSlot(C, t) BY DEF Rings!After, NextSlot
<1> QED BY <1>2, <1>3, <1>4

(* What a ring holds is a sequence of events. *)
LEMMA PeekIsSeq ==
    ASSUME NEW C \in Nat \ {0}, NEW S, NEW B \in S, NEW ring \in RingOf(C, S)
    PROVE  /\ Rings(C, B)!PeekCopies(ring) \in Seq(S)
           /\ Len(Rings(C, B)!PeekCopies(ring)) = ring.size
           /\ \A k \in 1..ring.size :
                 Rings(C, B)!PeekCopies(ring)[k] = ring.slots[Behind(C, ring.tail, k - 1)]
<1> DEFINE n == ring.size
           q == [k \in 1..n |-> ring.slots[Rings(C, B)!Slot(ring, k - 1)]]
<1>1. Rings(C, B)!PeekCopies(ring) = q BY DEF Rings!PeekCopies
<1>2. n \in Nat /\ n \in 0..C /\ ring.slots \in [0..(C - 1) -> S]
  BY DEF RingOf
<1> HIDE DEF n
<1>3. ASSUME NEW k \in 1..n
      PROVE  /\ q[k] = ring.slots[Behind(C, ring.tail, k - 1)]
             /\ q[k] \in S
  <2>1. k - 1 \in 0..C BY <1>2
  <2>2. Rings(C, B)!Slot(ring, k - 1) = Behind(C, ring.tail, k - 1) BY <2>1, RingSlots
  <2>3. Behind(C, ring.tail, k - 1) \in 0..(C - 1)
    BY <2>1, RingSlots, RingArithmetic
  <2> QED BY <1>2, <2>2, <2>3
<1>4. q \in [1..n -> S] BY <1>3
<1> HIDE DEF q
<1>5. q \in Seq(S) /\ Len(q) = n BY <1>2, <1>4, SeqDef, LenProperties
<1> QED BY <1>1, <1>3, <1>5 DEF q, n

(* What a queue of at most C events becomes when e is pushed to it. *)
AfterPush(C, e, q, lost, r, nowLost) ==
    \/ Len(q) < C /\ r = Append(q, e) /\ nowLost = lost
    \/ Len(q) = C /\ r = Append(Tail(q), e) /\ nowLost = lost + 1

(* A push adds the event at the end; a full ring loses the oldest one, and counts it. *)
LEMMA PushAppends ==
    ASSUME NEW C \in Nat \ {0}, NEW S, NEW B \in S, NEW ring \in RingOf(C, S),
           HeadBehind(C, ring), NEW e \in S
    PROVE  LET pushed == Rings(C, B)!PushCopy(ring, e)
               q == Rings(C, B)!PeekCopies(ring)
           IN /\ pushed \in RingOf(C, S) /\ HeadBehind(C, pushed)
              /\ AfterPush(C, e, q, ring.dropped, Rings(C, B)!PeekCopies(pushed), pushed.dropped)
<1> DEFINE pushed == Rings(C, B)!PushCopy(ring, e)
           q == Rings(C, B)!PeekCopies(ring)
           r == Rings(C, B)!PeekCopies(pushed)
           t == ring.tail
           n == ring.size
<1>1. /\ ring.slots \in [0..(C - 1) -> S] /\ C \in Nat \ {0}
      /\ t \in 0..(C - 1) /\ n \in 0..C /\ ring.dropped \in Nat /\ ring.pushed \in Nat
      /\ ring.head = Behind(C, t, n)
  <2>2. /\ ring.slots \in [0..(C - 1) -> S] /\ t \in 0..(C - 1) /\ n \in 0..C
        /\ ring.dropped \in Nat /\ ring.pushed \in Nat
    BY DEF RingOf
  <2> QED BY <2>2 DEF HeadBehind
<1>2. /\ pushed.slots = [ring.slots EXCEPT ![ring.head] = e]
      /\ pushed.head = NextSlot(C, ring.head)
      /\ pushed.tail = (IF n = C THEN NextSlot(C, t) ELSE t)
      /\ pushed.size = (IF n = C THEN n ELSE n + 1)
      /\ pushed.dropped = (IF n = C THEN ring.dropped + 1 ELSE ring.dropped)
      /\ pushed.pushed = ring.pushed + 1
  BY RingSlots DEF Rings!PushCopy
<1>3. pushed = [slots |-> pushed.slots, head |-> pushed.head, tail |-> pushed.tail,
                size |-> pushed.size, dropped |-> pushed.dropped, pushed |-> pushed.pushed]
  BY DEF Rings!PushCopy
<1>4. /\ q \in Seq(S) /\ Len(q) = n
      /\ \A k \in 1..n : q[k] = ring.slots[Behind(C, t, k - 1)]
  BY PeekIsSeq
<1>5. pushed \in RingOf(C, S) =>
        /\ r \in Seq(S) /\ Len(r) = pushed.size
        /\ \A k \in 1..pushed.size : r[k] = pushed.slots[Behind(C, pushed.tail, k - 1)]
  BY PeekIsSeq
<1>6. pushed \in RingOf(C, S) /\ pushed.size \in 0..C =>
        (HeadBehind(C, pushed) <=> pushed.head = Behind(C, pushed.tail, pushed.size))
  BY DEF HeadBehind
<1> HIDE DEF pushed, q, r, t, n
<1>7. /\ Behind(C, t, 0) = t /\ Behind(C, t, C) = t /\ NextSlot(C, t) \in 0..(C - 1)
      /\ \A k \in 0..C : Behind(C, t, k) \in 0..(C - 1)
      /\ \A k, m \in 0..(C - 1) : Behind(C, t, k) = Behind(C, t, m) => k = m
      /\ \A k \in 0..(C - 1) : NextSlot(C, Behind(C, t, k)) = Behind(C, t, k + 1)
      /\ \A k \in 0..(C - 1) : Behind(C, NextSlot(C, t), k) = Behind(C, t, k + 1)
  BY <1>1, RingArithmetic, ZenonT(60)
<1>8. ring.head \in 0..(C - 1) BY <1>1, <1>7
<1>9. pushed \in RingOf(C, S)
  <2>1. pushed.slots \in [0..(C - 1) -> S] BY <1>1, <1>2
  <2>2. pushed.head \in 0..(C - 1) BY <1>1, <1>2, <1>8, RingArithmetic
  <2>3. pushed.tail \in 0..(C - 1) BY <1>1, <1>2, <1>7
  <2>4. pushed.size \in 0..C /\ pushed.dropped \in Nat BY <1>1, <1>2
  <2>5. pushed.pushed \in Nat BY <1>1, <1>2
  <2> QED BY <1>3, <2>1, <2>2, <2>3, <2>4, <2>5 DEF RingOf
<1>10. CASE n # C
  <2>1. pushed.size = n + 1 /\ pushed.tail = t /\ pushed.dropped = ring.dropped /\ n \in 0..(C - 1)
    BY <1>1, <1>2, <1>10
  <2>2. HeadBehind(C, pushed)
    <3>1. pushed.size \in 0..C BY <1>1, <2>1
    <3> QED BY <1>1, <1>2, <1>6, <1>7, <1>9, <2>1, <3>1
  <2>3. ASSUME NEW k \in 1..n PROVE r[k] = q[k]
    <3>1. k \in 1..pushed.size /\ k - 1 \in 0..(C - 1) /\ k - 1 \in 0..C /\ k - 1 # n
      BY <1>1, <2>1
    <3>2. Behind(C, t, k - 1) # ring.head /\ Behind(C, t, k - 1) \in 0..(C - 1)
      <4>1. Behind(C, t, k - 1) # Behind(C, t, n) BY <1>7, <2>1, <3>1
      <4> QED BY <1>1, <1>7, <3>1, <4>1
    <3>3. r[k] = pushed.slots[Behind(C, t, k - 1)] BY <1>5, <1>9, <2>1, <3>1
    <3> QED BY <1>1, <1>2, <1>4, <3>2, <3>3
  <2>4. r[n + 1] = e
    <3>1. n + 1 \in 1..pushed.size /\ n + 1 - 1 = n BY <1>1, <2>1
    <3>2. r[n + 1] = pushed.slots[ring.head] BY <1>1, <1>5, <1>9, <2>1, <3>1
    <3> QED BY <1>1, <1>2, <1>8, <3>2
  <2>5. r = Append(q, e)
    <3>1. /\ Append(q, e) \in Seq(S) /\ Len(Append(q, e)) = n + 1
          /\ \A k \in 1..n : Append(q, e)[k] = q[k]
          /\ Append(q, e)[n + 1] = e
      BY <1>4, AppendProperties
    <3>2. r \in Seq(S) /\ Len(r) = n + 1 BY <1>5, <1>9, <2>1
    <3>3. \A k \in 1..(n + 1) : k \in 1..n \/ k = n + 1 BY <1>1
    <3>4. \A k \in 1..Len(r) : r[k] = Append(q, e)[k] BY <2>3, <2>4, <3>1, <3>2, <3>3
    <3> QED BY <3>1, <3>2, <3>4, SeqEqual
  <2>6. Len(q) < C BY <1>1, <1>4, <2>1
  <2> QED BY <1>9, <2>1, <2>2, <2>5, <2>6 DEF pushed, q, r, AfterPush
<1>11. CASE n = C
  <2>1. pushed.size = C /\ pushed.tail = NextSlot(C, t) /\ pushed.dropped = ring.dropped + 1
    BY <1>2, <1>11
  <2>2. ring.head = t BY <1>1, <1>7, <1>11
  <2>3. HeadBehind(C, pushed)
    <3>1. pushed.size \in 0..C BY <1>1, <2>1
    <3>2. Behind(C, NextSlot(C, t), C) = NextSlot(C, t) BY <1>1, <1>7, RingArithmetic
    <3> QED BY <1>2, <1>6, <1>9, <2>1, <2>2, <3>1, <3>2
  <2>4. ASSUME NEW k \in 1..C PROVE r[k] = pushed.slots[Behind(C, t, k)]
    <3>1. k - 1 \in 0..(C - 1) /\ k - 1 + 1 = k BY <1>1
    <3>2. Behind(C, NextSlot(C, t), k - 1) = Behind(C, t, k) BY <1>7, <3>1
    <3> QED BY <1>5, <1>9, <2>1, <3>2
  <2>5. ASSUME NEW k \in 1..(C - 1) PROVE r[k] = q[k + 1]
    <3>1. /\ k \in 1..C /\ k + 1 \in 1..n /\ k + 1 - 1 = k /\ k \in 0..(C - 1)
          /\ k # 0 /\ 0 \in 0..(C - 1) /\ k \in 0..C
      BY <1>1, <1>11
    <3>2. Behind(C, t, k) # ring.head /\ Behind(C, t, k) \in 0..(C - 1)
      BY <1>7, <2>2, <3>1
    <3>3. q[k + 1] = ring.slots[Behind(C, t, k)] BY <1>4, <3>1
    <3>4. pushed.slots[Behind(C, t, k)] = ring.slots[Behind(C, t, k)] BY <1>1, <1>2, <3>2
    <3> QED BY <2>4, <3>1, <3>3, <3>4
  <2>6. r[C] = e
    <3>1. C \in 1..C BY <1>1
    <3>2. r[C] = pushed.slots[ring.head] BY <1>7, <2>2, <2>4, <3>1
    <3> QED BY <1>1, <1>2, <1>8, <3>2
  <2>7. r = Append(Tail(q), e)
    <3>0. q # << >> BY <1>1, <1>4, <1>11
    <3>1. Tail(q) \in Seq(S) /\ Len(Tail(q)) = C - 1
          /\ \A k \in 1..(C - 1) : Tail(q)[k] = q[k + 1]
      BY <1>4, <1>11, <3>0, HeadTailProperties
    <3>2. C - 1 + 1 = C BY <1>1
    <3>3. /\ Append(Tail(q), e) \in Seq(S) /\ Len(Append(Tail(q), e)) = C
          /\ \A k \in 1..(C - 1) : Append(Tail(q), e)[k] = Tail(q)[k]
          /\ Append(Tail(q), e)[C] = e
      BY <3>1, <3>2, AppendProperties
    <3>4. r \in Seq(S) /\ Len(r) = C BY <1>5, <1>9, <2>1
    <3>5. \A k \in 1..C : k \in 1..(C - 1) \/ k = C BY <1>1
    <3>6. \A k \in 1..Len(r) : r[k] = Append(Tail(q), e)[k]
      BY <2>5, <2>6, <3>1, <3>3, <3>4, <3>5
    <3> QED BY <3>3, <3>4, <3>6, SeqEqual
  <2>8. Len(q) = C BY <1>4, <1>11
  <2> QED BY <1>9, <2>1, <2>3, <2>7, <2>8 DEF pushed, q, r, AfterPush
<1> QED BY <1>10, <1>11

(* Taking the oldest event is taking the head of the sequence. *)
LEMMA PopIsTail ==
    ASSUME NEW C \in Nat \ {0}, NEW S, NEW B \in S, NEW ring \in RingOf(C, S),
           HeadBehind(C, ring), ring.size > 0
    PROVE  LET popped == Rings(C, B)!PopOldest(ring)
               q == Rings(C, B)!PeekCopies(ring)
           IN /\ popped \in RingOf(C, S) /\ HeadBehind(C, popped)
              /\ q # << >> /\ Head(q) = ring.slots[ring.tail]
              /\ Rings(C, B)!PeekCopies(popped) = Tail(q)
              /\ popped.dropped = ring.dropped
<1> DEFINE popped == Rings(C, B)!PopOldest(ring)
           q == Rings(C, B)!PeekCopies(ring)
           r == Rings(C, B)!PeekCopies(popped)
           t == ring.tail
           n == ring.size
<1>1. /\ ring.slots \in [0..(C - 1) -> S] /\ C \in Nat \ {0}
      /\ t \in 0..(C - 1) /\ n \in 1..C
      /\ ring.head = Behind(C, t, n) /\ ring.head \in 0..(C - 1)
  <2>2. /\ ring.slots \in [0..(C - 1) -> S] /\ t \in 0..(C - 1) /\ n \in 0..C
        /\ ring.head \in 0..(C - 1)
    BY DEF RingOf
  <2> QED BY <2>2 DEF HeadBehind
<1>2. /\ popped.slots = [ring.slots EXCEPT ![t] = B]
      /\ popped.tail = NextSlot(C, t) /\ popped.size = n - 1
      /\ popped.head = ring.head /\ popped.dropped = ring.dropped /\ popped.pushed = ring.pushed
  BY RingSlots DEF Rings!PopOldest, RingOf
<1>3. popped = [slots |-> popped.slots, head |-> popped.head, tail |-> popped.tail,
                size |-> popped.size, dropped |-> popped.dropped, pushed |-> popped.pushed]
  BY DEF Rings!PopOldest, RingOf
<1>4. /\ q \in Seq(S) /\ Len(q) = n
      /\ \A k \in 1..n : q[k] = ring.slots[Behind(C, t, k - 1)]
  BY PeekIsSeq
<1>5. popped \in RingOf(C, S) =>
        /\ r \in Seq(S) /\ Len(r) = popped.size
        /\ \A k \in 1..popped.size : r[k] = popped.slots[Behind(C, popped.tail, k - 1)]
  BY PeekIsSeq
<1>6. popped \in RingOf(C, S) /\ popped.size \in 0..C =>
        (HeadBehind(C, popped) <=> popped.head = Behind(C, popped.tail, popped.size))
  BY DEF HeadBehind
<1>7. ring.dropped \in Nat /\ ring.pushed \in Nat BY DEF RingOf
<1> HIDE DEF popped, q, r, t, n
<1>8. /\ Behind(C, t, 0) = t /\ NextSlot(C, t) \in 0..(C - 1)
      /\ \A k \in 0..C : Behind(C, t, k) \in 0..(C - 1)
      /\ \A k, m \in 0..(C - 1) : Behind(C, t, k) = Behind(C, t, m) => k = m
      /\ \A k \in 0..(C - 1) : Behind(C, NextSlot(C, t), k) = Behind(C, t, k + 1)
  BY <1>1, RingArithmetic, ZenonT(60)
<1>9. popped \in RingOf(C, S)
  <2>1. popped.slots \in [0..(C - 1) -> S] BY <1>1, <1>2
  <2>2. popped.size \in 0..C BY <1>1, <1>2
  <2> QED BY <1>1, <1>2, <1>3, <1>7, <1>8, <2>1, <2>2 DEF RingOf
<1>10. HeadBehind(C, popped)
  <2>1. popped.size \in 0..C /\ n - 1 \in 0..(C - 1) /\ n - 1 + 1 = n BY <1>1, <1>2
  <2>2. Behind(C, NextSlot(C, t), n - 1) = Behind(C, t, n) BY <1>8, <2>1
  <2> QED BY <1>1, <1>2, <1>6, <1>9, <2>1, <2>2
<1>11. q # << >> /\ Head(q) = ring.slots[t]
  <2>1. q # << >> BY <1>1, <1>4
  <2>2. 1 \in 1..n /\ 1 - 1 = 0 BY <1>1
  <2>3. q[1] = ring.slots[t] BY <1>4, <1>8, <2>2
  <2> QED BY <2>1, <2>3, <1>4
<1>12. r = Tail(q)
  <2>1. Tail(q) \in Seq(S) /\ Len(Tail(q)) = n - 1
        /\ \A k \in 1..(n - 1) : Tail(q)[k] = q[k + 1]
    BY <1>4, <1>11, HeadTailProperties
  <2>2. r \in Seq(S) /\ Len(r) = n - 1 BY <1>2, <1>5, <1>9
  <2>3. ASSUME NEW k \in 1..(n - 1) PROVE r[k] = q[k + 1]
    <3>1. /\ k - 1 \in 0..(C - 1) /\ k - 1 + 1 = k /\ k + 1 \in 1..n /\ k + 1 - 1 = k
          /\ k \in 0..(C - 1) /\ 0 \in 0..(C - 1) /\ k # 0 /\ k \in 0..C
      BY <1>1
    <3>2. r[k] = popped.slots[Behind(C, t, k)]
      <4>1. Behind(C, NextSlot(C, t), k - 1) = Behind(C, t, k) BY <1>8, <3>1
      <4>2. k \in 1..popped.size BY <1>2
      <4> QED BY <1>2, <1>5, <1>9, <4>1, <4>2
    <3>3. Behind(C, t, k) # t BY <1>8, <3>1
    <3>4. Behind(C, t, k) \in 0..(C - 1) BY <1>8, <3>1
    <3>5. popped.slots[Behind(C, t, k)] = ring.slots[Behind(C, t, k)] BY <1>1, <1>2, <3>3, <3>4
    <3>6. q[k + 1] = ring.slots[Behind(C, t, k)] BY <1>4, <3>1
    <3> QED BY <3>2, <3>5, <3>6
  <2>4. \A k \in 1..Len(r) : r[k] = Tail(q)[k] BY <2>1, <2>2, <2>3
  <2> QED BY <2>1, <2>2, <2>4, SeqEqual
<1> QED BY <1>2, <1>9, <1>10, <1>11, <1>12 DEF popped, q, r, t

(* Draining a ring leaves it empty, wherever its indices are. *)
LEMMA DrainEmpties ==
    ASSUME NEW C \in Nat \ {0}, NEW S, NEW B \in S, NEW ring \in RingOf(C, S),
           HeadBehind(C, ring)
    PROVE  LET drained == Rings(C, B)!Drained(ring)
           IN /\ drained \in RingOf(C, S) /\ HeadBehind(C, drained)
              /\ Rings(C, B)!PeekCopies(drained) = << >>
              /\ drained.dropped = ring.dropped
<1> DEFINE drained == Rings(C, B)!Drained(ring)
           cleared == [i \in 0..(C - 1) |->
                         IF \E k \in 1..ring.size : i = Rings(C, B)!Slot(ring, k - 1)
                         THEN B ELSE ring.slots[i]]
<1>1. /\ ring.slots \in [0..(C - 1) -> S] /\ ring.head \in 0..(C - 1)
      /\ ring.dropped \in Nat /\ ring.pushed \in Nat /\ 0 \in 0..C
  BY DEF RingOf
<1>2. cleared \in [0..(C - 1) -> S] BY <1>1
<1>3. drained = [ring EXCEPT !.slots = cleared, !.tail = ring.head, !.size = 0]
  BY DEF Rings!Drained
<1> HIDE DEF cleared, drained
<1>4. /\ drained.head = ring.head /\ drained.tail = ring.head /\ drained.size = 0
      /\ drained.dropped = ring.dropped
  BY <1>3 DEF RingOf
<1>5. drained \in RingOf(C, S) BY <1>1, <1>2, <1>3 DEF RingOf
<1>6. HeadBehind(C, drained) BY <1>1, <1>4, RingArithmetic DEF HeadBehind
<1>7. Rings(C, B)!PeekCopies(drained) = << >>
  <2>1. /\ Rings(C, B)!PeekCopies(drained) \in Seq(S)
        /\ Len(Rings(C, B)!PeekCopies(drained)) = 0
    BY <1>4, <1>5, PeekIsSeq
  <2> QED BY <2>1, EmptySeq
<1> QED BY <1>4, <1>5, <1>6, <1>7 DEF drained

(* An empty ring holds nothing. *)
LEMMA RingStarts ==
    ASSUME NEW C \in Nat \ {0}, NEW S, NEW B \in S
    PROVE  LET ring == Rings(C, B)!EmptyRing
           IN /\ ring \in RingOf(C, S) /\ HeadBehind(C, ring)
              /\ Rings(C, B)!PeekCopies(ring) = << >>
              /\ ring.dropped = 0 /\ ring.pushed = 0
<1> DEFINE ring == Rings(C, B)!EmptyRing
<1>1. /\ ring \in RingOf(C, S) /\ ring.size = 0 /\ ring.head = 0 /\ ring.tail = 0
      /\ ring.dropped = 0 /\ ring.pushed = 0
  BY DEF Rings!EmptyRing, RingOf
<1> HIDE DEF ring
<1>2. HeadBehind(C, ring) BY <1>1 DEF HeadBehind, Behind
<1>3. Rings(C, B)!PeekCopies(ring) \in Seq(S) /\ Len(Rings(C, B)!PeekCopies(ring)) = 0
  BY <1>1, PeekIsSeq
<1>4. Rings(C, B)!PeekCopies(ring) = << >> BY <1>3, EmptySeq
<1> QED BY <1>1, <1>2, <1>4 DEF ring

-----------------------------------------------------------------------------
(* Lists of numbers, given by their lengths: rising, of numbers from 1 to a greatest
   one, and one below another. *)
Rises(n, s) == \A i, j \in 1..n : i < j => s[i] < s[j]
Within(n, s, max) == \A i \in 1..n : s[i] \in 1..max
Below(m, s, n, q) == \A i \in 1..m, j \in 1..n : s[i] < q[j]

(* r is q with x at its end, its first element dropped or not. *)
PushedTo(n, q, c, r, x) ==
    \E k \in {0, 1} : /\ k <= n /\ c = n - k + 1 /\ r[c] = x
                      /\ \A i \in 1..(n - k) : r[i] = q[i + k]

(* The first element of q moved to the end of s. *)
MovedTo(n, q, m, s, r, z) ==
    /\ n >= 1
    /\ \A i \in 1..(n - 1) : r[i] = q[i + 1]
    /\ \A i \in 1..m : z[i] = s[i]
    /\ z[m + 1] = q[1]

(* What pushes and takes do to a queue as a sequence, whatever its elements are. *)
LEMMA PushShape ==
    ASSUME NEW S, NEW q \in Seq(S), NEW e \in S, NEW r,
           r = Append(q, e) \/ (q # << >> /\ r = Append(Tail(q), e))
    PROVE  r \in Seq(S) /\ PushedTo(Len(q), q, Len(r), r, e)
<1>1. CASE r = Append(q, e)
  <2>1. /\ r \in Seq(S) /\ Len(r) = Len(q) + 1 /\ r[Len(q) + 1] = e /\ Len(q) \in Nat
        /\ \A i \in 1..Len(q) : r[i] = q[i]
    BY <1>1, AppendProperties
  <2>2. /\ 0 <= Len(q) /\ Len(r) = Len(q) - 0 + 1 /\ r[Len(q) - 0 + 1] = e
        /\ \A i \in 1..(Len(q) - 0) : r[i] = q[i + 0]
    BY <2>1
  <2> QED BY <2>1, <2>2 DEF PushedTo
<1>2. CASE q # << >> /\ r = Append(Tail(q), e)
  <2> DEFINE u == Tail(q)
             m == Len(q) - 1
  <2>1. u \in Seq(S) /\ Len(u) = m /\ \A i \in 1..Len(u) : u[i] = q[i + 1]
    BY <1>2, HeadTailProperties
  <2>2. m \in Nat /\ 1 <= Len(q) /\ Len(q) - 1 + 1 = m + 1 BY <1>2
  <2> HIDE DEF u, m
  <2>3. /\ r \in Seq(S) /\ Len(r) = m + 1 /\ r[m + 1] = e
        /\ \A i \in 1..m : r[i] = q[i + 1]
    <3>1. r = Append(u, e) BY <1>2 DEF u
    <3>2. /\ Append(u, e) \in Seq(S) /\ Len(Append(u, e)) = Len(u) + 1
          /\ \A i \in 1..Len(u) : Append(u, e)[i] = u[i]
          /\ Append(u, e)[Len(u) + 1] = e
      BY <2>1, AppendProperties
    <3> QED BY <2>1, <3>1, <3>2
  <2>4. /\ 1 <= Len(q) /\ Len(r) = Len(q) - 1 + 1 /\ r[Len(r)] = e
        /\ \A i \in 1..(Len(q) - 1) : r[i] = q[i + 1]
    BY <2>2, <2>3 DEF m
  <2> QED BY <2>3, <2>4 DEF PushedTo
<1> QED BY <1>1, <1>2

(* The next number at the end of a list, its oldest one dropped or not, keeps the list
   rising and above another list. *)
LEMMA PushKeepsOrder ==
    ASSUME NEW a \in Nat, NEW q, NEW b \in Nat, NEW s, NEW c, NEW r, NEW n \in Nat,
           PushedTo(a, q, c, r, n + 1),
           Rises(a, q), Within(a, q, n), Within(b, s, n), Below(b, s, a, q)
    PROVE  Rises(c, r) /\ Within(c, r, n + 1) /\ Within(b, s, n + 1) /\ Below(b, s, c, r)
<1> USE DEF Rises, Within, Below
<1>0. PICK k \in {0, 1} : /\ k <= a /\ c = a - k + 1 /\ r[c] = n + 1
                          /\ \A i \in 1..(a - k) : r[i] = q[i + k]
  BY DEF PushedTo
<1>1. ASSUME NEW i \in 1..c, i # c
      PROVE  i + k \in 1..a /\ r[i] = q[i + k] /\ q[i + k] \in 1..n
  BY <1>0, <1>1
<1>2. \A i \in 1..c : r[i] \in 1..(n + 1) BY <1>0, <1>1
<1>3. ASSUME NEW i \in 1..c, NEW j \in 1..c, i < j PROVE r[i] < r[j]
  <2>1. i # c BY <1>0, <1>3
  <2>2. r[i] = q[i + k] /\ q[i + k] \in 1..n /\ i + k \in 1..a BY <1>1, <2>1
  <2>3. CASE j = c BY <1>0, <2>2, <2>3
  <2>4. CASE j # c
    <3>1. r[j] = q[j + k] /\ j + k \in 1..a BY <1>1, <2>4
    <3>2. i + k < j + k BY <1>0, <1>3
    <3> QED BY <2>2, <3>1, <3>2
  <2> QED BY <2>3, <2>4
<1>4. ASSUME NEW i \in 1..b, NEW j \in 1..c PROVE s[i] < r[j]
  <2>1. CASE j = c BY <1>0, <2>1
  <2>2. CASE j # c BY <1>1, <2>2
  <2> QED BY <2>1, <2>2
<1> QED BY <1>2, <1>3, <1>4

(* The oldest element of a queue put behind those taken before it. *)
LEMMA TakeShape ==
    ASSUME NEW S, NEW q \in Seq(S), q # << >>, NEW s \in Seq(S)
    PROVE  LET r == Tail(q)
               z == Append(s, Head(q))
           IN /\ r \in Seq(S) /\ z \in Seq(S) /\ Head(q) = q[1] /\ Head(q) \in S
              /\ Len(r) = Len(q) - 1 /\ Len(z) = Len(s) + 1
              /\ MovedTo(Len(q), q, Len(s), s, r, z)
<1>1. /\ Head(q) = q[1] /\ Head(q) \in S /\ Len(q) \in Nat /\ Len(q) >= 1
      /\ Tail(q) \in Seq(S) /\ Len(Tail(q)) = Len(q) - 1
      /\ \A i \in 1..Len(Tail(q)) : Tail(q)[i] = q[i + 1]
  BY HeadTailProperties
<1>2. /\ Append(s, Head(q)) \in Seq(S) /\ Len(Append(s, Head(q))) = Len(s) + 1
      /\ \A i \in 1..Len(s) : Append(s, Head(q))[i] = s[i]
      /\ Append(s, Head(q))[Len(s) + 1] = Head(q)
  BY <1>1, AppendProperties
<1> QED BY <1>1, <1>2 DEF MovedTo

(* Moving the first number of a rising list to the end of one below it keeps both. *)
LEMMA TakeKeepsOrder ==
    ASSUME NEW a \in Nat, NEW q, NEW b \in Nat, NEW s, NEW r, NEW z, NEW n \in Nat,
           MovedTo(a, q, b, s, r, z),
           Rises(a, q), Rises(b, s), Within(a, q, n), Within(b, s, n), Below(b, s, a, q)
    PROVE  /\ Rises(a - 1, r) /\ Rises(b + 1, z)
           /\ Within(a - 1, r, n) /\ Within(b + 1, z, n)
           /\ Below(b + 1, z, a - 1, r)
<1> USE DEF Rises, Within, Below, MovedTo
<1>1. ASSUME NEW i \in 1..(a - 1)
      PROVE  i + 1 \in 1..a /\ r[i] = q[i + 1] /\ r[i] \in 1..n /\ q[1] < r[i]
  <2>1. i + 1 \in 1..a /\ 1 \in 1..a /\ 1 < i + 1 OBVIOUS
  <2> QED BY <2>1
<1>2. ASSUME NEW i \in 1..(a - 1), NEW j \in 1..(a - 1), i < j PROVE r[i] < r[j]
  <2>1. i + 1 < j + 1 BY <1>2
  <2> QED BY <1>1, <2>1
<1>3. 1 \in 1..a OBVIOUS
<1>4. ASSUME NEW i \in 1..(b + 1) PROVE i \in 1..b \/ i = b + 1 OBVIOUS
<1>5. \A i \in 1..(b + 1) : z[i] \in 1..n BY <1>3, <1>4
<1>6. ASSUME NEW i \in 1..(b + 1), NEW j \in 1..(b + 1), i < j PROVE z[i] < z[j]
  <2>1. i \in 1..b BY <1>6
  <2>2. CASE j = b + 1 BY <1>3, <2>1, <2>2
  <2>3. CASE j \in 1..b BY <1>6, <2>1, <2>3
  <2> QED BY <1>4, <2>2, <2>3
<1>7. ASSUME NEW i \in 1..(b + 1), NEW j \in 1..(a - 1) PROVE z[i] < r[j]
  <2>1. CASE i = b + 1 BY <1>1, <2>1
  <2>2. CASE i \in 1..b BY <1>1, <2>2
  <2> QED BY <1>4, <2>1, <2>2
<1> QED BY <1>1, <1>2, <1>5, <1>6, <1>7

(* One element taken from a queue is the one at its head; none is left when all are taken. *)
LEMMA TakeOne ==
    ASSUME NEW S, NEW q \in Seq(S), q # << >>, NEW s \in Seq(S)
    PROVE  /\ SubSeq(q, 2, Len(q)) = Tail(q)
           /\ s \o SubSeq(q, 1, 1) = Append(s, Head(q))
           /\ 1 \in 1..Len(q) /\ 1 + 1 = 2
<1>1. Len(q) \in Nat /\ Len(q) >= 1 OBVIOUS
<1>2. SubSeq(q, 2, Len(q)) = Tail(q) BY <1>1, TailIsSubSeq
<1>3. Head(q) \in S BY HeadTailProperties
<1>4. SubSeq(q, 1, 1) = << Head(q) >>
  <2>1. \A i \in 1..1 : q[i] \in S BY <1>1
  <2>2. /\ SubSeq(q, 1, 1) \in Seq(S) /\ Len(SubSeq(q, 1, 1)) = 1
        /\ SubSeq(q, 1, 1)[1] = q[1]
    BY <2>1, SubSeqProperties
  <2>3. << Head(q) >> \in Seq(S) /\ Len(<< Head(q) >>) = 1 /\ << Head(q) >>[1] = q[1]
    BY <1>3
  <2>4. \A i \in 1..Len(SubSeq(q, 1, 1)) : SubSeq(q, 1, 1)[i] = << Head(q) >>[i]
    BY <2>2, <2>3
  <2> QED BY <2>2, <2>3, <2>4, SeqEqual
<1>5. Append(s, Head(q)) = s \o << Head(q) >> BY <1>3, AppendIsConcat
<1> QED BY <1>1, <1>2, <1>4, <1>5

-----------------------------------------------------------------------------
(* The mailbox.  An event is the number of its push: what is held and what was taken
   rises, and what was taken is below what is held. *)
BoxHeld == Ring!PeekCopies(box)

BoxOrder ==
    /\ Rises(Len(BoxHeld), BoxHeld) /\ Rises(Len(boxTaken), boxTaken)
    /\ Within(Len(BoxHeld), BoxHeld, box.pushed)
    /\ Within(Len(boxTaken), boxTaken, box.pushed)
    /\ Below(Len(boxTaken), boxTaken, Len(BoxHeld), BoxHeld)

BoxInv ==
    /\ box \in RingOf(BoxCapacity, Nat) /\ HeadBehind(BoxCapacity, box)
    /\ boxTaken \in Seq(Nat)
    /\ BoxOrder

(* The mailbox is an instance of the rings. *)
LEMMA BoxIsRing ==
    /\ BoxCapacity \in Nat \ {0} /\ NoEvent \in Nat
    /\ Ring!EmptyRing = Rings(BoxCapacity, NoEvent)!EmptyRing
    /\ \A ring : Ring!PeekCopies(ring) = Rings(BoxCapacity, NoEvent)!PeekCopies(ring)
    /\ \A ring, e : Ring!PushCopy(ring, e) = Rings(BoxCapacity, NoEvent)!PushCopy(ring, e)
    /\ \A ring : Ring!PopOldest(ring) = Rings(BoxCapacity, NoEvent)!PopOldest(ring)
<1>1. BoxCapacity \in Nat \ {0} /\ NoEvent \in Nat BY MailboxAssumption DEF NoEvent
<1>2. Ring!EmptyRing = Rings(BoxCapacity, NoEvent)!EmptyRing
  BY DEF Ring!EmptyRing, Rings!EmptyRing
<1>3. \A ring : Ring!PeekCopies(ring) = Rings(BoxCapacity, NoEvent)!PeekCopies(ring)
  BY DEF Ring!PeekCopies, Ring!Slot, Rings!PeekCopies, Rings!Slot
<1>4. \A ring, e : Ring!PushCopy(ring, e) = Rings(BoxCapacity, NoEvent)!PushCopy(ring, e)
  BY DEF Ring!PushCopy, Ring!After, Rings!PushCopy, Rings!After
<1>5. \A ring : Ring!PopOldest(ring) = Rings(BoxCapacity, NoEvent)!PopOldest(ring)
  BY DEF Ring!PopOldest, Ring!After, Rings!PopOldest, Rings!After
<1> QED BY <1>1, <1>2, <1>3, <1>4, <1>5

(* The mailbox starts as an empty queue. *)
LEMMA BoxStarts == BoxInit => BoxInv /\ BoxQueue!QueueInit
<1> SUFFICES ASSUME BoxInit PROVE BoxInv /\ BoxQueue!QueueInit OBVIOUS
<1>1. /\ box = Rings(BoxCapacity, NoEvent)!EmptyRing /\ boxTaken = << >>
      /\ BoxCapacity \in Nat \ {0} /\ NoEvent \in Nat
      /\ Ring!PeekCopies(box) = Rings(BoxCapacity, NoEvent)!PeekCopies(box)
  BY BoxIsRing DEF BoxInit
<1>2. /\ box \in RingOf(BoxCapacity, Nat) /\ HeadBehind(BoxCapacity, box)
      /\ Ring!PeekCopies(box) = << >> /\ box.dropped = 0
  BY <1>1, RingStarts
<1>3. boxTaken \in Seq(Nat) /\ Len(boxTaken) = 0 /\ Len(Ring!PeekCopies(box)) = 0
  BY <1>1, <1>2, EmptySeq
<1>4. BoxOrder BY <1>3 DEF BoxOrder, Rises, Within, Below, BoxHeld
<1> QED BY <1>1, <1>2, <1>3, <1>4 DEF BoxInv, BoxQueue!QueueInit

(* What is held by a mailbox in order is a sequence of numbers. *)
LEMMA HeldIsSeq ==
    ASSUME BoxInv
    PROVE  BoxHeld \in Seq(Nat) /\ box.pushed \in Nat
<1>1. BoxHeld = Rings(BoxCapacity, NoEvent)!PeekCopies(box) BY BoxIsRing DEF BoxHeld
<1>2. box \in RingOf(BoxCapacity, Nat) /\ BoxCapacity \in Nat \ {0} /\ NoEvent \in Nat
  BY BoxIsRing DEF BoxInv
<1>3. BoxHeld \in Seq(Nat) BY <1>1, <1>2, PeekIsSeq
<1> QED BY <1>2, <1>3 DEF RingOf

(* A step of the mailbox is a step of the queue, or none that the queue can tell. *)
LEMMA BoxStep ==
    ASSUME BoxInv, [BoxNext]_boxVars
    PROVE  BoxInv' /\ [BoxQueue!QueueNext]_(BoxQueue!queueVars)
<1> DEFINE q == Ring!PeekCopies(box)
<1>0. /\ box \in RingOf(BoxCapacity, Nat) /\ HeadBehind(BoxCapacity, box)
      /\ q \in Seq(Nat) /\ boxTaken \in Seq(Nat) /\ box.pushed \in Nat
      /\ BoxCapacity \in Nat \ {0} /\ NoEvent \in Nat
  BY HeldIsSeq, BoxIsRing DEF BoxInv, BoxHeld
<1>00. /\ Rises(Len(q), q) /\ Rises(Len(boxTaken), boxTaken)
       /\ Within(Len(q), q, box.pushed) /\ Within(Len(boxTaken), boxTaken, box.pushed)
       /\ Below(Len(boxTaken), boxTaken, Len(q), q)
       /\ Len(q) \in Nat /\ Len(boxTaken) \in Nat
  BY <1>0 DEF BoxInv, BoxOrder, BoxHeld
<1>1. CASE UNCHANGED <<box, boxTaken>>
  <2>1. BoxInv' BY <1>1 DEF BoxInv, BoxOrder, BoxHeld, Ring!PeekCopies, Ring!Slot
  <2>2. UNCHANGED BoxQueue!queueVars BY <1>1 DEF BoxQueue!queueVars, Ring!PeekCopies
  <2> QED BY <2>1, <2>2
<1>2. CASE PushEvent
  <2> DEFINE e == box.pushed + 1
             r == Ring!PeekCopies(box')
  <2>1. box' = Ring!PushCopy(box, e) /\ boxTaken' = boxTaken /\ box.pushed < MaxPushed
    BY <1>2 DEF PushEvent
  <2>2. box'.pushed = e BY <2>1 DEF Ring!PushCopy
  <2>3. e \in Nat /\ e \in 1..MaxPushed BY <1>0, <2>1, MailboxAssumption
  <2> HIDE DEF e
  <2>4. /\ box' \in RingOf(BoxCapacity, Nat) /\ HeadBehind(BoxCapacity, box')
        /\ AfterPush(BoxCapacity, e, q, box.dropped, r, box'.dropped)
    <3>1. /\ box' = Rings(BoxCapacity, NoEvent)!PushCopy(box, e)
          /\ q = Rings(BoxCapacity, NoEvent)!PeekCopies(box)
          /\ r = Rings(BoxCapacity, NoEvent)!PeekCopies(box')
      BY <2>1, BoxIsRing
    <3> HIDE DEF q, r
    <3> DEFINE R == Rings(BoxCapacity, NoEvent)!PushCopy(box, e)
               Q == Rings(BoxCapacity, NoEvent)!PeekCopies(box)
               P == Rings(BoxCapacity, NoEvent)!PeekCopies(R)
    <3>2. /\ R \in RingOf(BoxCapacity, Nat) /\ HeadBehind(BoxCapacity, R)
          /\ AfterPush(BoxCapacity, e, Q, box.dropped, P, R.dropped)
      BY <1>0, <2>3, PushAppends, ZenonT(60)
    <3>3. box' = R /\ q = Q /\ r = P BY <3>1
    <3> HIDE DEF R, P, Q
    <3> QED BY <3>2, <3>3
  <2>5. /\ Rises(Len(r), r) /\ Within(Len(r), r, e)
        /\ Within(Len(boxTaken), boxTaken, e) /\ Below(Len(boxTaken), boxTaken, Len(r), r)
    <3>1. r = Append(q, e) \/ (q # << >> /\ r = Append(Tail(q), e)) BY <1>0, <2>4 DEF AfterPush
    <3>2. e = box.pushed + 1 BY DEF e
    <3> HIDE DEF q, r
    <3>3. PushedTo(Len(q), q, Len(r), r, e) BY <1>0, <2>3, <3>1, PushShape, ZenonT(60)
    <3> QED BY <1>0, <1>00, <3>2, <3>3, PushKeepsOrder
  <2>7. BoxHeld' = r BY DEF BoxHeld, Ring!PeekCopies, Ring!Slot
  <2>8. BoxInv'
    <3> HIDE DEF q, r
    <3>1. BoxOrder' BY <1>00, <2>1, <2>2, <2>5, <2>7 DEF BoxOrder
    <3> QED BY <1>0, <2>1, <2>4, <3>1 DEF BoxInv, HeadBehind
  <2>9. BoxQueue!Push(e) BY <2>1, <2>4 DEF AfterPush, BoxQueue!Push, Ring!PeekCopies
  <2> QED BY <2>3, <2>8, <2>9 DEF BoxQueue!QueueNext
<1>3. CASE TakeNext
  <2> DEFINE r == Ring!PeekCopies(box')
  <2>1. /\ box.size > 0 /\ box' = Ring!PopOldest(box)
        /\ boxTaken' = Append(boxTaken, box.slots[box.tail])
    BY <1>3 DEF TakeNext
  <2>2. box'.pushed = box.pushed BY <2>1 DEF Ring!PopOldest
  <2>3. /\ box' \in RingOf(BoxCapacity, Nat) /\ HeadBehind(BoxCapacity, box')
        /\ q # << >> /\ Head(q) = box.slots[box.tail]
        /\ r = Tail(q) /\ box'.dropped = box.dropped
    <3>1. /\ box' = Rings(BoxCapacity, NoEvent)!PopOldest(box)
          /\ q = Rings(BoxCapacity, NoEvent)!PeekCopies(box)
          /\ r = Rings(BoxCapacity, NoEvent)!PeekCopies(box')
      BY <2>1, BoxIsRing
    <3> HIDE DEF q, r
    <3> DEFINE R == Rings(BoxCapacity, NoEvent)!PopOldest(box)
               Q == Rings(BoxCapacity, NoEvent)!PeekCopies(box)
               P == Rings(BoxCapacity, NoEvent)!PeekCopies(R)
    <3>2. /\ R \in RingOf(BoxCapacity, Nat) /\ HeadBehind(BoxCapacity, R)
          /\ Q # << >> /\ Head(Q) = box.slots[box.tail] /\ P = Tail(Q) /\ R.dropped = box.dropped
      BY <1>0, <2>1, PopIsTail, ZenonT(60)
    <3>3. box' = R /\ q = Q /\ r = P BY <3>1
    <3> HIDE DEF R, P, Q
    <3> QED BY <2>1, <3>2, <3>3
  <2>4. Head(q) \in Nat BY <1>0, <2>3, HeadTailProperties
  <2>5. /\ Rises(Len(r), r) /\ Rises(Len(boxTaken'), boxTaken')
        /\ Within(Len(r), r, box.pushed) /\ Within(Len(boxTaken'), boxTaken', box.pushed)
        /\ Below(Len(boxTaken'), boxTaken', Len(r), r)
    <3>1. r = Tail(q) /\ boxTaken' = Append(boxTaken, Head(q)) /\ q # << >> BY <2>1, <2>3
    <3> HIDE DEF q, r
    <3>2. /\ Len(r) = Len(q) - 1 /\ Len(boxTaken') = Len(boxTaken) + 1
          /\ MovedTo(Len(q), q, Len(boxTaken), boxTaken, r, boxTaken')
      BY <1>0, <3>1, TakeShape
    <3> QED BY <1>0, <1>00, <3>2, TakeKeepsOrder
  <2>6. BoxHeld' = r BY DEF BoxHeld, Ring!PeekCopies, Ring!Slot
  <2>7. boxTaken' \in Seq(Nat) BY <1>0, <2>1, <2>3, <2>4, AppendProperties
  <2>8. BoxInv'
    <3> HIDE DEF q, r
    <3>1. BoxOrder' BY <2>2, <2>5, <2>6 DEF BoxOrder
    <3> QED BY <2>3, <2>7, <3>1 DEF BoxInv, HeadBehind
  <2>9. /\ SubSeq(q, 2, Len(q)) = Tail(q)
        /\ boxTaken \o SubSeq(q, 1, 1) = Append(boxTaken, Head(q))
        /\ 1 \in 1..Len(q) /\ 1 + 1 = 2
    <3> HIDE DEF q, r
    <3> QED BY <1>0, <2>3, TakeOne
  <2>10. BoxQueue!Take(1) BY <2>1, <2>3, <2>9 DEF BoxQueue!Take, Ring!PeekCopies
  <2> QED BY <2>8, <2>9, <2>10 DEF BoxQueue!QueueNext
<1> QED
  BY <1>1, <1>2, <1>3
     DEF BoxNext, boxVars, ScheduledDrain, CallDrain, CallListener, EndDrain

(* The mailbox implements the bounded queue that loses its oldest events: for any
   capacity, and however pushes and drains nest. *)
THEOREM BoxImplementsQueue == BoxSpec => MailboxIsQueue
<1>1. BoxInit => BoxInv /\ BoxQueue!QueueInit BY BoxStarts
<1>2. BoxInv /\ [BoxNext]_boxVars => BoxInv' /\ [BoxQueue!QueueNext]_(BoxQueue!queueVars)
  BY BoxStep
<1> QED BY <1>1, <1>2, PTL DEF BoxSpec, MailboxIsQueue, BoxQueue!QueueSpec

-----------------------------------------------------------------------------
(* The broadcast.  An event taken has been heard by a listener or waits for it in one
   frame of the stack, and never both. *)
Frame == [event : Nat, called : 0..Listeners]

Waits(l, e) == \E k \in 1..Len(drains) : drains[k].event = e /\ drains[k].called < l

FrameInv ==
    /\ drains \in Seq(Frame)
    /\ \A k \in 1..Len(drains) :
          drains[k].event # NoEvent => drains[k].event \in Range(boxTaken)
    /\ \A k, m \in 1..Len(drains) :
          drains[k].event # NoEvent /\ drains[k].event = drains[m].event => k = m

HeardInv ==
    /\ heard \in [1..Listeners -> Seq(Nat)]
    /\ \A l \in 1..Listeners :
          /\ \A i, j \in 1..Len(heard[l]) : heard[l][i] = heard[l][j] => i = j
          /\ \A e \in Range(heard[l]) : e \in Range(boxTaken) /\ ~Waits(l, e)
          /\ \A e \in Range(boxTaken) : e \in Range(heard[l]) \/ Waits(l, e)

BroadcastInv == BoxInv /\ FrameInv /\ HeardInv

(* The events taken are numbers of pushes. *)
LEMMA TakenAreEvents ==
    ASSUME BoxInv
    PROVE  /\ Range(boxTaken) = {boxTaken[i] : i \in 1..Len(boxTaken)}
           /\ Range(boxTaken) \subseteq Nat /\ NoEvent \notin Range(boxTaken)
<1>1. /\ boxTaken \in Seq(Nat) /\ \A i \in 1..Len(boxTaken) : boxTaken[i] \in 1..box.pushed
  BY DEF BoxInv, BoxOrder, Within
<1>2. Range(boxTaken) = {boxTaken[i] : i \in 1..Len(boxTaken)} BY <1>1 DEF Range
<1>3. \A i \in 1..Len(boxTaken) : boxTaken[i] \in Nat /\ boxTaken[i] # 0
  <2>1. box.pushed \in Nat BY HeldIsSeq
  <2> QED BY <1>1, <2>1
<1> QED BY <1>2, <1>3 DEF NoEvent

(* An element put at the end of a list is added to its range. *)
LEMMA RangeOfAppend ==
    ASSUME NEW S, NEW s \in Seq(S), NEW e \in S
    PROVE  Range(Append(s, e)) = Range(s) \cup {e}
<1>1. /\ Append(s, e) \in Seq(S) /\ Len(Append(s, e)) = Len(s) + 1 /\ Len(s) \in Nat
      /\ \A i \in 1..Len(s) : Append(s, e)[i] = s[i]
      /\ Append(s, e)[Len(s) + 1] = e
      /\ DOMAIN Append(s, e) = 1..(Len(s) + 1) /\ DOMAIN s = 1..Len(s)
  BY AppendProperties
<1>2. ASSUME NEW x \in Range(Append(s, e)) PROVE x \in Range(s) \cup {e}
  <2>1. PICK i \in 1..(Len(s) + 1) : Append(s, e)[i] = x BY <1>1 DEF Range
  <2>2. CASE i = Len(s) + 1 BY <1>1, <2>1, <2>2
  <2>3. CASE i \in 1..Len(s) BY <1>1, <2>1, <2>3 DEF Range
  <2> QED BY <1>1, <2>2, <2>3
<1>3. ASSUME NEW x \in Range(s) \cup {e} PROVE x \in Range(Append(s, e))
  <2>1. CASE x = e
    <3>1. Len(s) + 1 \in 1..(Len(s) + 1) BY <1>1
    <3> QED BY <1>1, <2>1, <3>1 DEF Range
  <2>2. CASE x \in Range(s)
    <3>1. PICK i \in 1..Len(s) : s[i] = x BY <1>1, <2>2 DEF Range
    <3>2. i \in 1..(Len(s) + 1) BY <1>1
    <3> QED BY <1>1, <3>1, <3>2 DEF Range
  <2> QED BY <2>1, <2>2
<1> QED BY <1>2, <1>3

(* Nothing is taken, heard or waiting at first. *)
LEMMA BroadcastStarts == BoxInit => BroadcastInv
<1> SUFFICES ASSUME BoxInit PROVE BroadcastInv OBVIOUS
<1>1. BoxInv BY BoxStarts
<1>2. /\ boxTaken = << >> /\ drains = << >> /\ heard = [l \in 1..Listeners |-> << >>]
  BY DEF BoxInit
<1>3. << >> \in Seq(Nat) /\ << >> \in Seq(Frame) /\ Len(<< >>) = 0 BY EmptySeq
<1>4. Range(<< >>) = {} BY DEF Range
<1>5. FrameInv BY <1>2, <1>3 DEF FrameInv
<1>6. HeardInv BY <1>2, <1>3, <1>4 DEF HeardInv
<1> QED BY <1>1, <1>5, <1>6 DEF BroadcastInv

(* The frame on top of the stack and the others. *)
LEMMA TopFrame ==
    ASSUME FrameInv, drains # << >>
    PROVE  /\ Len(drains) \in 1..Len(drains) /\ Top \in Frame
           /\ \A f \in Frame :
                 /\ Inner(f) \in Seq(Frame) /\ Len(Inner(f)) = Len(drains)
                 /\ Inner(f)[Len(drains)] = f
                 /\ \A k \in 1..Len(drains) : k # Len(drains) => Inner(f)[k] = drains[k]
<1>1. drains \in Seq(Frame) BY DEF FrameInv
<1>2. Len(drains) \in 1..Len(drains) BY <1>1, EmptySeq
<1>3. Top \in Frame BY <1>1, <1>2, ElementOfSeq DEF Top
<1>4. ASSUME NEW f \in Frame
      PROVE  /\ Inner(f) \in Seq(Frame) /\ Len(Inner(f)) = Len(drains)
             /\ Inner(f)[Len(drains)] = f
             /\ \A k \in 1..Len(drains) : k # Len(drains) => Inner(f)[k] = drains[k]
  BY <1>1, <1>2, ExceptSeq DEF Inner
<1> QED BY <1>2, <1>3, <1>4

(* A drain begins with a frame for which nobody waits. *)
LEMMA BeginKeeps ==
    ASSUME BroadcastInv, BoxInv', BeginDrain, UNCHANGED <<boxTaken, heard>>
    PROVE  BroadcastInv'
<1> DEFINE f == [event |-> NoEvent, called |-> 0]
<1>1. drains \in Seq(Frame) /\ Len(drains) \in Nat BY DEF BroadcastInv, FrameInv
<1>2. f \in Frame /\ f.event = NoEvent BY MailboxAssumption DEF Frame, NoEvent
<1>3. drains' = Append(drains, f) BY DEF BeginDrain
<1> HIDE DEF f
<1>4. /\ drains' \in Seq(Frame) /\ Len(drains') = Len(drains) + 1
      /\ \A k \in 1..Len(drains) : drains'[k] = drains[k]
      /\ drains'[Len(drains) + 1].event = NoEvent
  BY <1>1, <1>2, <1>3, AppendProperties
<1>5. \A k \in 1..Len(drains') : drains'[k].event # NoEvent =>
          k \in 1..Len(drains) /\ drains'[k] = drains[k]
  BY <1>1, <1>4
<1>6. FrameInv' BY <1>4, <1>5 DEF BroadcastInv, FrameInv
<1>7. ASSUME NEW l \in 1..Listeners, NEW e, e # NoEvent
      PROVE  Waits(l, e)' <=> Waits(l, e)
  <2>1. \A k \in 1..Len(drains) : k \in 1..Len(drains') BY <1>1, <1>4
  <2> QED BY <1>4, <1>5, <1>7, <2>1 DEF Waits
<1>8. NoEvent \notin Range(boxTaken) BY TakenAreEvents DEF BroadcastInv
<1>9. HeardInv'
  <2>1. heard' = heard /\ boxTaken' = boxTaken OBVIOUS
  <2>2. \A l \in 1..Listeners : \A e \in Range(boxTaken) : Waits(l, e)' <=> Waits(l, e)
    BY <1>7, <1>8
  <2> QED BY <2>1, <2>2 DEF BroadcastInv, HeardInv
<1> QED BY <1>6, <1>9 DEF BroadcastInv

(* Whoever waits waits in a frame on top that has called too few listeners, or below. *)
LEMMA DoneFrame ==
    ASSUME FrameInv, BetweenEvents, NEW l \in 1..Listeners, NEW e, e # NoEvent
    PROVE  Waits(l, e) <=>
              \E k \in 1..(Len(drains) - 1) : drains[k].event = e /\ drains[k].called < l
<1>1. Len(drains) \in 1..Len(drains) /\ Top \in Frame BY TopFrame DEF BetweenEvents
<1>2. ~(Top.event = e /\ Top.called < l)
  <2>1. Top.event = NoEvent \/ Top.called = Listeners BY DEF BetweenEvents
  <2> QED BY <2>1, MailboxAssumption
<1>3. \A k \in 1..Len(drains) : k = Len(drains) \/ k \in 1..(Len(drains) - 1) BY <1>1
<1>4. \A k \in 1..(Len(drains) - 1) : k \in 1..Len(drains) BY <1>1
<1> QED BY <1>2, <1>3, <1>4 DEF Waits, Top

(* The event that is taken waits for every listener, and is new to the stack. *)
LEMMA TakeKeepsBroadcast ==
    ASSUME BroadcastInv, BoxInv', TakeNext
    PROVE  BroadcastInv'
<1> DEFINE new == box.slots[box.tail]
           f == [event |-> new, called |-> 0]
<1>1. /\ BetweenEvents /\ drains # << >> /\ boxTaken' = Append(boxTaken, new)
      /\ drains' = Inner(f) /\ heard' = heard
  BY DEF TakeNext, BetweenEvents
<1>2. boxTaken \in Seq(Nat) /\ boxTaken' \in Seq(Nat) /\ Len(boxTaken) \in Nat
  BY DEF BroadcastInv, BoxInv
<1>3. /\ Len(boxTaken') = Len(boxTaken) + 1 /\ boxTaken'[Len(boxTaken) + 1] = new
      /\ \A i \in 1..Len(boxTaken) : boxTaken'[i] = boxTaken[i]
  BY <1>1, <1>2
<1> HIDE DEF new
<1>4. new \in Range(boxTaken') /\ new \in Nat /\ new # NoEvent
  <2>1. Len(boxTaken) + 1 \in 1..Len(boxTaken') BY <1>2, <1>3
  <2>2. box'.pushed \in Nat BY DEF BoxInv, RingOf
  <2>3. \A i \in 1..Len(boxTaken') : boxTaken'[i] \in 1..box'.pushed
    BY DEF BoxInv, BoxOrder, Within
  <2>4. new \in 1..box'.pushed BY <1>3, <2>1, <2>3
  <2>5. DOMAIN boxTaken' = 1..Len(boxTaken') BY <1>2
  <2>6. new \in Range(boxTaken') BY <1>3, <2>1, <2>5 DEF Range
  <2> QED BY <2>2, <2>4, <2>6 DEF NoEvent
<1>5. Range(boxTaken') = Range(boxTaken) \cup {new} BY <1>1, <1>2, <1>4, RangeOfAppend
<1>6. new \notin Range(boxTaken)
  <2>1. \A i, j \in 1..Len(boxTaken') : i < j => boxTaken'[i] < boxTaken'[j]
    BY DEF BoxInv, BoxOrder, Rises
  <2>2. \A i \in 1..Len(boxTaken) : boxTaken[i] < new /\ boxTaken[i] \in Nat
    <3>1. Len(boxTaken) + 1 \in 1..Len(boxTaken') BY <1>2, <1>3
    <3>2. \A i \in 1..Len(boxTaken) : i \in 1..Len(boxTaken') /\ i < Len(boxTaken) + 1
      BY <1>2, <1>3
    <3> QED BY <1>2, <1>3, <2>1, <3>1, <3>2
  <2>3. Range(boxTaken) = {boxTaken[i] : i \in 1..Len(boxTaken)}
    BY TakenAreEvents DEF BroadcastInv
  <2> QED BY <1>4, <2>2, <2>3
<1>7. f \in Frame /\ f.event = new /\ f.called = 0 BY <1>4, MailboxAssumption DEF Frame
<1> HIDE DEF f
<1>8. /\ drains' \in Seq(Frame) /\ Len(drains') = Len(drains) /\ Len(drains) \in 1..Len(drains)
      /\ drains'[Len(drains)] = f
      /\ \A k \in 1..Len(drains) : k # Len(drains) => drains'[k] = drains[k]
  BY <1>1, <1>7, TopFrame DEF BroadcastInv
<1>9. /\ \A k \in 1..Len(drains) :
            drains[k].event # NoEvent => drains[k].event \in Range(boxTaken)
      /\ \A k, m \in 1..Len(drains) :
            drains[k].event # NoEvent /\ drains[k].event = drains[m].event => k = m
  BY DEF BroadcastInv, FrameInv
<1>10. FrameInv'
  <2>1. ASSUME NEW k \in 1..Len(drains'), drains'[k].event # NoEvent
        PROVE  drains'[k].event \in Range(boxTaken')
    <3>1. CASE k = Len(drains) BY <1>4, <1>7, <1>8, <3>1
    <3>2. CASE k # Len(drains) BY <1>5, <1>8, <1>9, <2>1, <3>2
    <3> QED BY <3>1, <3>2
  <2>2. ASSUME NEW k \in 1..Len(drains'), NEW m \in 1..Len(drains'),
               drains'[k].event # NoEvent, drains'[k].event = drains'[m].event
        PROVE  k = m
    <3>1. \A n \in 1..Len(drains') : n # Len(drains) /\ drains'[n].event # NoEvent =>
            drains'[n].event # new
      BY <1>6, <1>8, <1>9
    <3>2. CASE k # Len(drains) /\ m # Len(drains) BY <1>8, <1>9, <2>2, <3>2
    <3>3. CASE k = Len(drains) \/ m = Len(drains) BY <1>7, <1>8, <2>2, <3>1, <3>3
    <3> QED BY <3>2, <3>3
  <2> QED BY <1>8, <2>1, <2>2 DEF FrameInv
<1>11. ASSUME NEW l \in 1..Listeners, NEW e \in Range(boxTaken')
       PROVE  Waits(l, e)' <=> e = new \/ Waits(l, e)
  <2>1. e # NoEvent BY <1>4, <1>5, TakenAreEvents, <1>11 DEF BroadcastInv
  <2>2. Waits(l, e) <=>
          \E k \in 1..(Len(drains) - 1) : drains[k].event = e /\ drains[k].called < l
    BY <1>1, <2>1, DoneFrame DEF BroadcastInv
  <2>3. /\ \A k \in 1..(Len(drains) - 1) :
             k \in 1..Len(drains') /\ drains'[k] = drains[k] /\ k # Len(drains)
        /\ \A k \in 1..Len(drains') : k = Len(drains) \/ k \in 1..(Len(drains) - 1)
        /\ Len(drains) \in 1..Len(drains')
    BY <1>8
  <2>4. 0 < l OBVIOUS
  <2> QED BY <1>7, <1>8, <2>2, <2>3, <2>4 DEF Waits
<1>12. HeardInv'
  <2>1. /\ heard' = heard /\ heard \in [1..Listeners -> Seq(Nat)]
        /\ \A l \in 1..Listeners :
             /\ \A i, j \in 1..Len(heard[l]) : heard[l][i] = heard[l][j] => i = j
             /\ \A e \in Range(heard[l]) : e \in Range(boxTaken) /\ ~Waits(l, e)
             /\ \A e \in Range(boxTaken) : e \in Range(heard[l]) \/ Waits(l, e)
    BY <1>1 DEF BroadcastInv, HeardInv
  <2>2. ASSUME NEW l \in 1..Listeners
        PROVE  /\ \A e \in Range(heard[l]) : e \in Range(boxTaken') /\ ~Waits(l, e)'
               /\ \A e \in Range(boxTaken') : e \in Range(heard[l]) \/ Waits(l, e)'
    BY <1>5, <1>6, <1>11, <2>1
  <2> QED BY <2>1, <2>2 DEF HeardInv
<1> QED BY <1>10, <1>12 DEF BroadcastInv

(* The listener that is called hears the event on top, which waited for it. *)
LEMMA CallKeeps ==
    ASSUME BroadcastInv, BoxInv', CallListener
    PROVE  BroadcastInv'
<1> DEFINE e == Top.event
           next == Top.called + 1
           f == [event |-> Top.event, called |-> Top.called + 1]
           n == Len(drains)
<1>1. /\ drains # << >> /\ e # NoEvent /\ Top.called < Listeners
      /\ heard' = [heard EXCEPT ![next] = Append(heard[next], e)]
      /\ drains' = Inner(f) /\ boxTaken' = boxTaken
  BY DEF CallListener
<1>2. n \in 1..n /\ Top \in Frame /\ Top = drains[n] BY <1>1, TopFrame DEF BroadcastInv, Top
<1>3. /\ f \in Frame /\ f.event = e /\ f.called = next /\ e \in Nat
      /\ next \in 1..Listeners /\ Top.called \in 0..Listeners /\ Top.called = next - 1
  BY <1>1, <1>2, MailboxAssumption DEF Frame
<1> HIDE DEF f, e, next, n
<1>4. /\ drains' \in Seq(Frame) /\ Len(drains') = n /\ drains'[n] = f
      /\ \A k \in 1..n : k # n => drains'[k] = drains[k]
  BY <1>1, <1>3, TopFrame DEF BroadcastInv, n
<1>5. /\ \A k \in 1..n : drains[k].event # NoEvent => drains[k].event \in Range(boxTaken)
      /\ \A k, m \in 1..n :
            drains[k].event # NoEvent /\ drains[k].event = drains[m].event => k = m
  BY DEF BroadcastInv, FrameInv, n
<1>6. drains[n].event = e /\ drains[n].called = next - 1 BY <1>2, <1>3 DEF e
<1>7. \A k \in 1..n : drains'[k].event = drains[k].event BY <1>3, <1>4, <1>6
<1>8. FrameInv' BY <1>1, <1>4, <1>5, <1>7 DEF FrameInv
<1>9. e \in Range(boxTaken) BY <1>1, <1>2, <1>5, <1>6
<1>10. ASSUME NEW l \in 1..Listeners, NEW x, x # NoEvent
       PROVE  Waits(l, x)' <=> Waits(l, x) /\ ~(x = e /\ l = next)
  <2>1. Waits(l, x)' <=> \E k \in 1..n : drains'[k].event = x /\ drains'[k].called < l
    BY <1>4 DEF Waits
  <2>2. Waits(l, x) <=> \E k \in 1..n : drains[k].event = x /\ drains[k].called < l
    BY DEF Waits, n
  <2>3. CASE x = e
    <3>1. \A k \in 1..n : drains[k].event = e => k = n BY <1>1, <1>2, <1>5, <1>6
    <3>2. Waits(l, x)' <=> next < l BY <1>2, <1>3, <1>4, <1>7, <2>1, <2>3, <3>1
    <3>3. Waits(l, x) <=> next - 1 < l BY <1>2, <1>6, <2>2, <2>3, <3>1
    <3>4. next < l <=> next - 1 < l /\ l # next BY <1>3
    <3> QED BY <2>3, <3>2, <3>3, <3>4
  <2>4. CASE x # e
    <3>1. drains[n].event # x /\ drains'[n].event # x BY <1>2, <1>6, <1>7, <2>4
    <3> QED BY <1>4, <2>1, <2>2, <2>4, <3>1
  <2> QED BY <2>3, <2>4
<1>11. /\ heard \in [1..Listeners -> Seq(Nat)]
       /\ \A l \in 1..Listeners :
            /\ \A i, j \in 1..Len(heard[l]) : heard[l][i] = heard[l][j] => i = j
            /\ \A x \in Range(heard[l]) : x \in Range(boxTaken) /\ ~Waits(l, x)
            /\ \A x \in Range(boxTaken) : x \in Range(heard[l]) \/ Waits(l, x)
  BY DEF BroadcastInv, HeardInv
<1>12. /\ heard' \in [1..Listeners -> Seq(Nat)]
       /\ heard'[next] = Append(heard[next], e)
       /\ \A l \in 1..Listeners : l # next => heard'[l] = heard[l]
  BY <1>1, <1>3, <1>11
<1>13. Range(heard'[next]) = Range(heard[next]) \cup {e}
  BY <1>3, <1>11, <1>12, RangeOfAppend
<1>14. Waits(next, e) BY <1>2, <1>3, <1>6 DEF Waits, n
<1>15. e \notin Range(heard[next]) BY <1>3, <1>11, <1>14
<1>16. \A i, j \in 1..Len(heard'[next]) : heard'[next][i] = heard'[next][j] => i = j
  <2> DEFINE h == heard[next]
             g == heard'[next]
  <2>1. h \in Seq(Nat) /\ Len(h) \in Nat /\ DOMAIN h = 1..Len(h) BY <1>3, <1>11
  <2>2. \A i, j \in 1..Len(h) : h[i] = h[j] => i = j BY <1>3, <1>11
  <2>3. g = Append(h, e) BY <1>12
  <2>4. \A i \in 1..Len(h) : h[i] # e BY <1>15, <2>1 DEF Range
  <2> HIDE DEF h, g
  <2>5. /\ Len(g) = Len(h) + 1 /\ g[Len(h) + 1] = e /\ \A i \in 1..Len(h) : g[i] = h[i]
    BY <1>3, <2>1, <2>3, AppendProperties
  <2>6. \A i \in 1..Len(g) : i \in 1..Len(h) \/ i = Len(h) + 1 BY <2>1, <2>5
  <2>7. \A i, j \in 1..Len(g) : g[i] = g[j] => i = j BY <2>2, <2>4, <2>5, <2>6
  <2> QED BY <2>7 DEF g
<1>17. NoEvent \notin Range(boxTaken) BY TakenAreEvents DEF BroadcastInv
<1>18. ASSUME NEW l \in 1..Listeners
       PROVE  /\ \A i, j \in 1..Len(heard'[l]) : heard'[l][i] = heard'[l][j] => i = j
              /\ \A x \in Range(heard'[l]) : x \in Range(boxTaken) /\ ~Waits(l, x)'
              /\ \A x \in Range(boxTaken) : x \in Range(heard'[l]) \/ Waits(l, x)'
  <2>1. \A x \in Range(boxTaken) : Waits(l, x)' <=> Waits(l, x) /\ ~(x = e /\ l = next)
    BY <1>10, <1>17
  <2>2. CASE l = next BY <1>9, <1>11, <1>13, <1>16, <2>1, <2>2
  <2>3. CASE l # next BY <1>11, <1>12, <2>1, <2>3
  <2> QED BY <2>2, <2>3
<1>19. HeardInv' BY <1>1, <1>12, <1>18 DEF HeardInv
<1> QED BY <1>8, <1>19 DEF BroadcastInv

(* A drain that ends takes a frame with it in which nobody waits. *)
LEMMA EndKeeps ==
    ASSUME BroadcastInv, BoxInv', EndDrain
    PROVE  BroadcastInv'
<1> DEFINE n == Len(drains) - 1
<1>1. /\ BetweenEvents /\ drains # << >> /\ drains' = SubSeq(drains, 1, n)
      /\ heard' = heard /\ boxTaken' = boxTaken
  BY DEF EndDrain, BetweenEvents
<1>2. drains \in Seq(Frame) /\ Len(drains) \in Nat /\ n \in Nat /\ n + 1 = Len(drains)
  BY <1>1, EmptySeq DEF BroadcastInv, FrameInv
<1>3. \A k \in 1..n : k \in 1..Len(drains) /\ drains[k] \in Frame BY <1>2, ElementOfSeq
<1>4. /\ drains' \in Seq(Frame) /\ Len(drains') = n
      /\ \A k \in 1..n : drains'[k] = drains[k]
  <2>1. /\ SubSeq(drains, 1, n) \in Seq(Frame)
        /\ Len(SubSeq(drains, 1, n)) = (IF 1 <= n THEN n - 1 + 1 ELSE 0)
        /\ \A i \in 1..(n - 1 + 1) : SubSeq(drains, 1, n)[i] = drains[1 + i - 1]
    <3> HIDE DEF n
    <3>1. 1 \in Int /\ n \in Int /\ \A i \in 1..n : drains[i] \in Frame BY <1>2, <1>3
    <3> QED BY <3>1, SubSeqProperties
  <2> HIDE DEF n
  <2>2. n - 1 + 1 = n /\ (~(1 <= n) => n = 0) /\ \A i \in 1..n : 1 + i - 1 = i BY <1>2
  <2> QED BY <1>1, <2>1, <2>2
<1>5. FrameInv' BY <1>1, <1>3, <1>4 DEF BroadcastInv, FrameInv
<1>6. NoEvent \notin Range(boxTaken) BY TakenAreEvents DEF BroadcastInv
<1>7. ASSUME NEW l \in 1..Listeners, NEW e \in Range(boxTaken)
      PROVE  Waits(l, e)' <=> Waits(l, e)
  <2>1. e # NoEvent BY <1>6
  <2>2. Waits(l, e) <=> \E k \in 1..n : drains[k].event = e /\ drains[k].called < l
    BY <1>1, <2>1, DoneFrame DEF BroadcastInv
  <2> HIDE DEF n
  <2> QED BY <1>4, <2>2 DEF Waits
<1>8. HeardInv' BY <1>1, <1>7 DEF BroadcastInv, HeardInv
<1> QED BY <1>5, <1>8 DEF BroadcastInv

(* Every step of the mailbox keeps what is said of the broadcast. *)
LEMMA BroadcastStep ==
    ASSUME BroadcastInv, [BoxNext]_boxVars
    PROVE  BroadcastInv'
<1>1. BoxInv' BY BoxStep DEF BroadcastInv
<1>2. CASE UNCHANGED <<drains, boxTaken, heard>>
  BY <1>1, <1>2 DEF BroadcastInv, FrameInv, HeardInv, Waits
<1>3. CASE ScheduledDrain \/ CallDrain
  <2>1. BeginDrain /\ UNCHANGED <<boxTaken, heard>> BY <1>3 DEF ScheduledDrain, CallDrain
  <2> QED BY <1>1, <2>1, BeginKeeps
<1>4. CASE TakeNext BY <1>1, <1>4, TakeKeepsBroadcast
<1>5. CASE CallListener BY <1>1, <1>5, CallKeeps
<1>6. CASE EndDrain BY <1>1, <1>6, EndKeeps
<1>7. CASE PushEvent BY <1>2, <1>7 DEF PushEvent
<1> QED BY <1>2, <1>3, <1>4, <1>5, <1>6, <1>7 DEF BoxNext, boxVars

(* How many numbers there are up to n. *)
LEMMA UpTo ==
    ASSUME NEW n \in Nat
    PROVE  IsFiniteSet(1..n) /\ Cardinality(1..n) = n
<1>1. n \in Int /\ 1 \in Int OBVIOUS
<1>2. IsFiniteSet(1..n) /\ Cardinality(1..n) = IF 1 > n THEN 0 ELSE n - 1 + 1
  BY <1>1, FS_Interval, ZenonT(30)
<1> QED BY <1>2

(* Two lists without repetition that have the same elements are as long. *)
LEMMA SameElementsSameLength ==
    ASSUME NEW s \in Seq(Nat), NEW r \in Seq(Nat), Range(s) = Range(r),
           \A i, j \in 1..Len(s) : s[i] = s[j] => i = j,
           \A i, j \in 1..Len(r) : r[i] = r[j] => i = j
    PROVE  Len(s) = Len(r)
<1>1. ASSUME NEW u \in Seq(Nat), \A i, j \in 1..Len(u) : u[i] = u[j] => i = j
      PROVE  Cardinality(Range(u)) = Len(u)
  <2>1. Len(u) \in Nat /\ DOMAIN u = 1..Len(u) OBVIOUS
  <2>2. IsFiniteSet(1..Len(u)) /\ Cardinality(1..Len(u)) = Len(u) BY <2>1, UpTo
  <2>3. u \in Bijection(1..Len(u), Range(u))
    <3>1. u \in [1..Len(u) -> Range(u)] BY <2>1 DEF Range
    <3>2. \A x \in Range(u) : \E i \in 1..Len(u) : u[i] = x BY <2>1 DEF Range
    <3> QED BY <1>1, <3>1, <3>2 DEF Bijection, Injection, Surjection, IsInjective
  <2> QED BY <2>2, <2>3, FS_Bijection DEF ExistsBijection
<1>2. Cardinality(Range(s)) = Len(s) BY <1>1
<1>3. Cardinality(Range(r)) = Len(r) BY <1>1
<1> QED BY <1>2, <1>3

(* No listener hears an event twice, and all have heard all when the stack is empty. *)
LEMMA BroadcastSound == BroadcastInv => BroadcastOnce
<1> SUFFICES ASSUME BroadcastInv, NEW l \in 1..Listeners, drains = << >>
             PROVE  Len(heard[l]) = Len(boxTaken)
  BY DEF BroadcastInv, HeardInv, BroadcastOnce
<1>1. Len(drains) = 0 BY EmptySeq
<1>2. \A e : ~Waits(l, e) BY <1>1 DEF Waits
<1>3. Range(heard[l]) = Range(boxTaken) BY <1>2 DEF BroadcastInv, HeardInv
<1>4. heard[l] \in Seq(Nat) /\ boxTaken \in Seq(Nat) BY DEF BroadcastInv, HeardInv, BoxInv
<1>5. \A i, j \in 1..Len(heard[l]) : heard[l][i] = heard[l][j] => i = j
  BY DEF BroadcastInv, HeardInv
<1>6. \A i, j \in 1..Len(boxTaken) : boxTaken[i] = boxTaken[j] => i = j
  <2>1. \A i, j \in 1..Len(boxTaken) : i < j => boxTaken[i] < boxTaken[j]
    BY DEF BroadcastInv, BoxInv, BoxOrder, Rises
  <2>2. \A i \in 1..Len(boxTaken) : boxTaken[i] \in Nat BY <1>4, ElementOfSeq
  <2>3. \A i, j \in 1..Len(boxTaken) : i < j \/ i = j \/ j < i OBVIOUS
  <2> QED BY <2>1, <2>2, <2>3
<1> QED BY <1>3, <1>4, <1>5, <1>6, SameElementsSameLength

(* A broadcast and not a steal, for any number of listeners and any depth of drains
   inside one another. *)
THEOREM BroadcastInvariant == BoxSpec => []BroadcastInv
<1>1. BoxInit => BroadcastInv BY BroadcastStarts
<1>2. BroadcastInv /\ [BoxNext]_boxVars => BroadcastInv' BY BroadcastStep
<1> QED BY <1>1, <1>2, PTL DEF BoxSpec

-----------------------------------------------------------------------------
(* The monitor's events.  Every event has its place among all that were enqueued,
   whatever number it carries, and whoever calls the monitor can only do one of these
   to them. *)
EventKinds == {"hop", "upcall", "reply", "reject"}
IpcEvent ==
    [nth : Nat, seq : Nat, kind : EventKinds, ticket : Tickets, by : {"caller", "queue"}]

Entered(kind, by, number, t) ==
    /\ kind \in EventKinds /\ by \in {"caller", "queue"} /\ t \in Tickets
    /\ number \in {0} \cup Numbers /\ (kind = "upcall" => by = "caller")
    /\ Enqueue(kind, by, number, t)

IpcMove ==
    \/ \E kind \in EventKinds, number \in {0} \cup Numbers, t \in Tickets :
        Enqueue(kind, "caller", number, t) /\ UNCHANGED rejects
    \/ \E t \in Tickets : Reject(t) \/ RejectElsewhere(t)
    \/ DrainIpc

IpcMoves == IpcInit /\ [][IpcMove]_ipcVars

PostedInv ==
    /\ posted \in Seq(IpcEvent)
    /\ \A i \in 1..Len(posted) : posted[i].nth = i

(* The event that is enqueued next. *)
NewEvent(kind, by, number, t) ==
    [nth |-> Len(posted) + 1, seq |-> NumberFor(number), kind |-> kind, ticket |-> t,
     by |-> by]

(* A reject that the queue makes is an event of it. *)
LEMMA RejectEnters ==
    ASSUME NEW t \in Tickets, Reject(t)
    PROVE  Entered("reject", "queue", 0, t)
BY DEF Reject, Entered, EventKinds

(* So is what a caller pushes. *)
LEMMA CallerEnters ==
    ASSUME NEW kind \in EventKinds, NEW number \in {0} \cup Numbers, NEW t \in Tickets,
           Enqueue(kind, "caller", number, t)
    PROVE  Entered(kind, "caller", number, t)
BY DEF Entered

(* Rights and roles decide only whether an event or a reject is enqueued. *)
LEMMA PushMoves ==
    ASSUME NEW c, NEW kind, NEW allowlisted, NEW number \in {0} \cup Numbers,
           NEW t \in Tickets, PushIpc(c, kind, allowlisted, number, t)
    PROVE  IpcMove
<1>1. CASE Admits(c, kind, allowlisted)
  <2>1. kind \in DOMAIN Needs /\ kind # "vote" BY <1>1 DEF Admits
  <2>2. kind \in EventKinds BY <2>1 DEF Needs, EventKinds
  <2>3. Enqueue(kind, "caller", number, t) /\ UNCHANGED rejects BY <1>1 DEF PushIpc
  <2> QED BY <2>2, <2>3 DEF IpcMove
<1>2. CASE ~Admits(c, kind, allowlisted) BY <1>2 DEF PushIpc, IpcMove
<1> QED BY <1>1, <1>2

(* Every caller of the monitor makes such moves only. *)
LEMMA CallersMove == IpcNext => IpcMove
<1> SUFFICES ASSUME IpcNext PROVE IpcMove OBVIOUS
<1>1. ASSUME NEW c \in Callers, NEW t \in Tickets, ObserveHop(c, t) PROVE IpcMove
  BY <1>1, PushMoves DEF ObserveHop
<1>2. ASSUME NEW c \in Callers, NEW t \in Tickets, NEW number \in {0} \cup Numbers,
             NEW kind, NEW allowlisted, Post(c, kind, allowlisted, number, t)
      PROVE  IpcMove
  <2>1. PushIpc(c, kind, allowlisted, number, t) \/ Reject(t) BY <1>2 DEF Post
  <2> QED BY <2>1, PushMoves DEF IpcMove
<1>3. ASSUME NEW c \in Callers, NEW t \in Tickets, NEW number \in {0} \cup Numbers,
             Reply(c, number, t)
      PROVE  IpcMove
  <2>1. PushIpc(c, "reply", TRUE, number, t) \/ Reject(t) BY <1>3 DEF Reply
  <2> QED BY <2>1, PushMoves DEF IpcMove
<1>4. ASSUME NEW c \in Callers, NEW t \in Tickets, WaitDenied(c, t) PROVE IpcMove
  BY <1>4 DEF WaitDenied, IpcMove
<1>5. ASSUME NEW t \in Tickets, RejectElsewhere(t) PROVE IpcMove BY <1>5 DEF IpcMove
<1>6. ASSUME CallIpcDrain \/ ScheduledIpcDrain PROVE IpcMove
  BY <1>6 DEF CallIpcDrain, ScheduledIpcDrain, IpcMove
<1> QED BY <1>1, <1>2, <1>3, <1>4, <1>5, <1>6 DEF IpcNext

(* An event that is enqueued is the last of all. *)
LEMMA EnqueueShape ==
    ASSUME PostedInv, NEW kind, NEW by, NEW number, NEW t, Entered(kind, by, number, t)
    PROVE  LET e == NewEvent(kind, by, number, t)
           IN /\ e \in IpcEvent /\ t \in Tickets /\ posted' = Append(posted, e)
              /\ Len(posted) \in Nat /\ Len(posted') = Len(posted) + 1
              /\ posted'[Len(posted) + 1] = e
              /\ \A i \in 1..Len(posted) : posted'[i] = posted[i]
              /\ PostedInv'
<1> DEFINE e == NewEvent(kind, by, number, t)
<1>1. posted \in Seq(IpcEvent) /\ Len(posted) \in Nat BY DEF PostedInv
<1>2. e \in IpcEvent /\ e.nth = Len(posted) + 1
  <2>1. NumberFor(number) \in Nat BY <1>1, IpcAssumption DEF Entered, NumberFor
  <2> QED BY <1>1, <2>1 DEF IpcEvent, NewEvent, Entered
<1>3. posted' = Append(posted, e) BY DEF Entered, Enqueue, NewEvent
<1> HIDE DEF e
<1>4. /\ posted' \in Seq(IpcEvent) /\ Len(posted') = Len(posted) + 1
      /\ posted'[Len(posted) + 1] = e
      /\ \A i \in 1..Len(posted) : posted'[i] = posted[i]
  BY <1>1, <1>2, <1>3, AppendProperties
<1>5. \A i \in 1..Len(posted') : posted'[i].nth = i
  <2>1. \A i \in 1..Len(posted') : i \in 1..Len(posted) \/ i = Len(posted) + 1 BY <1>1, <1>4
  <2> QED BY <1>2, <1>4, <2>1 DEF PostedInv
<1>6. PostedInv' BY <1>4, <1>5 DEF PostedInv
<1> QED BY <1>1, <1>2, <1>3, <1>4, <1>6 DEF e, Entered

(* A move either enqueues one event or leaves all that were enqueued alone. *)
LEMMA PostedStep ==
    ASSUME PostedInv, [IpcMove]_ipcVars
    PROVE  PostedInv'
<1>1. CASE UNCHANGED ipcVars BY <1>1 DEF ipcVars, PostedInv
<1>2. ASSUME NEW kind, NEW by, NEW number, NEW t, Entered(kind, by, number, t) PROVE PostedInv'
  BY <1>2, EnqueueShape
<1>3. ASSUME NEW t \in Tickets, Reject(t) PROVE PostedInv' BY <1>2, <1>3, RejectEnters
<1>4. CASE UNCHANGED posted BY <1>4 DEF PostedInv
<1>5. ASSUME NEW kind \in EventKinds, NEW number \in {0} \cup Numbers, NEW t \in Tickets,
             Enqueue(kind, "caller", number, t)
      PROVE  PostedInv'
  BY <1>2, <1>5, CallerEnters
<1> QED BY <1>1, <1>3, <1>4, <1>5 DEF IpcMove, RejectElsewhere, DrainIpc

-----------------------------------------------------------------------------
(* Rejects.  The table of rejects and the queue agree on who rejected a ticket. *)
RejectsOf(t) == {i \in 1..Len(posted) : /\ posted[i].kind = "reject"
                                        /\ posted[i].by = "queue"
                                        /\ posted[i].ticket = t}

RejectInv ==
    /\ PostedInv
    /\ rejects \in [Tickets -> {"none", "ipc", "other"}]
    /\ OneRejectPerTicket

(* The rejects of a ticket are finitely many. *)
LEMMA RejectsFinite ==
    ASSUME PostedInv, NEW t
    PROVE  IsFiniteSet(RejectsOf(t)) /\ Cardinality(RejectsOf(t)) \in Nat
<1>1. Len(posted) \in Nat BY DEF PostedInv
<1>2. IsFiniteSet(1..Len(posted)) BY <1>1, UpTo
<1>3. RejectsOf(t) \in SUBSET (1..Len(posted)) BY DEF RejectsOf
<1>4. IsFiniteSet(RejectsOf(t)) BY <1>2, <1>3, FS_Subset
<1> QED BY <1>4, FS_CardinalityType

(* Nothing is rejected at first. *)
LEMMA RejectsStart == IpcInit => RejectInv
<1> SUFFICES ASSUME IpcInit PROVE RejectInv OBVIOUS
<1>1. posted = << >> /\ rejects = [t \in Tickets |-> "none"] BY DEF IpcInit
<1>2. posted \in Seq(IpcEvent) /\ Len(posted) = 0 BY <1>1, EmptySeq
<1>3. PostedInv BY <1>2 DEF PostedInv
<1>4. ASSUME NEW t \in Tickets
      PROVE  RejectsOf(t) = {} /\ rejects[t] = "none"
  BY <1>1, <1>2 DEF RejectsOf
<1>5. OneRejectPerTicket BY <1>4, FS_EmptySet DEF OneRejectPerTicket, RejectsOf
<1> QED BY <1>1, <1>3, <1>5 DEF RejectInv

(* Every move keeps one reject for a ticket that this component rejected first. *)
LEMMA RejectStep ==
    ASSUME RejectInv, [IpcMove]_ipcVars
    PROVE  RejectInv'
<1>0. PostedInv /\ PostedInv' BY PostedStep DEF RejectInv
<1>00. \A t \in Tickets : Cardinality(RejectsOf(t)) = (IF rejects[t] = "ipc" THEN 1 ELSE 0)
  BY DEF RejectInv, OneRejectPerTicket, RejectsOf
<1>1. ASSUME NEW kind, NEW by, NEW number, NEW t, Entered(kind, by, number, t), NEW u
      PROVE  /\ kind = "reject" /\ by = "queue" /\ u = t =>
                   RejectsOf(u)' = RejectsOf(u) \cup {Len(posted) + 1}
             /\ by # "queue" \/ u # t => RejectsOf(u)' = RejectsOf(u)
  <2> DEFINE e == NewEvent(kind, by, number, t)
  <2>1. /\ Len(posted) \in Nat /\ Len(posted') = Len(posted) + 1
        /\ posted'[Len(posted) + 1] = e
        /\ \A i \in 1..Len(posted) : posted'[i] = posted[i]
    BY <1>0, <1>1, EnqueueShape
  <2>2. e.kind = kind /\ e.by = by /\ e.ticket = t BY DEF NewEvent
  <2> HIDE DEF e
  <2>3. \A i : i \in 1..Len(posted') <=> i \in 1..Len(posted) \/ i = Len(posted) + 1
    BY <2>1
  <2>4. ASSUME NEW i
        PROVE  i \in RejectsOf(u)' <=>
                 \/ i \in RejectsOf(u)
                 \/ i = Len(posted) + 1 /\ kind = "reject" /\ by = "queue" /\ u = t
    BY <2>1, <2>2, <2>3 DEF RejectsOf
  <2> QED BY <2>4
<1>2. ASSUME NEW kind \in EventKinds, NEW number \in {0} \cup Numbers, NEW t \in Tickets,
             Enqueue(kind, "caller", number, t) /\ UNCHANGED rejects
      PROVE  RejectInv'
  <2>1. \A u \in Tickets : RejectsOf(u)' = RejectsOf(u) BY <1>1, <1>2, CallerEnters
  <2>2. OneRejectPerTicket' BY <1>2, <1>00, <2>1 DEF OneRejectPerTicket, RejectsOf
  <2> QED BY <1>0, <1>2, <2>2 DEF RejectInv
<1>3. ASSUME NEW t \in Tickets, Reject(t) PROVE RejectInv'
  <2>1. /\ rejects[t] = "none" /\ rejects' = [rejects EXCEPT ![t] = "ipc"]
        /\ Entered("reject", "queue", 0, t)
    BY <1>3, RejectEnters DEF Reject
  <2>2. RejectsOf(t)' = RejectsOf(t) \cup {Len(posted) + 1}
        /\ \A u \in Tickets \ {t} : RejectsOf(u)' = RejectsOf(u)
    BY <1>1, <2>1
  <2>3. Cardinality(RejectsOf(t)) = 0 /\ IsFiniteSet(RejectsOf(t))
    BY <1>0, <1>00, <2>1, RejectsFinite
  <2>4. Len(posted) + 1 \notin RejectsOf(t) BY <1>0 DEF RejectsOf, PostedInv
  <2>5. Cardinality(RejectsOf(t)') = 1 BY <2>2, <2>3, <2>4, FS_AddElement
  <2>6. rejects' \in [Tickets -> {"none", "ipc", "other"}] BY <2>1 DEF RejectInv
  <2>7. rejects'[t] = "ipc" /\ \A u \in Tickets \ {t} : rejects'[u] = rejects[u]
    BY <2>1 DEF RejectInv
  <2>8. \A u \in Tickets : Cardinality(RejectsOf(u)') = (IF rejects'[u] = "ipc" THEN 1 ELSE 0)
    BY <1>00, <2>2, <2>5, <2>7
  <2>9. OneRejectPerTicket' BY <2>8 DEF OneRejectPerTicket, RejectsOf
  <2> QED BY <1>0, <2>6, <2>9 DEF RejectInv
<1>4. ASSUME NEW t \in Tickets, RejectElsewhere(t) PROVE RejectInv'
  <2>1. /\ rejects' \in [Tickets -> {"none", "ipc", "other"}] /\ posted' = posted
        /\ \A u \in Tickets : rejects'[u] = "ipc" <=> rejects[u] = "ipc"
    BY <1>4 DEF RejectElsewhere, RejectInv
  <2>2. OneRejectPerTicket' BY <2>1 DEF RejectInv, OneRejectPerTicket
  <2> QED BY <1>0, <2>1, <2>2 DEF RejectInv
<1>5. CASE UNCHANGED <<posted, rejects>>
  <2>1. OneRejectPerTicket' BY <1>5 DEF RejectInv, OneRejectPerTicket
  <2> QED BY <1>0, <1>5, <2>1 DEF RejectInv
<1> QED BY <1>2, <1>3, <1>4, <1>5 DEF IpcMove, DrainIpc, ipcVars

(* A ticket is rejected once for all callers, however many ask. *)
THEOREM RejectInvariant == IpcMoves => []RejectInv
<1>1. RejectInv /\ [IpcMove]_ipcVars => RejectInv' BY RejectStep
<1> QED BY <1>1, RejectsStart, PTL DEF IpcMoves

-----------------------------------------------------------------------------
(* What the owner of a ticket recalls.  The events kept under a ticket are its newest
   ones, each as far from the end as there are newer ones of the ticket. *)
NewerOf(p, i, t) == {j \in (i + 1)..Len(p) : p[j].ticket = t}

FoundUnder(t, i) ==
    LET n == Cardinality(NewerOf(posted, i, t)) IN
    n < IpcRecent => n < Len(byTicket[t]) /\ byTicket[t][Len(byTicket[t]) - n] = posted[i]

(* Copies of what was enqueued, and of nothing else. *)
CopiesOf(s, p) == \A m \in 1..Len(s) : \E k \in 1..Len(p) : s[m] = p[k]

RecallInv ==
    /\ PostedInv
    /\ byTicket \in [Tickets -> Seq(IpcEvent)]
    /\ recentBuf \in Seq(IpcEvent) /\ CopiesOf(recentBuf, posted)
    /\ \A t \in Tickets : CopiesOf(byTicket[t], posted)
    /\ \A t \in Tickets : \A i \in 1..Len(posted) : posted[i].ticket = t => FoundUnder(t, i)

(* The newest elements of a list keep their distance from its end. *)
LEMMA LastOnesShape ==
    ASSUME NEW S, NEW s \in Seq(S)
    PROVE  /\ LastOnes(s) \in Seq(S) /\ Len(LastOnes(s)) \in Nat
           /\ \A m \in 1..Len(LastOnes(s)) : \E i \in 1..Len(s) : LastOnes(s)[m] = s[i]
           /\ \A n \in Nat : n < IpcRecent /\ n < Len(s) =>
                n < Len(LastOnes(s)) /\ LastOnes(s)[Len(LastOnes(s)) - n] = s[Len(s) - n]
<1> DEFINE k == IF Len(s) > IpcRecent THEN Len(s) - IpcRecent ELSE 0
           r == SubSeq(s, 1 + k, Len(s))
<1>1. /\ Len(s) \in Nat /\ IpcRecent \in Nat \ {0} /\ k \in Nat /\ k <= Len(s)
      /\ Len(s) > IpcRecent => k = Len(s) - IpcRecent
      /\ Len(s) <= IpcRecent => k = 0
  BY IpcAssumption
<1>2. LastOnes(s) = r BY DEF LastOnes
<1> HIDE DEF k
<1>3. /\ r \in Seq(S) /\ Len(r) = Len(s) - k
      /\ \A i \in 1..(Len(s) - k) : r[i] = s[k + i]
  <2>1. 1 + k \in Int /\ Len(s) \in Int /\ \A i \in (1 + k)..Len(s) : s[i] \in S
    BY <1>1, ElementOfSeq
  <2> DEFINE a == 1 + k
             b == Len(s)
  <2>2. a \in Int /\ b \in Int /\ \A i \in a..b : s[i] \in S BY <2>1
  <2>3. a = 1 + k /\ b = Len(s) /\ r = SubSeq(s, a, b) OBVIOUS
  <2> HIDE DEF a, b, r
  <2>4. /\ SubSeq(s, a, b) \in Seq(S)
        /\ Len(SubSeq(s, a, b)) = IF a <= b THEN b - a + 1 ELSE 0
        /\ \A i \in 1..(b - a + 1) : SubSeq(s, a, b)[i] = s[a + i - 1]
    BY <2>2, SubSeqProperties
  <2>5. Len(r) = Len(s) - k BY <1>1, <2>3, <2>4
  <2>6. ASSUME NEW i \in 1..(Len(s) - k) PROVE r[i] = s[k + i]
    <3>1. i \in 1..(b - a + 1) /\ a + i - 1 = k + i BY <1>1, <2>3
    <3> QED BY <2>3, <2>4, <3>1
  <2> QED BY <2>3, <2>4, <2>5, <2>6
<1> HIDE DEF r
<1>4. ASSUME NEW n \in Nat, n < IpcRecent, n < Len(s)
      PROVE  n < Len(r) /\ r[Len(r) - n] = s[Len(s) - n]
  <2>1. n < Len(s) - k BY <1>1, <1>4
  <2>2. Len(r) - n \in 1..(Len(s) - k) /\ k + (Len(r) - n) = Len(s) - n BY <1>1, <1>3, <2>1
  <2> QED BY <1>3, <2>1, <2>2
<1>5. ASSUME NEW m \in 1..Len(r) PROVE \E i \in 1..Len(s) : r[m] = s[i]
  <2>1. m \in 1..(Len(s) - k) /\ k + m \in 1..Len(s) BY <1>1, <1>3
  <2> QED BY <1>3, <2>1
<1> QED BY <1>1, <1>2, <1>3, <1>4, <1>5

(* The newest ones of copies and a new event are copies of what is enqueued then. *)
LEMMA CopiesGrow ==
    ASSUME NEW S, NEW s \in Seq(S), NEW T, NEW p \in Seq(T), NEW e \in S, e \in T,
           CopiesOf(s, p)
    PROVE  CopiesOf(LastOnes(Append(s, e)), Append(p, e)) /\ CopiesOf(s, Append(p, e))
<1> DEFINE a == Append(s, e)
           b == Append(p, e)
           l == LastOnes(a)
<1>1. /\ a \in Seq(S) /\ Len(s) \in Nat /\ Len(a) = Len(s) + 1 /\ a[Len(s) + 1] = e
      /\ \A i \in 1..Len(s) : a[i] = s[i]
  BY AppendProperties
<1>2. /\ Len(p) \in Nat /\ Len(b) = Len(p) + 1 /\ b[Len(p) + 1] = e
      /\ \A i \in 1..Len(p) : b[i] = p[i]
  BY AppendProperties
<1> HIDE DEF a, b
<1>3. \A m \in 1..Len(l) : \E i \in 1..Len(a) : l[m] = a[i] BY <1>1, LastOnesShape, ZenonT(60)
<1>4. CopiesOf(s, b)
  <2>1. \A k \in 1..Len(p) : k \in 1..Len(b) BY <1>2
  <2> QED BY <1>2, <2>1 DEF CopiesOf
<1>5. CopiesOf(a, b)
  <2>1. \A i \in 1..Len(a) : i \in 1..Len(s) \/ i = Len(s) + 1 BY <1>1
  <2>2. Len(p) + 1 \in 1..Len(b) BY <1>2
  <2> QED BY <1>1, <1>2, <1>4, <2>1, <2>2 DEF CopiesOf
<1> HIDE DEF l
<1>6. CopiesOf(l, b) BY <1>3, <1>5 DEF CopiesOf
<1> QED BY <1>4, <1>6 DEF a, b, l

(* The newer events of a ticket are finitely many; one that is enqueued is one more. *)
LEMMA NewerGrow ==
    ASSUME PostedInv, NEW kind, NEW by, NEW number, NEW t, Entered(kind, by, number, t),
           NEW u \in Tickets
    PROVE  /\ \A i \in 1..Len(posted) :
                 /\ Cardinality(NewerOf(posted, i, u)) \in Nat
                 /\ Cardinality(NewerOf(posted', i, u)) =
                      Cardinality(NewerOf(posted, i, u)) + (IF u = t THEN 1 ELSE 0)
           /\ Cardinality(NewerOf(posted', Len(posted) + 1, u)) = 0
<1> DEFINE e == NewEvent(kind, by, number, t)
<1>1. /\ Len(posted) \in Nat /\ Len(posted') = Len(posted) + 1
      /\ posted'[Len(posted) + 1] = e
      /\ \A i \in 1..Len(posted) : posted'[i] = posted[i]
  BY EnqueueShape
<1>2. e.ticket = t BY DEF NewEvent
<1> HIDE DEF e
<1>3. ASSUME NEW i \in 1..Len(posted)
      PROVE  /\ Cardinality(NewerOf(posted, i, u)) \in Nat
             /\ Cardinality(NewerOf(posted', i, u)) =
                  Cardinality(NewerOf(posted, i, u)) + (IF u = t THEN 1 ELSE 0)
  <2>1. IsFiniteSet(NewerOf(posted, i, u)) /\ Len(posted) + 1 \notin NewerOf(posted, i, u)
    <3>1. NewerOf(posted, i, u) \in SUBSET (1..Len(posted)) BY <1>1 DEF NewerOf
    <3>2. Len(posted) + 1 \notin 1..Len(posted) BY <1>1
    <3> QED BY <1>1, <3>1, <3>2, UpTo, FS_Subset
  <2>2. \A j : j \in (i + 1)..Len(posted') <=>
                  j \in (i + 1)..Len(posted) \/ j = Len(posted) + 1
    BY <1>1
  <2>3. ASSUME NEW j
        PROVE  j \in NewerOf(posted', i, u) <=>
                 j \in NewerOf(posted, i, u) \/ (j = Len(posted) + 1 /\ u = t)
    <3>1. \A m \in (i + 1)..Len(posted) : m \in 1..Len(posted) BY <1>1
    <3> QED BY <1>1, <1>2, <2>2, <3>1 DEF NewerOf
  <2>4. Cardinality(NewerOf(posted, i, u)) \in Nat BY <2>1, FS_CardinalityType
  <2>5. CASE u = t
    <3>1. NewerOf(posted', i, u) = NewerOf(posted, i, u) \cup {Len(posted) + 1} BY <2>3, <2>5
    <3> QED BY <2>1, <2>4, <2>5, <3>1, FS_AddElement
  <2>6. CASE u # t
    <3>1. NewerOf(posted', i, u) = NewerOf(posted, i, u) BY <2>3, <2>6
    <3> QED BY <2>4, <2>6, <3>1
  <2> QED BY <2>5, <2>6
<1>4. Cardinality(NewerOf(posted', Len(posted) + 1, u)) = 0
  <2>1. \A j : j \notin (Len(posted) + 1 + 1)..Len(posted') BY <1>1
  <2>2. NewerOf(posted', Len(posted) + 1, u) = {} BY <2>1 DEF NewerOf
  <2> QED BY <2>2, FS_EmptySet
<1> QED BY <1>3, <1>4

(* Nothing is kept at first. *)
LEMMA RecallStarts == IpcInit => RecallInv
<1> SUFFICES ASSUME IpcInit PROVE RecallInv OBVIOUS
<1>1. /\ posted = << >> /\ byTicket = [t \in Tickets |-> << >>]
      /\ recentBuf = << >>
  BY DEF IpcInit
<1>2. << >> \in Seq(IpcEvent) /\ Len(<< >>) = 0 BY EmptySeq
<1>3. PostedInv BY <1>1, <1>2 DEF PostedInv
<1> QED BY <1>1, <1>2, <1>3 DEF RecallInv, CopiesOf

(* An event that is enqueued is kept, with those that stay near enough to it. *)
LEMMA EnqueueRecalls ==
    ASSUME RecallInv, NEW kind, NEW by, NEW number, NEW t, Entered(kind, by, number, t)
    PROVE  RecallInv'
<1> DEFINE e == NewEvent(kind, by, number, t)
           s == Append(byTicket[t], e)
           m == Len(byTicket[t])
<1>0. PostedInv BY DEF RecallInv
<1>1. /\ Len(posted) \in Nat /\ Len(posted') = Len(posted) + 1 /\ PostedInv'
      /\ posted'[Len(posted) + 1] = e /\ e \in IpcEvent
      /\ \A i \in 1..Len(posted) : posted'[i] = posted[i]
  BY <1>0, EnqueueShape
<1>2. e.ticket = t /\ t \in Tickets BY DEF NewEvent, Entered
<1>3. byTicket' = [byTicket EXCEPT ![t] = LastOnes(s)]
  BY DEF Entered, Enqueue, Bucket, NewEvent
<1> HIDE DEF e
<1>4. byTicket[t] \in Seq(IpcEvent) /\ m \in Nat BY <1>2 DEF RecallInv
<1>5. /\ s \in Seq(IpcEvent) /\ Len(s) = m + 1 /\ s[m + 1] = e
      /\ \A i \in 1..m : s[i] = byTicket[t][i]
  BY <1>1, <1>4, AppendProperties
<1> HIDE DEF s, m
<1>6. /\ LastOnes(s) \in Seq(IpcEvent)
      /\ \A n \in Nat : n < IpcRecent /\ n < m + 1 =>
            n < Len(LastOnes(s)) /\ LastOnes(s)[Len(LastOnes(s)) - n] = s[m + 1 - n]
  <2>1. /\ LastOnes(s) \in Seq(IpcEvent)
        /\ \A n \in Nat : n < IpcRecent /\ n < Len(s) =>
              n < Len(LastOnes(s)) /\ LastOnes(s)[Len(LastOnes(s)) - n] = s[Len(s) - n]
    BY <1>5, LastOnesShape, ZenonT(30)
  <2>2. Len(s) = m + 1 BY <1>5
  <2> DEFINE l == Len(s)
  <2>3. /\ l = m + 1
        /\ \A n \in Nat : n < IpcRecent /\ n < l =>
              n < Len(LastOnes(s)) /\ LastOnes(s)[Len(LastOnes(s)) - n] = s[l - n]
    BY <2>1, <2>2
  <2> HIDE DEF l
  <2>4. ASSUME NEW n \in Nat, n < IpcRecent, n < m + 1
        PROVE  n < Len(LastOnes(s)) /\ LastOnes(s)[Len(LastOnes(s)) - n] = s[m + 1 - n]
    <3>1. n < l /\ l - n = m + 1 - n BY <1>4, <2>3, <2>4
    <3> QED BY <2>3, <2>4, <3>1
  <2> QED BY <2>1, <2>4
<1>7. /\ byTicket' \in [Tickets -> Seq(IpcEvent)] /\ byTicket'[t] = LastOnes(s)
      /\ \A u \in Tickets : u # t => byTicket'[u] = byTicket[u]
  BY <1>2, <1>3, <1>6 DEF RecallInv
<1>8. ASSUME NEW u \in Tickets, NEW i \in 1..Len(posted'), posted'[i].ticket = u
      PROVE  FoundUnder(u, i)'
  <2> DEFINE n == Cardinality(NewerOf(posted, i, u))
             nn == Cardinality(NewerOf(posted', i, u))
  <2>1. CASE i = Len(posted) + 1
    <3>1. u = t /\ nn = 0
      <4>1. u = t BY <1>1, <1>2, <1>8, <2>1
      <4>2. Cardinality(NewerOf(posted', Len(posted) + 1, u)) = 0 BY <1>0, NewerGrow
      <4> QED BY <2>1, <4>1, <4>2
    <3>2. /\ 0 < Len(LastOnes(s)) /\ LastOnes(s)[Len(LastOnes(s)) - 0] = s[m + 1 - 0]
          /\ m + 1 - 0 = m + 1
      BY <1>4, <1>6, IpcAssumption
    <3>3. posted'[i] = s[m + 1] BY <1>1, <1>5, <2>1
    <3> HIDE DEF nn
    <3>4. nn < IpcRecent => /\ nn < Len(byTicket'[u])
                            /\ byTicket'[u][Len(byTicket'[u]) - nn] = posted'[i]
      BY <1>7, <3>1, <3>2, <3>3
    <3> QED BY <3>4 DEF FoundUnder, nn
  <2>2. CASE i \in 1..Len(posted)
    <3>1. n \in Nat /\ nn = n + (IF u = t THEN 1 ELSE 0) BY <1>0, <2>2, NewerGrow
    <3>2. posted'[i] = posted[i] /\ posted[i].ticket = u BY <1>1, <1>8, <2>2
    <3>3. n < IpcRecent => n < Len(byTicket[u]) /\ byTicket[u][Len(byTicket[u]) - n] = posted[i]
      BY <2>2, <3>2 DEF RecallInv, FoundUnder
    <3> HIDE DEF n, nn
    <3>4. CASE u = t
      <4>1. SUFFICES ASSUME nn < IpcRecent
                     PROVE  /\ nn < Len(byTicket'[u])
                            /\ byTicket'[u][Len(byTicket'[u]) - nn] = posted'[i]
        BY DEF FoundUnder, nn
      <4>2. nn = n + 1 /\ n < IpcRecent /\ nn \in Nat BY <3>1, <3>4, <4>1, IpcAssumption
      <4>3. n < m /\ byTicket[t][m - n] = posted[i] BY <3>3, <3>4, <4>2 DEF m
      <4>4. nn < m + 1 /\ m + 1 - nn = m - n /\ m - n \in 1..m BY <1>4, <3>1, <4>2, <4>3
      <4>5. nn < Len(LastOnes(s)) /\ LastOnes(s)[Len(LastOnes(s)) - nn] = s[m - n]
        BY <1>6, <4>1, <4>2, <4>4
      <4> QED BY <1>5, <1>7, <3>2, <3>4, <4>3, <4>4, <4>5
    <3>5. CASE u # t
      <4>1. nn = n /\ byTicket'[u] = byTicket[u] BY <1>7, <3>1, <3>5
      <4>2. nn < IpcRecent => /\ nn < Len(byTicket'[u])
                              /\ byTicket'[u][Len(byTicket'[u]) - nn] = posted'[i]
        BY <3>2, <3>3, <4>1
      <4> QED BY <4>2 DEF FoundUnder, nn
    <3> QED BY <3>4, <3>5
  <2> QED BY <1>1, <2>1, <2>2
<1>9. /\ recentBuf' \in Seq(IpcEvent) /\ CopiesOf(recentBuf', posted')
      /\ CopiesOf(byTicket[t], posted) /\ CopiesOf(LastOnes(s), posted')
      /\ \A u \in Tickets : CopiesOf(byTicket[u], posted')
  <2>1. posted' = Append(posted, e) /\ posted \in Seq(IpcEvent)
    BY <1>0, EnqueueShape DEF PostedInv, e
  <2>2. recentBuf' = LastOnes(Append(recentBuf, e)) BY DEF Entered, Enqueue, NewEvent, e
  <2>3. recentBuf \in Seq(IpcEvent) /\ CopiesOf(recentBuf, posted)
        /\ \A u \in Tickets : byTicket[u] \in Seq(IpcEvent) /\ CopiesOf(byTicket[u], posted)
    BY DEF RecallInv
  <2>4. Append(recentBuf, e) \in Seq(IpcEvent) BY <1>1, <2>3, AppendProperties
  <2>5. recentBuf' \in Seq(IpcEvent) BY <2>2, <2>4, LastOnesShape, ZenonT(60)
  <2>6. CopiesOf(recentBuf', posted') BY <1>1, <2>1, <2>2, <2>3, CopiesGrow, ZenonT(60)
  <2>7. \A u \in Tickets : /\ CopiesOf(byTicket[u], posted')
                           /\ CopiesOf(LastOnes(Append(byTicket[u], e)), posted')
    BY <1>1, <2>1, <2>3, CopiesGrow, ZenonT(60)
  <2> QED BY <1>2, <2>3, <2>5, <2>6, <2>7 DEF s
<1>10. \A u \in Tickets : CopiesOf(byTicket'[u], posted') BY <1>7, <1>9
<1> QED BY <1>1, <1>7, <1>8, <1>9, <1>10 DEF RecallInv

(* Every move keeps what is found under a ticket. *)
LEMMA RecallStep ==
    ASSUME RecallInv, [IpcMove]_ipcVars
    PROVE  RecallInv'
<1>1. ASSUME NEW t \in Tickets, Reject(t) PROVE RecallInv'
  BY <1>1, EnqueueRecalls, RejectEnters
<1>2. CASE UNCHANGED <<posted, byTicket, recentBuf>>
  <2>1. posted' = posted /\ byTicket' = byTicket /\ recentBuf' = recentBuf BY <1>2
  <2>2. ASSUME NEW t \in Tickets, NEW i \in 1..Len(posted), FoundUnder(t, i)
        PROVE  FoundUnder(t, i)'
    BY <2>1, <2>2 DEF FoundUnder
  <2>3. PostedInv' BY <2>1 DEF RecallInv, PostedInv
  <2> QED BY <2>1, <2>2, <2>3 DEF RecallInv
<1>3. ASSUME NEW kind \in EventKinds, NEW number \in {0} \cup Numbers, NEW t \in Tickets,
             Enqueue(kind, "caller", number, t)
      PROVE  RecallInv'
  BY <1>3, EnqueueRecalls, CallerEnters
<1>4. CASE (\E t \in Tickets : RejectElsewhere(t)) \/ DrainIpc \/ UNCHANGED ipcVars
  BY <1>2, <1>4 DEF RejectElsewhere, DrainIpc, ipcVars
<1> QED BY <1>1, <1>3, <1>4 DEF IpcMove

(* Whatever is drained or dropped, the newest events of a ticket are recalled. *)
THEOREM RecallInvariant == IpcMoves => []RecallInv
<1>1. RecallInv /\ [IpcMove]_ipcVars => RecallInv' BY RecallStep
<1> QED BY <1>1, RecallStarts, PTL DEF IpcMoves

-----------------------------------------------------------------------------
(* The merge of the two rings. *)

(* How many elements of a set come before one. *)
BelowIn(S, e) == {f \in S : Before(f, e)}
Rank(S, e) == Cardinality(BelowIn(S, e))

(* Events that can be ordered: no two of them have the same place. *)
Placed(S) ==
    /\ IsFiniteSet(S)
    /\ \A e \in S : e.nth \in Nat /\ e.seq \in Nat
    /\ \A e, f \in S : e.nth = f.nth => e = f

(* The order is total, and no event comes before itself. *)
LEMMA BeforeOrders ==
    ASSUME NEW S, Placed(S), NEW e \in S, NEW f \in S
    PROVE  /\ ~Before(e, e)
           /\ Before(e, f) \/ e = f \/ Before(f, e)
           /\ \A g \in S : Before(g, e) /\ Before(e, f) => Before(g, f)
<1>1. \A g \in S : g.nth \in Nat /\ g.seq \in Nat BY DEF Placed
<1>2. ~Before(e, e) BY <1>1 DEF Before
<1>3. Before(e, f) \/ e = f \/ Before(f, e)
  <2>1. e.nth = f.nth => e = f BY DEF Placed
  <2>2. e.nth < f.nth \/ e.nth = f.nth \/ f.nth < e.nth BY <1>1
  <2>3. e.seq < f.seq \/ e.seq = f.seq \/ f.seq < e.seq BY <1>1
  <2> QED BY <2>1, <2>2, <2>3 DEF Before
<1>4. ASSUME NEW g \in S, Before(g, e), Before(e, f) PROVE Before(g, f)
  <2>1. /\ g.nth \in Nat /\ e.nth \in Nat /\ f.nth \in Nat
        /\ g.seq \in Nat /\ e.seq \in Nat /\ f.seq \in Nat
    BY <1>1
  <2> QED BY <1>4, <2>1 DEF Before
<1> QED BY <1>2, <1>3, <1>4

(* Different events have different ranks, which are in their order. *)
LEMMA RanksRise ==
    ASSUME NEW S, Placed(S)
    PROVE  /\ \A e \in S : Rank(S, e) \in 0..(Cardinality(S) - 1)
           /\ \A e, f \in S : Before(e, f) => Rank(S, e) < Rank(S, f)
<1>0. IsFiniteSet(S) BY DEF Placed
<1>1. Cardinality(S) \in Nat BY <1>0, FS_CardinalityType
<1>2. ASSUME NEW e \in S PROVE Rank(S, e) \in 0..(Cardinality(S) - 1)
  <2>1. IsFiniteSet(S \ {e}) /\ Cardinality(S \ {e}) = Cardinality(S) - 1
    BY <1>0, <1>2, FS_RemoveElement
  <2>2. BelowIn(S, e) \in SUBSET (S \ {e}) BY <1>2, BeforeOrders DEF BelowIn
  <2>3. /\ IsFiniteSet(BelowIn(S, e)) /\ Cardinality(BelowIn(S, e)) <= Cardinality(S \ {e})
    BY <2>1, <2>2, FS_Subset
  <2>4. Cardinality(BelowIn(S, e)) \in Nat BY <2>3, FS_CardinalityType
  <2> QED BY <1>1, <2>1, <2>3, <2>4 DEF Rank
<1>3. ASSUME NEW e \in S, NEW f \in S, Before(e, f) PROVE Rank(S, e) < Rank(S, f)
  <2>1. BelowIn(S, e) \in SUBSET S /\ BelowIn(S, f) \in SUBSET S BY DEF BelowIn
  <2>2. IsFiniteSet(BelowIn(S, e)) /\ IsFiniteSet(BelowIn(S, f)) BY <1>0, <2>1, FS_Subset
  <2>3. e \notin BelowIn(S, e) BY BeforeOrders DEF BelowIn
  <2>4. Cardinality(BelowIn(S, e) \cup {e}) = Cardinality(BelowIn(S, e)) + 1
    BY <2>2, <2>3, FS_AddElement
  <2>5. BelowIn(S, e) \cup {e} \in SUBSET BelowIn(S, f) BY <1>3, BeforeOrders DEF BelowIn
  <2>6. Cardinality(BelowIn(S, e) \cup {e}) <= Cardinality(BelowIn(S, f))
    BY <2>2, <2>5, FS_Subset
  <2>7. Cardinality(BelowIn(S, e)) \in Nat /\ Cardinality(BelowIn(S, f)) \in Nat
    BY <2>2, FS_CardinalityType
  <2> QED BY <2>4, <2>6, <2>7 DEF Rank
<1> QED BY <1>2, <1>3

(* Every rank is taken: as many elements as ranks, and no two with the same. *)
LEMMA RanksFull ==
    ASSUME NEW S, Placed(S)
    PROVE  /\ \A e, f \in S : Rank(S, e) = Rank(S, f) => e = f
           /\ \A k \in 1..Cardinality(S) : \E e \in S : Rank(S, e) = k - 1
<1> DEFINE n == Cardinality(S)
           R == [e \in S |-> Rank(S, e) + 1]
<1>0. IsFiniteSet(S) BY DEF Placed
<1>1. n \in Nat BY <1>0, FS_CardinalityType
<1>2. /\ \A e \in S : Rank(S, e) \in 0..(n - 1)
      /\ \A e, f \in S : Before(e, f) => Rank(S, e) < Rank(S, f)
  BY RanksRise
<1>3. \A e, f \in S : Rank(S, e) = Rank(S, f) => e = f
  <2>1. \A e, f \in S : Before(e, f) \/ e = f \/ Before(f, e) BY BeforeOrders
  <2> HIDE DEF n
  <2> QED BY <1>1, <1>2, <2>1
<1> HIDE DEF n
<1>4. \A e \in S : Rank(S, e) + 1 \in 1..n /\ Rank(S, e) \in Nat BY <1>1, <1>2
<1>5. R \in [S -> 1..n] BY <1>4
<1>6. \A e, f \in DOMAIN R : R[e] = R[f] => e = f BY <1>3, <1>4
<1> HIDE DEF R
<1>7. R \in Injection(S, 1..n) BY <1>5, <1>6 DEF Injection, IsInjective
<1>8. IsFiniteSet(1..n) /\ Cardinality(1..n) = n BY <1>1, UpTo
<1>9. R \in Surjection(S, 1..n) BY <1>0, <1>7, <1>8, FS_Injection DEF n
<1>10. ASSUME NEW k \in 1..n PROVE \E e \in S : Rank(S, e) = k - 1
  <2>1. PICK e \in S : R[e] = k BY <1>9 DEF Surjection
  <2>2. Rank(S, e) + 1 = k BY <2>1 DEF R
  <2> QED BY <1>1, <1>4, <2>2
<1> QED BY <1>3, <1>10 DEF n

(* Events put in order are all of them, each once, in that order. *)
LEMMA BySeqMerges ==
    ASSUME NEW S, Placed(S)
    PROVE  /\ BySeq(S) \in Seq(S) /\ Len(BySeq(S)) = Cardinality(S)
           /\ Range(BySeq(S)) = S
           /\ \A i, j \in 1..Len(BySeq(S)) : i < j =>
                 Before(BySeq(S)[i], BySeq(S)[j]) /\ BySeq(S)[i] # BySeq(S)[j]
<1> DEFINE n == Cardinality(S)
           b == [k \in 1..n |-> CHOOSE e \in S : Rank(S, e) = k - 1]
<1>0. IsFiniteSet(S) BY DEF Placed
<1>1. n \in Nat BY <1>0, FS_CardinalityType
<1>2. BySeq(S) = b BY DEF BySeq, Rank, BelowIn
<1>3. /\ \A e, f \in S : Rank(S, e) = Rank(S, f) => e = f
      /\ \A k \in 1..n : \E e \in S : Rank(S, e) = k - 1
  BY RanksFull
<1>4. /\ \A e \in S : Rank(S, e) \in 0..(n - 1)
      /\ \A e, f \in S : Before(e, f) => Rank(S, e) < Rank(S, f)
  BY RanksRise
<1> HIDE DEF n
<1>5. \A k \in 1..n : b[k] \in S /\ Rank(S, b[k]) = k - 1 BY <1>3
<1>6. b \in [1..n -> S] BY <1>5
<1> HIDE DEF b
<1>7. b \in Seq(S) /\ Len(b) = n /\ DOMAIN b = 1..n
  <2>1. b \in Seq(S) BY <1>1, <1>6
  <2>2. DOMAIN b = 1..n BY <1>6
  <2>3. Len(b) \in Nat /\ DOMAIN b = 1..Len(b) BY <2>1, LenProperties
  <2> QED BY <1>1, <2>1, <2>2, <2>3
<1>8. Range(b) = S
  <2>1. ASSUME NEW e \in S PROVE e \in Range(b)
    <3>1. PICK k \in 1..n : k - 1 = Rank(S, e)
      <4>1. Rank(S, e) \in 0..(n - 1) BY <1>4
      <4>2. \A m \in 0..(n - 1) : m + 1 \in 1..n /\ m + 1 - 1 = m BY <1>1
      <4> QED BY <4>1, <4>2
    <3>2. b[k] \in S /\ Rank(S, b[k]) = Rank(S, e) BY <1>5, <3>1
    <3>3. b[k] = e BY <1>3, <3>2
    <3> QED BY <1>7, <3>1, <3>3 DEF Range
  <2>2. ASSUME NEW e \in Range(b) PROVE e \in S BY <1>5, <1>7, <2>2 DEF Range
  <2> QED BY <2>1, <2>2
<1>9. ASSUME NEW i \in 1..n, NEW j \in 1..n, i < j
      PROVE  Before(b[i], b[j]) /\ b[i] # b[j]
  <2>1. Rank(S, b[i]) = i - 1 /\ Rank(S, b[j]) = j - 1 /\ b[i] \in S /\ b[j] \in S BY <1>5
  <2>2. ~Before(b[j], b[i])
    <3>1. ~(j - 1 < i - 1) BY <1>1, <1>9
    <3> QED BY <1>4, <2>1, <3>1
  <2>3. b[i] # b[j]
    <3>1. i - 1 # j - 1 BY <1>1, <1>9
    <3> QED BY <2>1, <3>1
  <2> QED BY <2>1, <2>2, <2>3, BeforeOrders
<1> QED BY <1>2, <1>7, <1>8, <1>9 DEF n

-----------------------------------------------------------------------------
(* The rings of the monitor hold events that were enqueued, of their kinds, in the
   order in which they were, and newer than all that were returned. *)
Places(s) == [i \in 1..Len(s) |-> s[i].nth]

PostedOrder(q, s, p, K) ==
    /\ Rises(Len(q), Places(q)) /\ Within(Len(q), Places(q), Len(p))
    /\ Below(Len(s), Places(s), Len(q), Places(q))
    /\ \A i \in 1..Len(q) : q[i] = p[q[i].nth] /\ q[i].kind \in K

(* An event enqueued elsewhere changes nothing for a ring. *)
LEMMA OthersKeepOrder ==
    ASSUME NEW S, NEW q \in Seq(S), NEW s, NEW K, NEW T, NEW p \in Seq(T), NEW e \in T,
           PostedOrder(q, s, p, K)
    PROVE  PostedOrder(q, s, Append(p, e), K)
<1>1. /\ Len(p) \in Nat /\ Len(Append(p, e)) = Len(p) + 1
      /\ \A i \in 1..Len(p) : Append(p, e)[i] = p[i]
  BY AppendProperties
<1>2. \A i \in 1..Len(q) : Places(q)[i] = q[i].nth /\ q[i].nth \in 1..Len(p)
  BY DEF Places, PostedOrder, Within
<1>3. Within(Len(q), Places(q), Len(Append(p, e)))
  <2>1. \A x \in 1..Len(p) : x \in 1..(Len(p) + 1) BY <1>1
  <2> QED BY <1>1, <2>1 DEF PostedOrder, Within
<1>4. \A i \in 1..Len(q) : q[i] = Append(p, e)[q[i].nth] BY <1>1, <1>2 DEF PostedOrder
<1> QED BY <1>3, <1>4 DEF PostedOrder

(* Pushing the event that was just enqueued keeps a ring in order. *)
LEMMA PushInOrder ==
    ASSUME posted \in Seq(IpcEvent), Len(ipcTaken) \in Nat,
           Within(Len(ipcTaken), Places(ipcTaken), Len(posted)),
           NEW S, NEW q \in Seq(S), NEW K, PostedOrder(q, ipcTaken, posted, K),
           NEW e \in IpcEvent, e \in S, e.nth = Len(posted) + 1, e.kind \in K,
           NEW r, r = Append(q, e) \/ (q # << >> /\ r = Append(Tail(q), e))
    PROVE  /\ r \in Seq(S) /\ PostedOrder(r, ipcTaken, Append(posted, e), K)
           /\ Within(Len(ipcTaken), Places(ipcTaken), Len(Append(posted, e)))
<1> DEFINE z == Append(posted, e)
<1>1. /\ Len(posted) \in Nat /\ Len(z) = Len(posted) + 1 /\ z[Len(posted) + 1] = e
      /\ \A i \in 1..Len(posted) : z[i] = posted[i]
  BY AppendProperties
<1> HIDE DEF z
<1>2. r \in Seq(S) /\ PushedTo(Len(q), q, Len(r), r, e) BY PushShape, ZenonT(60)
<1>3. Len(q) \in Nat /\ Len(r) \in Nat /\ Len(ipcTaken) \in Nat BY <1>2
<1>4. PICK k \in {0, 1} : /\ k <= Len(q) /\ Len(r) = Len(q) - k + 1 /\ r[Len(r)] = e
                          /\ \A i \in 1..(Len(q) - k) : r[i] = q[i + k]
  BY <1>2 DEF PushedTo
<1>5. \A i \in 1..Len(r) : i = Len(r) \/ (i \in 1..(Len(q) - k) /\ i + k \in 1..Len(q))
  BY <1>3, <1>4
<1>6. PushedTo(Len(q), Places(q), Len(r), Places(r), Len(posted) + 1)
  <2>1. Places(r)[Len(r)] = Len(posted) + 1 BY <1>3, <1>4 DEF Places
  <2>2. \A i \in 1..(Len(q) - k) : Places(r)[i] = Places(q)[i + k]
    <3>1. \A i \in 1..(Len(q) - k) : i \in 1..Len(r) /\ i + k \in 1..Len(q) BY <1>3, <1>4
    <3> QED BY <1>4, <3>1 DEF Places
  <2> QED BY <1>4, <2>1, <2>2 DEF PushedTo
<1>7. /\ Rises(Len(r), Places(r)) /\ Within(Len(r), Places(r), Len(posted) + 1)
      /\ Within(Len(ipcTaken), Places(ipcTaken), Len(posted) + 1)
      /\ Below(Len(ipcTaken), Places(ipcTaken), Len(r), Places(r))
  BY <1>1, <1>3, <1>6, PushKeepsOrder DEF PostedOrder
<1>8. ASSUME NEW i \in 1..Len(r) PROVE r[i] = z[r[i].nth] /\ r[i].kind \in K
  <2>1. CASE i = Len(r) BY <1>1, <1>4, <2>1
  <2>2. CASE i \in 1..(Len(q) - k) /\ i + k \in 1..Len(q)
    <3>1. r[i] = q[i + k] BY <1>4, <2>2
    <3>2. /\ q[i + k].nth \in 1..Len(posted) /\ q[i + k] = posted[q[i + k].nth]
          /\ q[i + k].kind \in K
      BY <2>2 DEF PostedOrder, Within, Places
    <3> QED BY <1>1, <3>1, <3>2
  <2> QED BY <1>5, <2>1, <2>2
<1> QED BY <1>1, <1>2, <1>7, <1>8 DEF PostedOrder, z

HotSlot == HotEvent \cup {Blank}
UpcallSlot == UpcallEvent \cup {Blank}
HotKinds == {"hop", "reply", "reject"}

RingsInv ==
    /\ PostedInv
    /\ hot \in RingOf(HotSlots, HotSlot) /\ HeadBehind(HotSlots, hot)
    /\ upcalls \in RingOf(UpcallSlots, UpcallSlot) /\ HeadBehind(UpcallSlots, upcalls)
    /\ hotTaken \in Seq(HotSlot) /\ upcallsTaken \in Seq(UpcallSlot)
    /\ ipcTaken \in Seq(HotSlot \cup UpcallSlot)
    /\ PostedOrder(HotHeld, ipcTaken, posted, HotKinds)
    /\ PostedOrder(UpcallsHeld, ipcTaken, posted, {"upcall"})
    /\ Within(Len(ipcTaken), Places(ipcTaken), Len(posted))
    /\ ReturnedInOrder

(* Both rings of the monitor are instances of the rings. *)
LEMMA MonitorRings ==
    /\ HotSlots \in Nat \ {0} /\ Blank \in HotSlot
    /\ UpcallSlots \in Nat \ {0} /\ Blank \in UpcallSlot
    /\ HotRing!EmptyRing = Rings(HotSlots, Blank)!EmptyRing
    /\ UpcallRing!EmptyRing = Rings(UpcallSlots, Blank)!EmptyRing
    /\ \A r : HotRing!PeekCopies(r) = Rings(HotSlots, Blank)!PeekCopies(r)
    /\ \A r : UpcallRing!PeekCopies(r) = Rings(UpcallSlots, Blank)!PeekCopies(r)
    /\ \A r, e : HotRing!PushCopy(r, e) = Rings(HotSlots, Blank)!PushCopy(r, e)
    /\ \A r, e : UpcallRing!PushCopy(r, e) = Rings(UpcallSlots, Blank)!PushCopy(r, e)
    /\ \A r : HotRing!Drained(r) = Rings(HotSlots, Blank)!Drained(r)
    /\ \A r : UpcallRing!Drained(r) = Rings(UpcallSlots, Blank)!Drained(r)
<1>1. /\ HotSlots \in Nat \ {0} /\ Blank \in HotSlot
      /\ UpcallSlots \in Nat \ {0} /\ Blank \in UpcallSlot
  BY IpcAssumption DEF HotSlot, UpcallSlot
<1>2. /\ HotRing!EmptyRing = Rings(HotSlots, Blank)!EmptyRing
      /\ UpcallRing!EmptyRing = Rings(UpcallSlots, Blank)!EmptyRing
  BY DEF HotRing!EmptyRing, UpcallRing!EmptyRing, Rings!EmptyRing
<1>3. /\ \A r : HotRing!PeekCopies(r) = Rings(HotSlots, Blank)!PeekCopies(r)
      /\ \A r : UpcallRing!PeekCopies(r) = Rings(UpcallSlots, Blank)!PeekCopies(r)
  BY DEF HotRing!PeekCopies, HotRing!Slot, UpcallRing!PeekCopies, UpcallRing!Slot,
         Rings!PeekCopies, Rings!Slot
<1>4. /\ \A r, e : HotRing!PushCopy(r, e) = Rings(HotSlots, Blank)!PushCopy(r, e)
      /\ \A r, e : UpcallRing!PushCopy(r, e) = Rings(UpcallSlots, Blank)!PushCopy(r, e)
  BY DEF HotRing!PushCopy, HotRing!After, UpcallRing!PushCopy, UpcallRing!After,
         Rings!PushCopy, Rings!After
<1>5. /\ \A r : HotRing!Drained(r) = Rings(HotSlots, Blank)!Drained(r)
      /\ \A r : UpcallRing!Drained(r) = Rings(UpcallSlots, Blank)!Drained(r)
  BY DEF HotRing!Drained, HotRing!Slot, UpcallRing!Drained, UpcallRing!Slot,
         Rings!Drained, Rings!Slot
<1> QED BY <1>1, <1>2, <1>3, <1>4, <1>5

(* What the rings hold are sequences. *)
LEMMA HeldAreSeqs ==
    ASSUME RingsInv
    PROVE  /\ HotHeld \in Seq(HotSlot) /\ UpcallsHeld \in Seq(UpcallSlot)
           /\ HotHeld = Rings(HotSlots, Blank)!PeekCopies(hot)
           /\ UpcallsHeld = Rings(UpcallSlots, Blank)!PeekCopies(upcalls)
<1>1. /\ HotHeld = Rings(HotSlots, Blank)!PeekCopies(hot)
      /\ UpcallsHeld = Rings(UpcallSlots, Blank)!PeekCopies(upcalls)
  BY MonitorRings DEF HotHeld, UpcallsHeld
<1>2. hot \in RingOf(HotSlots, HotSlot) /\ upcalls \in RingOf(UpcallSlots, UpcallSlot)
  BY DEF RingsInv
<1>3. Rings(HotSlots, Blank)!PeekCopies(hot) \in Seq(HotSlot)
  BY <1>2, MonitorRings, PeekIsSeq, ZenonT(60)
<1>4. Rings(UpcallSlots, Blank)!PeekCopies(upcalls) \in Seq(UpcallSlot)
  BY <1>2, MonitorRings, PeekIsSeq, ZenonT(60)
<1> QED BY <1>1, <1>3, <1>4

(* A push to the hot ring. *)
LEMMA HotPushed ==
    ASSUME RingsInv, NEW e \in HotSlot, hot' = HotRing!PushCopy(hot, e)
    PROVE  /\ hot' \in RingOf(HotSlots, HotSlot) /\ HeadBehind(HotSlots, hot')
           /\ AfterPush(HotSlots, e, HotHeld, hot.dropped, HotHeld', hot'.dropped)
<1> DEFINE R == Rings(HotSlots, Blank)!PushCopy(hot, e)
           Q == Rings(HotSlots, Blank)!PeekCopies(hot)
           P == Rings(HotSlots, Blank)!PeekCopies(R)
<1>1. hot \in RingOf(HotSlots, HotSlot) /\ HeadBehind(HotSlots, hot) BY DEF RingsInv
<1>2. HotSlots \in Nat \ {0} /\ Blank \in HotSlot BY MonitorRings
<1>3. /\ R \in RingOf(HotSlots, HotSlot) /\ HeadBehind(HotSlots, R)
      /\ AfterPush(HotSlots, e, Q, hot.dropped, P, R.dropped)
  BY <1>1, <1>2, PushAppends, ZenonT(60)
<1>4. hot' = R BY MonitorRings
<1>5. HotHeld = Q BY HeldAreSeqs
<1>6. HotHeld' = HotRing!PeekCopies(hot') BY DEF HotHeld, HotRing!PeekCopies, HotRing!Slot
<1>7. HotHeld' = P
  <2> HIDE DEF R
  <2> QED BY <1>4, <1>6, MonitorRings
<1> HIDE DEF R, Q, P
<1> QED BY <1>3, <1>4, <1>5, <1>7

(* A push to the ring of upcalls. *)
LEMMA UpcallPushed ==
    ASSUME RingsInv, NEW e \in UpcallSlot, upcalls' = UpcallRing!PushCopy(upcalls, e)
    PROVE  /\ upcalls' \in RingOf(UpcallSlots, UpcallSlot) /\ HeadBehind(UpcallSlots, upcalls')
           /\ AfterPush(UpcallSlots, e, UpcallsHeld, upcalls.dropped, UpcallsHeld',
                        upcalls'.dropped)
<1> DEFINE R == Rings(UpcallSlots, Blank)!PushCopy(upcalls, e)
           Q == Rings(UpcallSlots, Blank)!PeekCopies(upcalls)
           P == Rings(UpcallSlots, Blank)!PeekCopies(R)
<1>1. upcalls \in RingOf(UpcallSlots, UpcallSlot) /\ HeadBehind(UpcallSlots, upcalls)
  BY DEF RingsInv
<1>2. UpcallSlots \in Nat \ {0} /\ Blank \in UpcallSlot BY MonitorRings
<1>3. /\ R \in RingOf(UpcallSlots, UpcallSlot) /\ HeadBehind(UpcallSlots, R)
      /\ AfterPush(UpcallSlots, e, Q, upcalls.dropped, P, R.dropped)
  BY <1>1, <1>2, PushAppends, ZenonT(60)
<1>4. upcalls' = R BY MonitorRings
<1>5. UpcallsHeld = Q BY HeldAreSeqs
<1>6. UpcallsHeld' = UpcallRing!PeekCopies(upcalls')
  BY DEF UpcallsHeld, UpcallRing!PeekCopies, UpcallRing!Slot
<1>7. UpcallsHeld' = P
  <2> HIDE DEF R
  <2> QED BY <1>4, <1>6, MonitorRings
<1> HIDE DEF R, Q, P
<1> QED BY <1>3, <1>4, <1>5, <1>7

(* Draining empties both rings and loses nothing. *)
LEMMA BothDrained ==
    ASSUME RingsInv, hot' = HotRing!Drained(hot), upcalls' = UpcallRing!Drained(upcalls)
    PROVE  /\ hot' \in RingOf(HotSlots, HotSlot) /\ HeadBehind(HotSlots, hot')
           /\ upcalls' \in RingOf(UpcallSlots, UpcallSlot) /\ HeadBehind(UpcallSlots, upcalls')
           /\ HotHeld' = << >> /\ hot'.dropped = hot.dropped
           /\ UpcallsHeld' = << >> /\ upcalls'.dropped = upcalls.dropped
<1> DEFINE R == Rings(HotSlots, Blank)!Drained(hot)
           P == Rings(UpcallSlots, Blank)!Drained(upcalls)
<1>1. /\ hot \in RingOf(HotSlots, HotSlot) /\ HeadBehind(HotSlots, hot)
      /\ upcalls \in RingOf(UpcallSlots, UpcallSlot) /\ HeadBehind(UpcallSlots, upcalls)
  BY DEF RingsInv
<1>2. /\ HotSlots \in Nat \ {0} /\ Blank \in HotSlot
      /\ UpcallSlots \in Nat \ {0} /\ Blank \in UpcallSlot
  BY MonitorRings
<1>3. /\ R \in RingOf(HotSlots, HotSlot) /\ HeadBehind(HotSlots, R)
      /\ Rings(HotSlots, Blank)!PeekCopies(R) = << >> /\ R.dropped = hot.dropped
  BY <1>1, <1>2, DrainEmpties, ZenonT(60)
<1>4. /\ P \in RingOf(UpcallSlots, UpcallSlot) /\ HeadBehind(UpcallSlots, P)
      /\ Rings(UpcallSlots, Blank)!PeekCopies(P) = << >> /\ P.dropped = upcalls.dropped
  BY <1>1, <1>2, DrainEmpties, ZenonT(60)
<1>5. hot' = R /\ upcalls' = P BY MonitorRings
<1>6. /\ HotHeld' = HotRing!PeekCopies(hot')
      /\ UpcallsHeld' = UpcallRing!PeekCopies(upcalls')
  BY DEF HotHeld, HotRing!PeekCopies, HotRing!Slot,
         UpcallsHeld, UpcallRing!PeekCopies, UpcallRing!Slot
<1> HIDE DEF R, P
<1>7. HotHeld' = << >> /\ UpcallsHeld' = << >> BY <1>3, <1>4, <1>5, <1>6, MonitorRings
<1> QED BY <1>3, <1>4, <1>5, <1>7

(* A ring that is left alone holds what it held. *)
LEMMA HeldStay ==
    /\ UNCHANGED hot => UNCHANGED HotHeld
    /\ UNCHANGED upcalls => UNCHANGED UpcallsHeld
BY DEF HotHeld, HotRing!PeekCopies, HotRing!Slot,
       UpcallsHeld, UpcallRing!PeekCopies, UpcallRing!Slot

(* Both rings start as empty queues. *)
LEMMA RingsStart == IpcInit => RingsInv /\ HotQueue!QueueInit /\ UpcallQueue!QueueInit
<1> SUFFICES ASSUME IpcInit PROVE RingsInv /\ HotQueue!QueueInit /\ UpcallQueue!QueueInit
  OBVIOUS
<1> DEFINE R == Rings(HotSlots, Blank)!EmptyRing
           P == Rings(UpcallSlots, Blank)!EmptyRing
<1>1. /\ hot = R /\ upcalls = P /\ posted = << >>
      /\ hotTaken = << >> /\ upcallsTaken = << >> /\ ipcTaken = << >>
  BY MonitorRings DEF IpcInit
<1>2. /\ HotSlots \in Nat \ {0} /\ Blank \in HotSlot
      /\ UpcallSlots \in Nat \ {0} /\ Blank \in UpcallSlot
  BY MonitorRings
<1>3. /\ R \in RingOf(HotSlots, HotSlot) /\ HeadBehind(HotSlots, R)
      /\ Rings(HotSlots, Blank)!PeekCopies(R) = << >> /\ R.dropped = 0
  BY <1>2, RingStarts, ZenonT(60)
<1>4. /\ P \in RingOf(UpcallSlots, UpcallSlot) /\ HeadBehind(UpcallSlots, P)
      /\ Rings(UpcallSlots, Blank)!PeekCopies(P) = << >> /\ P.dropped = 0
  BY <1>2, RingStarts, ZenonT(60)
<1> HIDE DEF R, P
<1>5. HotHeld = << >> /\ UpcallsHeld = << >>
  BY <1>1, <1>3, <1>4, MonitorRings DEF HotHeld, UpcallsHeld
<1>6. \A S : << >> \in Seq(S) BY EmptySeq
<1>7. Len(<< >>) = 0 /\ Range(<< >>) = {} BY EmptySeq DEF Range
<1>8. /\ PostedOrder(HotHeld, ipcTaken, posted, HotKinds)
      /\ PostedOrder(UpcallsHeld, ipcTaken, posted, {"upcall"})
      /\ Within(Len(ipcTaken), Places(ipcTaken), Len(posted))
      /\ ReturnedInOrder
  BY <1>1, <1>5, <1>7 DEF PostedOrder, Rises, Within, Below, ReturnedInOrder
<1>9. PostedInv BY <1>1, <1>6, <1>7 DEF PostedInv
<1>10. RingsInv BY <1>1, <1>3, <1>4, <1>6, <1>8, <1>9 DEF RingsInv
<1>11. HotQueue!QueueInit /\ UpcallQueue!QueueInit
  BY <1>1, <1>3, <1>4, <1>5 DEF HotQueue!QueueInit, UpcallQueue!QueueInit
<1> QED BY <1>10, <1>11

(* A push to a ring of C slots: the queue as a sequence. *)
LEMMA AfterPushShape ==
    ASSUME NEW C \in Nat \ {0}, NEW e, NEW S, NEW q \in Seq(S), NEW lost, NEW r, NEW nowLost,
           AfterPush(C, e, q, lost, r, nowLost)
    PROVE  r = Append(q, e) \/ (q # << >> /\ r = Append(Tail(q), e))
<1>1. q = << >> => Len(q) = 0 BY EmptySeq
<1> QED BY <1>1 DEF AfterPush

(* A drain takes all, and a drain of nothing is no step of the queue. *)
LEMMA TakeAll ==
    ASSUME NEW S, NEW q \in Seq(S), NEW s \in Seq(S)
    PROVE  /\ q = << >> => s \o q = s
           /\ q # << >> =>
                /\ Len(q) \in 1..Len(q)
                /\ SubSeq(q, 1, Len(q)) = q /\ SubSeq(q, Len(q) + 1, Len(q)) = << >>
<1>1. q = << >> => s \o q = s BY ConcatEmptySeq
<1>2. SubSeq(q, 1, Len(q)) = q BY SubSeqFull
<1>3. q # << >> => Len(q) \in 1..Len(q) BY EmptySeq
<1>4. SubSeq(q, Len(q) + 1, Len(q)) = << >>
  <2>1. Len(q) \in Int /\ Len(q) + 1 \in Int /\ Len(q) < Len(q) + 1 OBVIOUS
  <2> QED BY <2>1, SubSeqEmpty
<1> QED BY <1>1, <1>2, <1>3, <1>4

(* The elements of a list are finitely many. *)
LEMMA RangeFinite ==
    ASSUME NEW S, NEW s \in Seq(S)
    PROVE  IsFiniteSet(Range(s)) /\ Range(s) = {s[i] : i \in 1..Len(s)}
<1>1. Len(s) \in Nat /\ DOMAIN s = 1..Len(s) /\ s \in [1..Len(s) -> S] BY LenProperties
<1>2. Range(s) = {s[i] : i \in 1..Len(s)} BY <1>1 DEF Range
<1>3. s \in [1..Len(s) -> Range(s)] BY <1>1, <1>2
<1>4. \A x \in Range(s) : \E i \in 1..Len(s) : s[i] = x BY <1>2
<1>5. s \in Surjection(1..Len(s), Range(s)) BY <1>3, <1>4 DEF Surjection
<1>6. IsFiniteSet(1..Len(s)) BY <1>1, UpTo
<1> QED BY <1>2, <1>5, <1>6, FS_Surjection

(* What ReturnedInOrder asks of two events, one returned before the other. *)
InTurn(e, f) ==
    /\ e.nth # f.nth
    /\ e.seq = e.nth /\ f.seq = f.nth => e.nth < f.nth

(* A list in turn behind a list in turn whose places are below it. *)
LEMMA TurnsConcat ==
    ASSUME NEW S, NEW s \in Seq(S), NEW m \in Seq(S), NEW n \in Nat,
           Within(Len(s), Places(s), n), \A j \in 1..Len(m) : m[j].nth \in 1..n,
           \A i, j \in 1..Len(s) : i < j => InTurn(s[i], s[j]),
           \A i, j \in 1..Len(m) : i < j => InTurn(m[i], m[j]),
           \A i \in 1..Len(s), j \in 1..Len(m) : s[i].nth < m[j].nth
    PROVE  /\ s \o m \in Seq(S) /\ Within(Len(s \o m), Places(s \o m), n)
           /\ \A i, j \in 1..Len(s \o m) : i < j => InTurn((s \o m)[i], (s \o m)[j])
<1> DEFINE z == s \o m
<1>1. /\ z \in Seq(S) /\ Len(z) = Len(s) + Len(m) /\ Len(s) \in Nat /\ Len(m) \in Nat
      /\ \A i \in 1..(Len(s) + Len(m)) : z[i] = IF i <= Len(s) THEN s[i] ELSE m[i - Len(s)]
  BY ConcatProperties
<1> HIDE DEF z
<1>2. \A i \in 1..Len(z) :
        \/ i \in 1..Len(s) /\ z[i] = s[i]
        \/ i > Len(s) /\ i - Len(s) \in 1..Len(m) /\ z[i] = m[i - Len(s)]
  BY <1>1
<1>3. \A i \in 1..Len(s) : s[i].nth \in 1..n BY DEF Within, Places
<1>4. \A i \in 1..Len(z) : z[i].nth \in 1..n BY <1>2, <1>3
<1>5. ASSUME NEW i \in 1..Len(z), NEW j \in 1..Len(z), i < j PROVE InTurn(z[i], z[j])
  <2>1. CASE i \in 1..Len(s) /\ z[i] = s[i]
    <3>1. CASE j \in 1..Len(s) /\ z[j] = s[j] BY <1>5, <2>1, <3>1
    <3>2. CASE j - Len(s) \in 1..Len(m) /\ z[j] = m[j - Len(s)]
      <4>1. z[i].nth < z[j].nth /\ z[i].nth \in 1..n BY <1>3, <2>1, <3>2
      <4>2. z[j].nth \in 1..n BY <1>4
      <4> QED BY <4>1, <4>2 DEF InTurn
    <3> QED BY <1>2, <3>1, <3>2
  <2>2. CASE i > Len(s) /\ i - Len(s) \in 1..Len(m) /\ z[i] = m[i - Len(s)]
    <3>1. j > Len(s) /\ i - Len(s) < j - Len(s) BY <1>1, <1>5, <2>2
    <3>2. j - Len(s) \in 1..Len(m) /\ z[j] = m[j - Len(s)] BY <1>1, <1>2, <3>1
    <3> QED BY <2>2, <3>1, <3>2
  <2> QED BY <1>2, <2>1, <2>2
<1>6. Within(Len(z), Places(z), n) BY <1>4 DEF Within, Places
<1> QED BY <1>1, <1>5, <1>6 DEF z

(* What the rings hold was enqueued, is newer than all that was returned, and no two
   events of it have the same number. *)
LEMMA HeldEvents ==
    ASSUME RingsInv
    PROVE  LET H == Range(HotHeld) \cup Range(UpcallsHeld)
           IN /\ IsFiniteSet(H) /\ H \subseteq HotSlot \cup UpcallSlot
              /\ \A e \in H : e.nth \in 1..Len(posted) /\ posted[e.nth] = e
              /\ \A e \in H, i \in 1..Len(ipcTaken) : ipcTaken[i].nth < e.nth
<1> DEFINE H == Range(HotHeld) \cup Range(UpcallsHeld)
<1>1. HotHeld \in Seq(HotSlot) /\ UpcallsHeld \in Seq(UpcallSlot) BY HeldAreSeqs
<1>2. /\ IsFiniteSet(Range(HotHeld)) /\ Range(HotHeld) = {HotHeld[i] : i \in 1..Len(HotHeld)}
      /\ IsFiniteSet(Range(UpcallsHeld))
      /\ Range(UpcallsHeld) = {UpcallsHeld[i] : i \in 1..Len(UpcallsHeld)}
  BY <1>1, RangeFinite
<1>3. IsFiniteSet(H) BY <1>2, FS_Union
<1>4. Range(HotHeld) \subseteq HotSlot /\ Range(UpcallsHeld) \subseteq UpcallSlot
  BY <1>1, RangeOfSeq
<1>5. ASSUME NEW q, NEW K, PostedOrder(q, ipcTaken, posted, K), NEW k \in 1..Len(q)
      PROVE  /\ q[k].nth \in 1..Len(posted) /\ posted[q[k].nth] = q[k]
             /\ \A i \in 1..Len(ipcTaken) : ipcTaken[i].nth < q[k].nth
  BY <1>5 DEF PostedOrder, Within, Below, Places
<1>6. /\ PostedOrder(HotHeld, ipcTaken, posted, HotKinds)
      /\ PostedOrder(UpcallsHeld, ipcTaken, posted, {"upcall"})
  BY DEF RingsInv
<1>7. ASSUME NEW e \in H
      PROVE  /\ e.nth \in 1..Len(posted) /\ posted[e.nth] = e
             /\ \A i \in 1..Len(ipcTaken) : ipcTaken[i].nth < e.nth
  <2>1. CASE e \in Range(HotHeld)
    <3>1. PICK k \in 1..Len(HotHeld) : HotHeld[k] = e BY <1>2, <2>1
    <3> QED BY <1>5, <1>6, <3>1
  <2>2. CASE e \in Range(UpcallsHeld)
    <3>1. PICK k \in 1..Len(UpcallsHeld) : UpcallsHeld[k] = e BY <1>2, <2>2
    <3> QED BY <1>5, <1>6, <3>1
  <2> QED BY <2>1, <2>2
<1> QED BY <1>3, <1>4, <1>7

(* What was enqueued has a place and a number. *)
LEMMA PostedNumbered ==
    ASSUME PostedInv
    PROVE  \A k \in 1..Len(posted) : posted[k].nth \in Nat /\ posted[k].seq \in Nat
<1>1. ASSUME NEW k \in 1..Len(posted) PROVE posted[k] \in IpcEvent
  BY ElementOfSeq DEF PostedInv
<1>2. \A e \in IpcEvent : e.nth \in Nat /\ e.seq \in Nat BY DEF IpcEvent
<1> QED BY <1>1, <1>2

(* A drain returns what it takes, all newer than what was returned, in order. *)
LEMMA DrainReturns ==
    ASSUME RingsInv, DrainIpc
    PROVE  /\ ipcTaken' \in Seq(HotSlot \cup UpcallSlot)
           /\ Within(Len(ipcTaken'), Places(ipcTaken'), Len(posted))
           /\ ReturnedInOrder'
<1> DEFINE E == HotSlot \cup UpcallSlot
           H == Range(HotHeld) \cup Range(UpcallsHeld)
<1>1. /\ hotTaken' = hotTaken \o HotHeld /\ upcallsTaken' = upcallsTaken \o UpcallsHeld
      /\ ipcTaken' = ipcTaken \o Peek
  BY DEF DrainIpc
<1>2. /\ HotHeld \in Seq(HotSlot) /\ UpcallsHeld \in Seq(UpcallSlot)
      /\ hotTaken \in Seq(HotSlot) /\ upcallsTaken \in Seq(UpcallSlot)
      /\ ipcTaken \in Seq(E) /\ Len(posted) \in Nat
  BY HeldAreSeqs DEF RingsInv, PostedInv
<1>3. /\ IsFiniteSet(H) /\ H \subseteq E
      /\ \A e \in H : e.nth \in 1..Len(posted) /\ posted[e.nth] = e
      /\ \A e \in H, i \in 1..Len(ipcTaken) : ipcTaken[i].nth < e.nth
  BY HeldEvents
<1>4. Peek = BySeq(H) BY DEF Peek
<1> HIDE DEF H
<1>5. /\ Peek \in Seq(H) /\ Range(Peek) = H
      /\ \A i, j \in 1..Len(Peek) : i < j => InTurn(Peek[i], Peek[j])
  <2>1. \A e \in H : e.nth \in Nat /\ e.seq \in Nat
    <3>1. \A k \in 1..Len(posted) : posted[k].nth \in Nat /\ posted[k].seq \in Nat
      BY PostedNumbered DEF RingsInv
    <3> QED BY <1>2, <1>3, <3>1
  <2>2. \A e, f \in H : e.nth = f.nth => e = f BY <1>3
  <2>3. Placed(H) BY <1>3, <2>1, <2>2 DEF Placed
  <2>4. /\ Peek \in Seq(H) /\ Range(Peek) = H
        /\ \A i, j \in 1..Len(Peek) : i < j => Before(Peek[i], Peek[j]) /\ Peek[i] # Peek[j]
    BY <1>4, <2>3, BySeqMerges
  <2>5. ASSUME NEW i \in 1..Len(Peek), NEW j \in 1..Len(Peek), i < j
        PROVE  InTurn(Peek[i], Peek[j])
    <3>1. Peek[i] \in H /\ Peek[j] \in H BY <2>4, ElementOfSeq
    <3>2. Before(Peek[i], Peek[j]) /\ Peek[i].nth # Peek[j].nth BY <2>2, <2>4, <2>5, <3>1
    <3>3. /\ Peek[i].nth \in Nat /\ Peek[i].seq \in Nat
          /\ Peek[j].nth \in Nat /\ Peek[j].seq \in Nat
      BY <2>1, <3>1
    <3> QED BY <3>2, <3>3 DEF Before, InTurn
  <2> QED BY <2>4, <2>5
<1>6. Peek \in Seq(E) BY <1>3, <1>5, SeqMonotonic
<1>7. \A j \in 1..Len(Peek) : Peek[j] \in H BY <1>5, ElementOfSeq
<1> HIDE DEF E
<1>8. /\ Within(Len(ipcTaken), Places(ipcTaken), Len(posted))
      /\ \A i, j \in 1..Len(ipcTaken) : i < j => InTurn(ipcTaken[i], ipcTaken[j])
      /\ Range(ipcTaken) = Range(hotTaken) \cup Range(upcallsTaken)
  BY DEF RingsInv, ReturnedInOrder, InTurn
<1>9. \A j \in 1..Len(Peek) : Peek[j].nth \in 1..Len(posted) BY <1>3, <1>7
<1>10. \A i \in 1..Len(ipcTaken), j \in 1..Len(Peek) : ipcTaken[i].nth < Peek[j].nth
  BY <1>3, <1>7
<1> DEFINE n == Len(posted)
           m == Peek
<1>11. /\ n \in Nat /\ m \in Seq(E) /\ Within(Len(ipcTaken), Places(ipcTaken), n)
       /\ \A j \in 1..Len(m) : m[j].nth \in 1..n
       /\ \A i, j \in 1..Len(m) : i < j => InTurn(m[i], m[j])
       /\ \A i \in 1..Len(ipcTaken), j \in 1..Len(m) : ipcTaken[i].nth < m[j].nth
  BY <1>2, <1>5, <1>6, <1>8, <1>9, <1>10
<1>12. n = Len(posted) /\ ipcTaken' = ipcTaken \o m BY <1>1
<1> HIDE DEF n, m
<1>13. /\ ipcTaken \o m \in Seq(E)
       /\ Within(Len(ipcTaken \o m), Places(ipcTaken \o m), n)
       /\ \A i, j \in 1..Len(ipcTaken \o m) : i < j =>
             InTurn((ipcTaken \o m)[i], (ipcTaken \o m)[j])
  BY <1>2, <1>8, <1>11, TurnsConcat, ZenonT(60)
<1>14. Range(ipcTaken') = Range(hotTaken') \cup Range(upcallsTaken')
  <2>1. Range(ipcTaken \o Peek) = Range(ipcTaken) \cup Range(Peek)
    BY <1>2, <1>6, RangeConcatenation
  <2>2. Range(hotTaken \o HotHeld) = Range(hotTaken) \cup Range(HotHeld)
    BY <1>2, RangeConcatenation
  <2>3. Range(upcallsTaken \o UpcallsHeld) = Range(upcallsTaken) \cup Range(UpcallsHeld)
    BY <1>2, RangeConcatenation
  <2> QED BY <1>1, <1>5, <1>8, <2>1, <2>2, <2>3 DEF H
<1>15. ReturnedInOrder' BY <1>12, <1>13, <1>14 DEF ReturnedInOrder, InTurn
<1> QED BY <1>12, <1>13, <1>15 DEF E

(* A drain is one step of each ring that holds something, and keeps what holds of both. *)
LEMMA DrainStep ==
    ASSUME RingsInv, DrainIpc
    PROVE  /\ RingsInv'
           /\ [HotQueue!QueueNext]_(HotQueue!queueVars)
           /\ [UpcallQueue!QueueNext]_(UpcallQueue!queueVars)
<1>1. /\ hotTaken' = hotTaken \o HotHeld /\ upcallsTaken' = upcallsTaken \o UpcallsHeld
      /\ hot' = HotRing!Drained(hot) /\ upcalls' = UpcallRing!Drained(upcalls)
      /\ posted' = posted
  BY DEF DrainIpc
<1>2. /\ HotHeld \in Seq(HotSlot) /\ UpcallsHeld \in Seq(UpcallSlot)
      /\ hotTaken \in Seq(HotSlot) /\ upcallsTaken \in Seq(UpcallSlot)
  BY HeldAreSeqs DEF RingsInv
<1>3. /\ hot' \in RingOf(HotSlots, HotSlot) /\ HeadBehind(HotSlots, hot')
      /\ upcalls' \in RingOf(UpcallSlots, UpcallSlot) /\ HeadBehind(UpcallSlots, upcalls')
      /\ HotHeld' = << >> /\ hot'.dropped = hot.dropped
      /\ UpcallsHeld' = << >> /\ upcalls'.dropped = upcalls.dropped
  BY <1>1, BothDrained
<1>4. hotTaken' \in Seq(HotSlot) /\ upcallsTaken' \in Seq(UpcallSlot)
  BY <1>1, <1>2, ConcatProperties
<1>5. Len(<< >>) = 0 BY EmptySeq
<1>6. \A s, p, K : PostedOrder(<< >>, s, p, K) BY <1>5 DEF PostedOrder, Rises, Within, Below
<1>7. RingsInv'
  <2>1. PostedInv' BY <1>1 DEF RingsInv, PostedInv
  <2>2. /\ ipcTaken' \in Seq(HotSlot \cup UpcallSlot)
        /\ Within(Len(ipcTaken'), Places(ipcTaken'), Len(posted'))
        /\ ReturnedInOrder'
    BY <1>1, DrainReturns
  <2>3. /\ PostedOrder(HotHeld', ipcTaken', posted', HotKinds)
        /\ PostedOrder(UpcallsHeld', ipcTaken', posted', {"upcall"})
    BY <1>3, <1>6
  <2> QED BY <1>3, <1>4, <2>1, <2>2, <2>3 DEF RingsInv, HeadBehind
<1>8. [HotQueue!QueueNext]_(HotQueue!queueVars)
  <2>1. CASE HotHeld = << >>
    BY <1>1, <1>2, <1>3, <2>1, TakeAll DEF HotQueue!queueVars
  <2>2. CASE HotHeld # << >>
    <3>1. /\ Len(HotHeld) \in 1..Len(HotHeld) /\ SubSeq(HotHeld, 1, Len(HotHeld)) = HotHeld
          /\ SubSeq(HotHeld, Len(HotHeld) + 1, Len(HotHeld)) = << >>
      BY <1>2, <2>2, TakeAll
    <3>2. HotQueue!Take(Len(HotHeld)) BY <1>1, <1>3, <3>1 DEF HotQueue!Take
    <3> QED BY <3>1, <3>2 DEF HotQueue!QueueNext
  <2> QED BY <2>1, <2>2
<1>9. [UpcallQueue!QueueNext]_(UpcallQueue!queueVars)
  <2>1. CASE UpcallsHeld = << >>
    BY <1>1, <1>2, <1>3, <2>1, TakeAll DEF UpcallQueue!queueVars
  <2>2. CASE UpcallsHeld # << >>
    <3>1. /\ Len(UpcallsHeld) \in 1..Len(UpcallsHeld)
          /\ SubSeq(UpcallsHeld, 1, Len(UpcallsHeld)) = UpcallsHeld
          /\ SubSeq(UpcallsHeld, Len(UpcallsHeld) + 1, Len(UpcallsHeld)) = << >>
      BY <1>2, <2>2, TakeAll
    <3>2. UpcallQueue!Take(Len(UpcallsHeld)) BY <1>1, <1>3, <3>1 DEF UpcallQueue!Take
    <3> QED BY <3>1, <3>2 DEF UpcallQueue!QueueNext
  <2> QED BY <2>1, <2>2
<1> QED BY <1>7, <1>8, <1>9

(* An event that is enqueued is pushed to one ring and leaves the other alone. *)
LEMMA EnqueueStep ==
    ASSUME RingsInv, NEW kind, NEW by, NEW number, NEW t, Entered(kind, by, number, t)
    PROVE  /\ RingsInv'
           /\ [HotQueue!QueueNext]_(HotQueue!queueVars)
           /\ [UpcallQueue!QueueNext]_(UpcallQueue!queueVars)
<1> DEFINE e == NewEvent(kind, by, number, t)
<1>0. PostedInv BY DEF RingsInv
<1>1. /\ e \in IpcEvent /\ posted' = Append(posted, e) /\ PostedInv' /\ Len(posted) \in Nat
      /\ Len(ipcTaken) \in Nat
  BY <1>0, EnqueueShape DEF RingsInv
<1>2. /\ Len(posted) < MaxPosted
      /\ hotTaken' = hotTaken /\ upcallsTaken' = upcallsTaken /\ ipcTaken' = ipcTaken
      /\ kind = "upcall" => upcalls' = UpcallRing!PushCopy(upcalls, e) /\ hot' = hot
      /\ kind # "upcall" => hot' = HotRing!PushCopy(hot, e) /\ upcalls' = upcalls
  BY DEF Entered, Enqueue, NewEvent
<1>3. Len(posted) + 1 \in 1..MaxPosted BY <1>1, <1>2, IpcAssumption
<1>4. /\ e.nth = Len(posted) + 1 /\ e.kind = kind
      /\ kind = "upcall" => e \in UpcallEvent
      /\ kind # "upcall" => kind \in HotKinds /\ e \in HotEvent
  <2>1. NumberFor(number) \in 1..MaxPosted \cup Numbers BY <1>3 DEF Entered, NumberFor
  <2>2. e.nth = Len(posted) + 1 /\ e.kind = kind BY DEF NewEvent
  <2>3. kind # "upcall" => kind \in HotKinds BY DEF Entered, EventKinds, HotKinds
  <2>4. kind = "upcall" => e \in UpcallEvent
    BY <1>3, <2>1 DEF NewEvent, UpcallEvent, EventOf, Entered
  <2>5. kind # "upcall" => e \in HotEvent
    BY <1>3, <2>1, <2>3 DEF NewEvent, HotEvent, HotKinds, EventOf, Entered
  <2> QED BY <2>2, <2>3, <2>4, <2>5
<1> HIDE DEF e
<1>5. posted \in Seq(IpcEvent) BY <1>0 DEF PostedInv
<1>6. /\ HotHeld \in Seq(HotSlot) /\ UpcallsHeld \in Seq(UpcallSlot)
      /\ ipcTaken \in Seq(HotSlot \cup UpcallSlot)
      /\ PostedOrder(HotHeld, ipcTaken, posted, HotKinds)
      /\ PostedOrder(UpcallsHeld, ipcTaken, posted, {"upcall"})
      /\ Within(Len(ipcTaken), Places(ipcTaken), Len(posted))
  BY HeldAreSeqs DEF RingsInv
<1>7. /\ hot \in RingOf(HotSlots, HotSlot) /\ HeadBehind(HotSlots, hot)
      /\ upcalls \in RingOf(UpcallSlots, UpcallSlot) /\ HeadBehind(UpcallSlots, upcalls)
      /\ hotTaken \in Seq(HotSlot) /\ upcallsTaken \in Seq(UpcallSlot)
      /\ ReturnedInOrder
      /\ HotSlots \in Nat \ {0} /\ UpcallSlots \in Nat \ {0}
  BY MonitorRings DEF RingsInv
<1>8. ReturnedInOrder' BY <1>2, <1>7 DEF ReturnedInOrder
<1>9. CASE kind # "upcall"
  <2>1. /\ hot' = HotRing!PushCopy(hot, e) /\ upcalls' = upcalls /\ e \in HotEvent
        /\ e \in HotSlot /\ e.kind \in HotKinds
    BY <1>2, <1>4, <1>9 DEF HotSlot
  <2>2. /\ hot' \in RingOf(HotSlots, HotSlot) /\ HeadBehind(HotSlots, hot')
        /\ AfterPush(HotSlots, e, HotHeld, hot.dropped, HotHeld', hot'.dropped)
    BY <2>1, HotPushed
  <2>3. HotHeld' = Append(HotHeld, e) \/ (HotHeld # << >> /\ HotHeld' = Append(Tail(HotHeld), e))
    BY <1>6, <1>7, <2>2, AfterPushShape, ZenonT(60)
  <2>4. UpcallsHeld' = UpcallsHeld BY <2>1, HeldStay
  <2>5. /\ PostedOrder(HotHeld', ipcTaken, Append(posted, e), HotKinds)
        /\ Within(Len(ipcTaken), Places(ipcTaken), Len(Append(posted, e)))
    <3>1. HotHeld' \in Seq(HotSlot) /\ PostedOrder(HotHeld', ipcTaken, Append(posted, e), HotKinds)
          /\ Within(Len(ipcTaken), Places(ipcTaken), Len(Append(posted, e)))
      BY <1>1, <1>4, <1>5, <1>6, <2>1, <2>3, PushInOrder, ZenonT(60)
    <3> QED BY <3>1
  <2>6. PostedOrder(UpcallsHeld, ipcTaken, Append(posted, e), {"upcall"})
    BY <1>1, <1>5, <1>6, OthersKeepOrder, ZenonT(60)
  <2>7. RingsInv'
    BY <1>1, <1>2, <1>6, <1>7, <1>8, <2>1, <2>2, <2>4, <2>5, <2>6 DEF RingsInv, HeadBehind
  <2>8. HotQueue!Push(e) BY <1>2, <2>2 DEF AfterPush, HotQueue!Push
  <2>9. UNCHANGED UpcallQueue!queueVars BY <1>2, <2>1, <2>4 DEF UpcallQueue!queueVars
  <2> QED BY <2>1, <2>7, <2>8, <2>9 DEF HotQueue!QueueNext
<1>10. CASE kind = "upcall"
  <2>1. /\ upcalls' = UpcallRing!PushCopy(upcalls, e) /\ hot' = hot /\ e \in UpcallEvent
        /\ e \in UpcallSlot /\ e.kind \in {"upcall"}
    BY <1>2, <1>4, <1>10 DEF UpcallSlot
  <2>2. /\ upcalls' \in RingOf(UpcallSlots, UpcallSlot) /\ HeadBehind(UpcallSlots, upcalls')
        /\ AfterPush(UpcallSlots, e, UpcallsHeld, upcalls.dropped, UpcallsHeld', upcalls'.dropped)
    BY <2>1, UpcallPushed
  <2>3. \/ UpcallsHeld' = Append(UpcallsHeld, e)
        \/ UpcallsHeld # << >> /\ UpcallsHeld' = Append(Tail(UpcallsHeld), e)
    BY <1>6, <1>7, <2>2, AfterPushShape, ZenonT(60)
  <2>4. HotHeld' = HotHeld BY <2>1, HeldStay
  <2>5. /\ PostedOrder(UpcallsHeld', ipcTaken, Append(posted, e), {"upcall"})
        /\ Within(Len(ipcTaken), Places(ipcTaken), Len(Append(posted, e)))
    BY <1>1, <1>4, <1>5, <1>6, <2>1, <2>3, PushInOrder, ZenonT(60)
  <2>6. PostedOrder(HotHeld, ipcTaken, Append(posted, e), HotKinds)
    BY <1>1, <1>5, <1>6, OthersKeepOrder, ZenonT(60)
  <2>7. RingsInv'
    BY <1>1, <1>2, <1>6, <1>7, <1>8, <2>1, <2>2, <2>4, <2>5, <2>6 DEF RingsInv, HeadBehind
  <2>8. UpcallQueue!Push(e) BY <1>2, <2>2 DEF AfterPush, UpcallQueue!Push
  <2>9. UNCHANGED HotQueue!queueVars BY <1>2, <2>1, <2>4 DEF HotQueue!queueVars
  <2> QED BY <2>1, <2>7, <2>8, <2>9 DEF UpcallQueue!QueueNext
<1> QED BY <1>9, <1>10

(* Every move is a step of each of the two queues, or none that it can tell. *)
LEMMA RingsStep ==
    ASSUME RingsInv, [IpcMove]_ipcVars
    PROVE  /\ RingsInv'
           /\ [HotQueue!QueueNext]_(HotQueue!queueVars)
           /\ [UpcallQueue!QueueNext]_(UpcallQueue!queueVars)
<1> DEFINE Goal == /\ RingsInv'
                   /\ [HotQueue!QueueNext]_(HotQueue!queueVars)
                   /\ [UpcallQueue!QueueNext]_(UpcallQueue!queueVars)
<1>1. ASSUME NEW kind, NEW by, NEW number, NEW t, Entered(kind, by, number, t) PROVE Goal
  BY <1>1, EnqueueStep
<1>2. ASSUME NEW t \in Tickets, Reject(t) PROVE Goal
  <2>1. Entered("reject", "queue", 0, t) BY <1>2, RejectEnters
  <2> QED BY <1>1, <2>1
<1>3. CASE DrainIpc BY <1>3, DrainStep
<1>4. ASSUME UNCHANGED <<hot, upcalls, posted, hotTaken, upcallsTaken, ipcTaken>> PROVE Goal
  <2>1. HotHeld' = HotHeld /\ UpcallsHeld' = UpcallsHeld BY <1>4, HeldStay
  <2>2. PostedInv' /\ ReturnedInOrder' BY <1>4 DEF RingsInv, PostedInv, ReturnedInOrder
  <2>3. RingsInv' BY <1>4, <2>1, <2>2 DEF RingsInv, HeadBehind
  <2>4. UNCHANGED HotQueue!queueVars BY <1>4, <2>1 DEF HotQueue!queueVars
  <2>5. UNCHANGED UpcallQueue!queueVars BY <1>4, <2>1 DEF UpcallQueue!queueVars
  <2> QED BY <2>3, <2>4, <2>5
<1>5. ASSUME NEW t \in Tickets, RejectElsewhere(t) PROVE Goal
  <2>1. UNCHANGED <<hot, upcalls, posted, hotTaken, upcallsTaken, ipcTaken>>
    BY <1>5 DEF RejectElsewhere
  <2> QED BY <1>4, <2>1
<1>6. CASE UNCHANGED ipcVars
  <2>1. UNCHANGED <<hot, upcalls, posted, hotTaken, upcallsTaken, ipcTaken>>
    BY <1>6 DEF ipcVars
  <2> QED BY <1>4, <2>1
<1>7. ASSUME NEW kind \in EventKinds, NEW number \in {0} \cup Numbers, NEW t \in Tickets,
             Enqueue(kind, "caller", number, t)
      PROVE  Goal
  <2>1. Entered(kind, "caller", number, t) BY <1>7, CallerEnters
  <2> QED BY <1>1, <2>1
<1>8. CASE \E t \in Tickets : Reject(t) \/ RejectElsewhere(t)
  <2>1. PICK t \in Tickets : Reject(t) \/ RejectElsewhere(t) BY <1>8
  <2> QED BY <1>2, <1>5, <2>1
<1> QED BY <1>3, <1>6, <1>7, <1>8 DEF IpcMove

(* Each ring of the monitor implements the bounded queue that loses its oldest events,
   and the drains merge the two: for any numbers of slots. *)
THEOREM RingsImplementQueues == IpcMoves => RingsAreQueues
<1>1. IpcInit => RingsInv /\ HotQueue!QueueInit /\ UpcallQueue!QueueInit BY RingsStart
<1>2. RingsInv /\ [IpcMove]_ipcVars =>
        RingsInv' /\ [HotQueue!QueueNext]_(HotQueue!queueVars)
                  /\ [UpcallQueue!QueueNext]_(UpcallQueue!queueVars)
  BY RingsStep
<1>3. RingsInv => ReturnedInOrder BY DEF RingsInv
<1> QED
  BY <1>1, <1>2, <1>3, PTL DEF IpcMoves, RingsAreQueues, HotQueue!QueueSpec, UpcallQueue!QueueSpec

(* The rings hold what was enqueued, whatever is done to the monitor. *)
LEMMA RingsInvariant == IpcMoves => []RingsInv
<1>1. RingsInv /\ [IpcMove]_ipcVars => RingsInv' BY RingsStep
<1>2. IpcInit => RingsInv BY RingsStart
<1> QED BY <1>1, <1>2, PTL DEF IpcMoves

-----------------------------------------------------------------------------
(* What a wait returns. *)

(* Numbers have a least one. *)
LEMMA LeastOf ==
    ASSUME NEW T, T \subseteq Nat, T # {}
    PROVE  \E x \in T : \A y \in T : x <= y
<1>1. PICK x \in T : \A y \in T : ~(<<y, x>> \in OpToRel(<, Nat))
  BY NatLessThanWellFounded, WFMin
<1>2. ASSUME NEW y \in T PROVE x <= y
  <2>1. <<y, x>> \in Nat \X Nat OBVIOUS
  <2>2. ~(y < x) BY <1>1, <1>2, <2>1 DEF OpToRel
  <2> QED BY <2>2
<1> QED BY <1>2

(* A wait considers copies of what was enqueued, those under the ticket included. *)
LEMMA ConsideredShape ==
    ASSUME RecallInv, RingsInv, NEW t \in Tickets
    PROVE  /\ Len(Considered(t)) \in Nat
           /\ \A m \in 1..Len(Considered(t)) :
                 \E k \in 1..Len(posted) : Considered(t)[m] = posted[k]
           /\ \A x \in 1..Len(byTicket[t]) :
                 \E m \in 1..Len(Considered(t)) : Considered(t)[m] = byTicket[t][x]
<1> DEFINE E == HotSlot \cup UpcallSlot \cup IpcEvent
           H == Range(HotHeld) \cup Range(UpcallsHeld)
           a == Peek \o recentBuf
<1>1. /\ IsFiniteSet(H) /\ H \subseteq HotSlot \cup UpcallSlot
      /\ \A e \in H : e.nth \in 1..Len(posted) /\ posted[e.nth] = e
  BY HeldEvents
<1>2. Placed(H)
  <2>1. Len(posted) \in Nat BY DEF RingsInv, PostedInv
  <2>2. \A k \in 1..Len(posted) : posted[k].nth \in Nat /\ posted[k].seq \in Nat
    BY PostedNumbered DEF RingsInv
  <2> HIDE DEF H
  <2>3. \A e \in H : e.nth \in Nat /\ e.seq \in Nat BY <1>1, <2>1, <2>2
  <2>4. \A e, f \in H : e.nth = f.nth => e = f BY <1>1
  <2> QED BY <1>1, <2>3, <2>4 DEF Placed
<1>3. Peek \in Seq(H) BY <1>2, BySeqMerges DEF Peek
<1> HIDE DEF H
<1>4. H \subseteq E BY <1>1
<1>5. \A m \in 1..Len(Peek) : \E k \in 1..Len(posted) : Peek[m] = posted[k]
  <2>1. \A m \in 1..Len(Peek) : Peek[m] \in H BY <1>3, ElementOfSeq
  <2> QED BY <1>1, <2>1
<1>6. /\ recentBuf \in Seq(IpcEvent) /\ CopiesOf(recentBuf, posted)
      /\ byTicket[t] \in Seq(IpcEvent) /\ CopiesOf(byTicket[t], posted)
  BY DEF RecallInv
<1>7. Peek \in Seq(E) /\ recentBuf \in Seq(E) /\ byTicket[t] \in Seq(E)
  <2>1. Peek \in Seq(E) BY <1>3, <1>4, SeqMonotonic
  <2>2. IpcEvent \subseteq E OBVIOUS
  <2> HIDE DEF E
  <2> QED BY <1>6, <2>1, <2>2, SeqMonotonic
<1> HIDE DEF E
<1>8. /\ a \in Seq(E) /\ Len(a) = Len(Peek) + Len(recentBuf)
      /\ \A i \in 1..(Len(Peek) + Len(recentBuf)) :
            a[i] = IF i <= Len(Peek) THEN Peek[i] ELSE recentBuf[i - Len(Peek)]
  BY <1>7, ConcatProperties
<1>9. \A m \in 1..Len(a) : \E k \in 1..Len(posted) : a[m] = posted[k]
  <2>1. Len(Peek) \in Nat /\ Len(recentBuf) \in Nat BY <1>7
  <2>2. SUFFICES ASSUME NEW m \in 1..Len(a)
                 PROVE  \E k \in 1..Len(posted) : a[m] = posted[k]
    OBVIOUS
  <2> HIDE DEF a
  <2>3. CASE m <= Len(Peek)
    <3>1. m \in 1..Len(Peek) /\ a[m] = Peek[m] BY <1>8, <2>1, <2>2, <2>3
    <3> QED BY <1>5, <3>1
  <2>4. CASE ~(m <= Len(Peek))
    <3>1. m - Len(Peek) \in 1..Len(recentBuf) /\ a[m] = recentBuf[m - Len(Peek)]
      BY <1>8, <2>1, <2>2, <2>4
    <3> QED BY <1>6, <3>1 DEF CopiesOf
  <2> QED BY <2>3, <2>4
<1> DEFINE b == byTicket[t]
           c == a \o b
<1>10. Considered(t) = c BY DEF Considered
<1> HIDE DEF a
<1>11. b \in Seq(E) /\ CopiesOf(b, posted) BY <1>6, <1>7
<1> HIDE DEF b
<1>12. /\ c \in Seq(E) /\ Len(c) = Len(a) + Len(b) /\ Len(a) \in Nat /\ Len(b) \in Nat
       /\ \A i \in 1..(Len(a) + Len(b)) : c[i] = IF i <= Len(a) THEN a[i] ELSE b[i - Len(a)]
  BY <1>8, <1>11, ConcatProperties
<1> HIDE DEF c
<1>13. \A m \in 1..Len(c) : \E k \in 1..Len(posted) : c[m] = posted[k]
  <2>1. SUFFICES ASSUME NEW m \in 1..Len(c)
                 PROVE  \E k \in 1..Len(posted) : c[m] = posted[k]
    OBVIOUS
  <2>2. CASE m <= Len(a)
    <3>1. m \in 1..Len(a) /\ c[m] = a[m] BY <1>12, <2>1, <2>2
    <3> QED BY <1>9, <3>1
  <2>3. CASE ~(m <= Len(a))
    <3>1. m - Len(a) \in 1..Len(b) /\ c[m] = b[m - Len(a)] BY <1>12, <2>1, <2>3
    <3> QED BY <1>11, <3>1 DEF CopiesOf
  <2> QED BY <2>2, <2>3
<1>14. ASSUME NEW x \in 1..Len(b) PROVE \E m \in 1..Len(c) : c[m] = b[x]
  <2>1. Len(a) + x \in 1..Len(c) /\ ~(Len(a) + x <= Len(a)) /\ Len(a) + x - Len(a) = x
    BY <1>12
  <2>2. c[Len(a) + x] = b[x] BY <1>12, <2>1
  <2> QED BY <2>1, <2>2
<1> QED BY <1>10, <1>12, <1>13, <1>14 DEF b

(* The first of the copies that a wait considers is returned to it. *)
LEMMA FirstCopyFound ==
    ASSUME NEW t, NEW n \in Nat, Len(Considered(t)) = n,
           NEW m \in 1..n, Considered(t)[m].ticket = t
    PROVE  \E j \in 1..n : /\ SameCopy(Considered(t)[j], Considered(t)[m])
                           /\ Considered(t)[j] \in CopiesForTicket(t)
<1> DEFINE seen == Considered(t)
           Same == {j \in 1..n : SameCopy(seen[j], seen[m])}
<1>1. m \in Same /\ Same \subseteq Nat BY DEF SameCopy
<1>2. PICK j \in Same : \A k \in Same : j <= k BY <1>1, LeastOf
<1>3. j \in 1..n /\ SameCopy(seen[j], seen[m]) /\ seen[j].ticket = t BY <1>2 DEF SameCopy
<1>4. \A k \in 1..(j - 1) : ~SameCopy(seen[k], seen[j])
  <2>1. SUFFICES ASSUME NEW k \in 1..(j - 1), SameCopy(seen[k], seen[j]) PROVE FALSE
    OBVIOUS
  <2>2. k \in 1..n /\ k < j BY <1>3
  <2>3. k \in Same BY <1>3, <2>1, <2>2 DEF SameCopy
  <2> QED BY <1>2, <1>3, <2>2, <2>3
<1>5. seen[j] \in CopiesForTicket(t) BY <1>3, <1>4 DEF CopiesForTicket
<1> QED BY <1>3, <1>5

(* What is found under a ticket is returned to its owner, or a copy of the same number
   and kind. *)
LEMMA RecallSound == RecallInv /\ RingsInv => WaitRecalls
<1> SUFFICES ASSUME RecallInv, RingsInv, NEW t \in Tickets, NEW i \in 1..Len(posted),
                    posted[i].ticket = t, Cardinality(NewerOf(posted, i, t)) < IpcRecent
             PROVE  /\ \E e \in CopiesForTicket(t) : SameCopy(e, posted[i])
                    /\ (\A j \in 1..Len(posted) : SameCopy(posted[j], posted[i]) => j = i)
                         => posted[i] \in CopiesForTicket(t)
  BY DEF WaitRecalls, NewerOf
<1> DEFINE n == Cardinality(NewerOf(posted, i, t))
           seen == Considered(t)
           c == Len(seen)
<1>1. n < Len(byTicket[t]) /\ byTicket[t][Len(byTicket[t]) - n] = posted[i]
  BY DEF RecallInv, FoundUnder
<1>2. n \in Nat
  <2>1. Len(posted) \in Nat BY DEF RecallInv, PostedInv
  <2>2. NewerOf(posted, i, t) \in SUBSET (1..Len(posted)) BY <2>1 DEF NewerOf
  <2>3. IsFiniteSet(NewerOf(posted, i, t)) BY <2>1, <2>2, UpTo, FS_Subset
  <2> QED BY <2>3, FS_CardinalityType
<1>3. byTicket[t] \in Seq(IpcEvent) /\ Len(byTicket[t]) \in Nat BY DEF RecallInv
<1> HIDE DEF n
<1>4. Len(byTicket[t]) - n \in 1..Len(byTicket[t]) BY <1>1, <1>2, <1>3
<1>5. /\ c \in Nat /\ \E m \in 1..c : seen[m] = posted[i]
      /\ \A m \in 1..c : \E k \in 1..Len(posted) : seen[m] = posted[k]
  BY <1>1, <1>3, <1>4, ConsideredShape
<1> HIDE DEF seen, c
<1>6. PICK m \in 1..c : seen[m] = posted[i] BY <1>5
<1>7. PICK j \in 1..c : SameCopy(seen[j], posted[i]) /\ seen[j] \in CopiesForTicket(t)
  BY <1>5, <1>6, FirstCopyFound DEF seen, c
<1>8. PICK k \in 1..Len(posted) : seen[j] = posted[k] BY <1>5
<1>9. (\A x \in 1..Len(posted) : SameCopy(posted[x], posted[i]) => x = i)
         => posted[i] \in CopiesForTicket(t)
  BY <1>7, <1>8
<1> QED BY <1>7, <1>9

-----------------------------------------------------------------------------
(* The gateway: a step of it is for each part a step of its own, or none. *)
LEMMA GatewayStep ==
    [GatewayNext]_gatewayVars =>
        /\ [LogNext]_logVars /\ [LedgerNext]_ledgerVars
        /\ [BoxNext]_boxVars /\ [IpcMove]_ipcVars
<1> SUFFICES ASSUME [GatewayNext]_gatewayVars
             PROVE  /\ [LogNext]_logVars /\ [LedgerNext]_ledgerVars
                    /\ [BoxNext]_boxVars /\ [IpcMove]_ipcVars
  OBVIOUS
<1>1. CASE UNCHANGED gatewayVars BY <1>1 DEF gatewayVars
<1>2. CASE GatewayNext
  <2>1. ASSUME NEW t \in Tickets, ObserveHopEverywhere(t)
        PROVE  LogNext /\ BoxNext /\ IpcMove
    <3>1. LogNext /\ BoxNext BY <2>1 DEF ObserveHopEverywhere, LogNext, BoxNext
    <3>2. PushIpc(GatewayCaller, "hop", TRUE, 0, t) BY <2>1 DEF ObserveHopEverywhere, ObserveHop
    <3> QED BY <3>1, <3>2, PushMoves
  <2>2. ASSUME Sinks PROVE [LogNext]_logVars /\ [BoxNext]_boxVars /\ [IpcMove]_ipcVars
    <3>1. [LogNext]_logVars /\ [BoxNext]_boxVars BY <2>2 DEF Sinks, LogNext, BoxNext
    <3>2. DrainIpc \/ UNCHANGED ipcVars BY <2>2 DEF Sinks, ScheduledIpcDrain
    <3> QED BY <3>1, <3>2 DEF IpcMove
  <2>3. IpcNext => IpcMove BY CallersMove
  <2> QED BY <1>2, <2>1, <2>2, <2>3 DEF GatewayNext
<1> QED BY <1>1, <1>2

(* What the gateway does is what each of its parts may do. *)
LEMMA GatewayParts == GatewaySpec => LogSpec /\ LedgerSpec /\ BoxSpec /\ IpcMoves
<1>1. GatewayInit => LogInit /\ LedgerInit /\ BoxInit /\ IpcInit BY DEF GatewayInit
<1> QED BY <1>1, GatewayStep, PTL DEF GatewaySpec, LogSpec, LedgerSpec, BoxSpec, IpcMoves

(* Whichever writes fail or are dropped, the records on disk form one chain. *)
THEOREM ChainAlwaysContinuous == GatewaySpec => []ChainContinuous
<1>1. LogInv => ChainContinuous BY DEF LogInv
<1> QED BY <1>1, GatewayParts, LogInvariant, PTL

(* The log never refuses a record for records it no longer holds. *)
THEOREM FlightAlwaysCounted == GatewaySpec => []FlightCounted
<1>1. LogInv => FlightCounted BY DEF LogInv
<1> QED BY <1>1, GatewayParts, LogInvariant, PTL

(* A session serves one identity for as long as the gateway runs. *)
THEOREM SessionsNotShared == GatewaySpec => []OneIdentityPerSession
BY OneUserEach, GatewayParts, LedgerInvariant, PTL

(* No turn brings back a session that was swept or evicted while it ran. *)
THEOREM SessionsNotRevived == GatewaySpec => GoneStaysGone
BY GoneStep, GatewayParts, PTL

(* The mailbox of the running gateway is the bounded queue that loses its oldest. *)
THEOREM GatewayMailboxIsQueue == GatewaySpec => MailboxIsQueue
BY BoxImplementsQueue, GatewayParts, PTL

(* However drains nest, a listener of the running gateway is called once with each event,
   and none is missed when the drains are over. *)
THEOREM GatewayBroadcastsOnce == GatewaySpec => []BroadcastOnce
BY BroadcastInvariant, BroadcastSound, GatewayParts, PTL

(* The rings of the gateway's monitor are bounded queues that lose their oldest events,
   and its drains merge them: whoever else posts, replies, is rejected or drains. *)
THEOREM GatewayRingsAreQueues == GatewaySpec => RingsAreQueues
BY RingsImplementQueues, GatewayParts, PTL

(* In the running gateway a ticket is rejected once, by whoever rejected it first. *)
THEOREM GatewayRejectsOnce == GatewaySpec => []OneRejectPerTicket
<1>1. RejectInv => OneRejectPerTicket BY DEF RejectInv
<1> QED BY <1>1, RejectInvariant, GatewayParts, PTL

(* In the running gateway a wait finds the newest events of its ticket, whatever was
   drained or dropped meanwhile. *)
THEOREM GatewayRecallsEvents == GatewaySpec => []WaitRecalls
BY RecallInvariant, RingsInvariant, RecallSound, GatewayParts, PTL

(* The same of a monitor that no gateway drives: its callers make no other moves. *)
THEOREM MonitorAlone ==
    IpcSpec => RingsAreQueues /\ []OneRejectPerTicket /\ []WaitRecalls
<1>1. [IpcNext]_ipcVars => [IpcMove]_ipcVars BY CallersMove
<1>2. IpcSpec => IpcMoves BY <1>1, PTL DEF IpcSpec, IpcMoves
<1>3. RejectInv => OneRejectPerTicket BY DEF RejectInv
<1> QED
  BY <1>2, <1>3, RingsImplementQueues, RejectInvariant, RecallInvariant, RingsInvariant,
     RecallSound, PTL
=============================================================================

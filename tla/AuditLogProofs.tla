--------------------------- MODULE AuditLogProofs ---------------------------
(***************************************************************************)
(* The hash chain with a single process, whatever the number of appends,   *)
(* failures, restarts and edits: until somebody edits it, it never forks,  *)
(* keeps the order of the requests and verifies; and an entry that was not *)
(* edited shows what was done to those before it.                          *)
(***************************************************************************)
EXTENDS AuditLogProperties, FiniteSums

\* One process serves the API.
OneReplica == \A r, s \in Replicas : r = s

\* Object identifiers of different processes sort one way or the other.
NumericRanks == Ranks \subseteq Nat

-----------------------------------------------------------------------------
(* The order of the entries.                                                *)

\* The bound of the clock is a number.
LEMMA MaxTimeNat == {MaxTime, MaxJobs, MaxEdits, Limit} \subseteq Nat
BY BoundsAssumption

\* What entries are sorted by are numbers.
LEMMA SortFields ==
    ASSUME NumericRanks
    PROVE  \A e \in Entry :
              e.eventTimestamp \in Int /\ e.rank \in Int /\ e.count \in Int
<1>1. \A k \in Ranks : k \in Int
  BY DEF NumericRanks
<1>2. \A e \in Entry : e.rank \in Ranks
  BY DEF Entry
<1>3. \A e \in Entry : e.eventTimestamp \in Int /\ e.count \in Int
  BY MaxTimeNat DEF Entry
<1> QED BY <1>1, <1>2, <1>3

\* Nothing sorts before itself, nor before what sorts before it.
LEMMA BeforeAsymmetric ==
    ASSUME NumericRanks, NEW a \in Entry, NEW b \in Entry, Before(a, b)
    PROVE  ~Before(b, a) /\ a # b
BY SortFields DEF Before

\* e stands at the end of S.
IsLast(e, S) == e \in S /\ \A x \in S \ {e} : Before(x, e)

\* What sorts before what sorts before an entry sorts before it.
LEMMA BeforeTransitive ==
    ASSUME NumericRanks, NEW a \in Entry, NEW b \in Entry, NEW c \in Entry,
           Before(a, b), Before(b, c)
    PROVE  Before(a, c)
BY SortFields DEF Before

\* The hash read from a log is that of the entry at its end.
LEMMA LastHashOfLast ==
    ASSUME NumericRanks, NEW S \in SUBSET Entry, NEW e, IsLast(e, S)
    PROVE  LastHash(S) = e.currentHash
<1>1. ASSUME NEW f, IsLast(f, S)
      PROVE  f = e
  BY <1>1, BeforeAsymmetric DEF IsLast
<1> QED BY <1>1 DEF LastHash, IsLast

\* Of any two entries, one sorts before the other.
Sorted(S) == \A e, f \in S : e # f => Before(e, f) \/ Before(f, e)

\* A finite log that is sorted has an entry that all others sort before, and one
\* that sorts before all others.
LEMMA EndsExist ==
    ASSUME NumericRanks, NEW S \in SUBSET Entry, IsFiniteSet(S), Sorted(S), S # {}
    PROVE  /\ \E e : IsLast(e, S)
           /\ \E e \in S : \A x \in S \ {e} : Before(e, x)
<1> DEFINE Later(e) == {x \in S : Before(e, x)}
<1>1. \A e \in S : IsFiniteSet(Later(e)) /\ IsFiniteSet(Earlier(e, S))
  BY FS_Subset DEF Earlier
<1>2. PICK e \in S : \A f \in S : Cardinality(Later(e)) <= Cardinality(Later(f))
  <2> DEFINE F == {Later(f) : f \in S}
  <2>1. F # {} /\ \A T \in F : IsFiniteSet(T)
    BY <1>1
  <2>2. PICK T \in F : \A U \in F : Cardinality(T) <= Cardinality(U)
    <3> HIDE DEF F
    <3> QED BY <2>1, SmallestSet
  <2> QED BY <2>2
<1>3. ASSUME NEW f \in S \ {e} PROVE Before(f, e)
  <2> SUFFICES ASSUME Before(e, f) PROVE FALSE
    BY <1>3 DEF Sorted
  <2>1. Later(f) \in SUBSET Later(e)
    BY BeforeTransitive
  <2>2. f \in Later(e) /\ f \notin Later(f)
    BY BeforeAsymmetric
  <2>3. IsFiniteSet(Later(e)) /\ IsFiniteSet(Later(f))
    BY <1>1
  <2> HIDE DEF Later
  <2>4. /\ Cardinality(Later(f)) <= Cardinality(Later(e))
        /\ Cardinality(Later(e)) # Cardinality(Later(f))
    BY <2>1, <2>2, <2>3, FS_Subset
  <2>5. Cardinality(Later(e)) \in Nat /\ Cardinality(Later(f)) \in Nat
    BY <2>3, FS_CardinalityType
  <2> QED BY <1>2, <2>4, <2>5
<1>4. PICK d \in S :
         \A f \in S : Cardinality(Earlier(d, S)) <= Cardinality(Earlier(f, S))
  <2> DEFINE F == {Earlier(f, S) : f \in S}
  <2>1. F # {} /\ \A T \in F : IsFiniteSet(T)
    BY <1>1
  <2>2. PICK T \in F : \A U \in F : Cardinality(T) <= Cardinality(U)
    <3> HIDE DEF F
    <3> QED BY <2>1, SmallestSet
  <2> QED BY <2>2
<1>5. ASSUME NEW f \in S \ {d} PROVE Before(d, f)
  <2> SUFFICES ASSUME Before(f, d) PROVE FALSE
    BY <1>5 DEF Sorted
  <2>1. Earlier(f, S) \in SUBSET Earlier(d, S)
    BY BeforeTransitive DEF Earlier
  <2>2. f \in Earlier(d, S) /\ f \notin Earlier(f, S)
    BY BeforeAsymmetric DEF Earlier
  <2>3. IsFiniteSet(Earlier(d, S)) /\ IsFiniteSet(Earlier(f, S))
    BY <1>1
  <2>4. /\ Cardinality(Earlier(f, S)) <= Cardinality(Earlier(d, S))
        /\ Cardinality(Earlier(d, S)) # Cardinality(Earlier(f, S))
    BY <2>1, <2>2, <2>3, FS_Subset
  <2>5. Cardinality(Earlier(d, S)) \in Nat /\ Cardinality(Earlier(f, S)) \in Nat
    BY <2>3, FS_CardinalityType
  <2> QED BY <1>4, <2>4, <2>5
<1> QED BY <1>2, <1>3, <1>4, <1>5 DEF IsLast

\* What the last entry is read as.
LEMMA LastHashType ==
    ASSUME NumericRanks, NEW S \in SUBSET Entry, IsFiniteSet(S), Sorted(S)
    PROVE  /\ LastHash(S) \in Hashes
           /\ S # {} => \E e : IsLast(e, S) /\ LastHash(S) = e.currentHash
<1>1. CASE S = {}
  <2>1. GENESIS_HASH \in Hashes
    BY MaxTimeNat DEF GENESIS_HASH, Hashes
  <2> QED BY <1>1, <2>1 DEF LastHash
<1>2. CASE S # {}
  <2>1. PICK e : IsLast(e, S)
    BY <1>2, EndsExist
  <2>2. LastHash(S) = e.currentHash
    BY <2>1, LastHashOfLast
  <2> QED BY <2>1, <2>2 DEF Entry, IsLast
<1> QED BY <1>1, <1>2

-----------------------------------------------------------------------------
(* The inductive invariant.                                                 *)

\* An entry bears the hash its append computed.
Genuine(e) == e.currentHash \in Jobs

\* The entries of the log, and those some append has read there.
Archive == entries \cup UNION {sealed[j] : j \in Jobs}

\* The appends of a queue were requested in its order, after every entry, and only
\* the one that runs has reached the database.
QueueOK(r) ==
    /\ \A i \in 1..Len(queue[r]) : queue[r][i] < next
    /\ \A i, j \in 1..Len(queue[r]) : i < j => queue[r][i] < queue[r][j]
    /\ \A e \in Archive : Genuine(e) =>
          \A i \in 1..Len(queue[r]) : e.currentHash < queue[r][i]
    /\ \A a \in attempted : \A i \in 1..Len(queue[r]) :
          a < queue[r][i] \/ (i = 1 /\ a = queue[r][1] /\ head[r].stage # "idle")

\* The entry of the running append will sort after all those there ever were.
StampOK(r) ==
    /\ head[r].stage # "idle" =>
          queue[r] # <<>> /\ \A e \in Archive : e.count < Cardinality(attempted)
    /\ head[r].stage = "stamped" =>
          /\ head[r].eventTimestamp <= now
          /\ \A e \in Archive :
                \/ e.eventTimestamp < head[r].eventTimestamp
                \/ e.eventTimestamp = head[r].eventTimestamp /\ e.rank = rank[r]

\* What the running append has read is the end of the log, if nobody has edited it
\* since, and the end of what it seals.
ReadOK(r) ==
    head[r].stage # "idle" =>
        /\ edits = 0 => head[r].previousHash = LastHash(entries)
        /\ sealed[Head(queue[r])] # {} =>
              head[r].previousHash = LastHash(sealed[Head(queue[r])])

\* Entries are sorted, and a hash names one content.
LogOK ==
    /\ IsFiniteSet(entries) /\ Sorted(entries)
    /\ \A e \in Archive :
          /\ e.count <= Cardinality(attempted)
          /\ e.eventTimestamp <= now
          /\ \A r \in Replicas : e.eventTimestamp = now => e.rank = rank[r]
          /\ e.currentHash \in 1..(MaxJobs + edits)
          /\ Genuine(e) => e.currentHash < next
    /\ \A e, f \in Archive :
          e.intact /\ f.intact /\ e.currentHash = f.currentHash => e = f
    /\ \A a \in attempted : a < next

\* A chain every entry of which is what its hash was computed from.
Sound(S) == \A e \in S : e.intact /\ e.previousHash = LastHash(Earlier(e, S))

\* What an append seals is sound, and ends where its entry goes on.
SealOK ==
    /\ \A j \in Jobs :
          IsFiniteSet(sealed[j]) /\ Sorted(sealed[j]) /\ Sound(sealed[j])
    /\ \A e \in entries : e.intact /\ Genuine(e) /\ sealed[e.currentHash] # {} =>
          /\ e.previousHash = LastHash(sealed[e.currentHash])
          /\ \A x \in sealed[e.currentHash] : Before(x, e)

\* The log nobody has edited is a chain in the order of the requests.
UntouchedOK ==
    edits = 0 =>
        /\ Sound(entries)
        /\ \A e \in entries : Genuine(e)
        /\ \A e, f \in entries : Before(e, f) => e.currentHash < f.currentHash

AuditInv ==
    /\ AuditTypeOK
    /\ LogOK
    /\ SealOK
    /\ UntouchedOK
    /\ \A r \in Replicas : QueueOK(r) /\ StampOK(r) /\ ReadOK(r)

\* Nothing requested, nothing written.
LEMMA InitAuditInv == Init => AuditInv
<1> SUFFICES ASSUME Init PROVE AuditInv
  OBVIOUS
<1>1. AuditTypeOK
  <2>1. rank \in [Replicas -> Ranks]
    BY DEF Init
  <2>2. Idle \in Running
    BY MaxTimeNat DEF Idle, Running, GENESIS_HASH, Hashes
  <2>3. now \in 0..MaxTime /\ next \in 1..(MaxJobs + 1) /\ edits \in 0..MaxEdits
    BY MaxTimeNat DEF Init
  <2>4. sealed \in [Jobs -> SUBSET Entry] /\ outcome \in [Jobs -> Outcome]
    BY DEF Init, Outcome
  <2> QED BY <2>1, <2>2, <2>3, <2>4 DEF Init, AuditTypeOK
<1>2. Archive = {} /\ entries = {} /\ attempted = {} /\ \A j \in Jobs : sealed[j] = {}
  BY DEF Init, Archive
<1>3. LogOK /\ SealOK /\ UntouchedOK
  BY <1>2, FS_EmptySet DEF LogOK, SealOK, UntouchedOK, Sorted, Sound
<1>4. \A r \in Replicas : QueueOK(r) /\ StampOK(r) /\ ReadOK(r)
  BY <1>2 DEF Init, QueueOK, StampOK, ReadOK, Idle
<1> QED BY <1>1, <1>3, <1>4 DEF AuditInv

\* What the archive holds.
LEMMA ArchiveType ==
    ASSUME AuditInv
    PROVE  /\ entries \in SUBSET Archive /\ Archive \in SUBSET Entry
           /\ \A j \in Jobs : sealed[j] \in SUBSET Archive
           /\ \A e \in Archive : e.currentHash \in Nat /\ e.count \in Nat
                                 /\ e.eventTimestamp \in Nat
           /\ Cardinality(attempted) \in Nat /\ IsFiniteSet(attempted)
<1>1. Archive \in SUBSET Entry
  BY DEF Archive, AuditInv, AuditTypeOK
<1>2. IsFiniteSet(attempted)
  <2>1. IsFiniteSet(Jobs)
    <3>1. 1 \in Int /\ MaxJobs \in Int
      BY MaxTimeNat
    <3> QED BY <3>1, FS_Interval DEF Jobs
  <2>2. attempted \in SUBSET Jobs
    BY DEF AuditInv, AuditTypeOK
  <2> QED BY <2>1, <2>2, FS_Subset
<1>3. \A e \in Archive : e.currentHash \in Nat /\ e.count \in Nat /\ e.eventTimestamp \in Nat
  BY <1>1, MaxTimeNat DEF Entry, Hashes, GENESIS_HASH
<1> QED BY <1>1, <1>2, <1>3, FS_CardinalityType DEF Archive

\* What no step that leaves the log alone can disturb.
LEMMA LogUntouched ==
    ASSUME AuditInv, UNCHANGED <<entries, sealed, edits>>
    PROVE  /\ Archive' = Archive
           /\ SealOK'
           /\ UntouchedOK'
BY DEF AuditInv, Archive, SealOK, UntouchedOK, Sorted, Sound, Earlier, Genuine

\* A request joins the end of the queue.
LEMMA RequestKeepsAuditInv ==
    ASSUME OneReplica, AuditInv, NEW r \in Replicas, Request(r)
    PROVE  AuditInv'
<1>1. /\ queue \in [Replicas -> Seq(Jobs)] /\ next \in Jobs /\ next \in Nat
      /\ \A s \in Replicas : s = r
  BY MaxTimeNat DEF AuditInv, AuditTypeOK, Request, Jobs, OneReplica
<1>2. queue' = [queue EXCEPT ![r] = Append(queue[r], next)] /\ next' = next + 1
  BY DEF Request
<1>3. queue'[r] = Append(queue[r], next) /\ queue[r] \in Seq(Jobs)
  BY <1>1, <1>2
<1>4. AuditTypeOK'
  <2>1. queue' \in [Replicas -> Seq(Jobs)]
    BY <1>1, <1>2
  <2>2. next' \in 1..(MaxJobs + 1)
    BY <1>1, <1>2, MaxTimeNat DEF Jobs
  <2>3. outcome' \in [Jobs -> Outcome]
    BY <1>1 DEF AuditInv, AuditTypeOK, Request, Outcome
  <2> QED BY <2>1, <2>2, <2>3 DEF AuditInv, AuditTypeOK, Request
<1>5. Archive' = Archive /\ SealOK' /\ UntouchedOK'
  BY LogUntouched DEF Request
<1>6. LogOK'
  <2>1. \A e \in Archive : Genuine(e) => e.currentHash < next'
    BY <1>1, <1>2, ArchiveType DEF AuditInv, LogOK
  <2>2. \A a \in attempted : a < next'
    <3>1. \A a \in attempted : a \in Nat /\ a < next
      BY MaxTimeNat DEF AuditInv, AuditTypeOK, LogOK, Jobs
    <3> QED BY <1>1, <1>2, <3>1
  <2> QED BY <1>5, <2>1, <2>2 DEF Request, AuditInv, LogOK, Sorted, Genuine
<1>7. /\ Len(queue'[r]) = Len(queue[r]) + 1
      /\ \A i \in 1..Len(queue[r]) : queue'[r][i] = queue[r][i]
      /\ queue'[r][Len(queue[r]) + 1] = next
      /\ Len(queue[r]) \in Nat
      /\ \A i \in 1..Len(queue'[r]) : i \in 1..Len(queue[r]) \/ i = Len(queue[r]) + 1
  BY <1>1, <1>3
<1>8. QueueOK(r)'
  <2>1. \A i \in 1..Len(queue[r]) : queue[r][i] \in Nat
    BY <1>3, MaxTimeNat DEF Jobs
  <2>2. UNCHANGED <<attempted, head>> /\ QueueOK(r)
    BY DEF Request, AuditInv
  <2>3. \A i \in 1..Len(queue'[r]) : queue'[r][i] < next'
    BY <1>1, <1>2, <1>7, <2>1, <2>2 DEF QueueOK
  <2>4. \A i, j \in 1..Len(queue'[r]) : i < j => queue'[r][i] < queue'[r][j]
    BY <1>1, <1>7, <2>1, <2>2 DEF QueueOK
  <2>5. \A e \in Archive : Genuine(e) =>
           \A i \in 1..Len(queue'[r]) : e.currentHash < queue'[r][i]
    BY <1>7, <2>2 DEF QueueOK, AuditInv, LogOK
  <2>6. \A a \in attempted : \A i \in 1..Len(queue'[r]) :
           a < queue'[r][i] \/ (i = 1 /\ a = queue'[r][1] /\ head'[r].stage # "idle")
    BY <1>7, <2>2 DEF QueueOK, AuditInv, LogOK
  <2> QED BY <1>5, <2>2, <2>3, <2>4, <2>5, <2>6 DEF QueueOK, Genuine
<1>9. queue[r] # <<>> => Head(queue'[r]) = Head(queue[r]) /\ queue'[r] # <<>>
  BY <1>3
<1>10. StampOK(r)'
  BY <1>5, <1>9 DEF AuditInv, StampOK, Request
<1>11. ReadOK(r)'
  BY <1>5, <1>9 DEF AuditInv, StampOK, ReadOK, Request
<1> QED BY <1>1, <1>4, <1>5, <1>6, <1>8, <1>10, <1>11 DEF AuditInv

\* Taking the head off a queue keeps it ordered, and after the entries.
LEMMA TailKeepsQueueOK ==
    ASSUME AuditInv, NEW r \in Replicas, queue[r] # <<>>, NEW result \in Outcome,
           Settle(r, result), UNCHANGED next,
           attempted' \subseteq attempted \cup {Head(queue[r])},
           \A e \in Archive' : e \in Archive \/ e.currentHash = Head(queue[r])
    PROVE  QueueOK(r)' /\ queue' \in [Replicas -> Seq(Jobs)]
                       /\ outcome' \in [Jobs -> Outcome] /\ head' \in [Replicas -> Running]
<1>1. /\ queue \in [Replicas -> Seq(Jobs)] /\ queue[r] \in Seq(Jobs)
      /\ outcome \in [Jobs -> Outcome] /\ head \in [Replicas -> Running]
  BY DEF AuditInv, AuditTypeOK
<1>2. queue' = [queue EXCEPT ![r] = Tail(queue[r])] /\ queue'[r] = Tail(queue[r])
  BY <1>1 DEF Settle
<1>3. /\ Len(Tail(queue[r])) = Len(queue[r]) - 1
      /\ \A i \in 1..Len(Tail(queue[r])) : Tail(queue[r])[i] = queue[r][i + 1]
      /\ Head(queue[r]) = queue[r][1]
      /\ Len(queue[r]) \in Nat /\ Len(queue[r]) > 0
      /\ Tail(queue[r]) \in Seq(Jobs)
      /\ Head(queue[r]) \in Jobs
  BY <1>1
<1>4. Idle \in Running
  BY MaxTimeNat DEF Idle, Running, GENESIS_HASH, Hashes
<1>5. queue' \in [Replicas -> Seq(Jobs)]
  BY <1>1, <1>2, <1>3
<1>6. outcome' \in [Jobs -> Outcome] /\ head' \in [Replicas -> Running]
  BY <1>1, <1>3, <1>4 DEF Settle
<1>7. \A i \in 1..Len(queue'[r]) : i + 1 \in 1..Len(queue[r]) /\ 1 < i + 1
                                   /\ queue'[r][i] = queue[r][i + 1]
  <2> DEFINE L == Len(queue[r])
  <2>1. Len(queue'[r]) = L - 1 /\ L \in Nat
    BY <1>2, <1>3
  <2>2. \A i \in 1..(L - 1) : i + 1 \in 1..L /\ 1 < i + 1
    BY <2>1
  <2>3. \A i \in 1..Len(queue'[r]) : queue'[r][i] = queue[r][i + 1]
    BY <1>2, <1>3
  <2> QED BY <2>1, <2>2, <2>3
<1>8. QueueOK(r) /\ 1 \in 1..Len(queue[r])
  BY <1>3 DEF AuditInv
<1>9. \A i \in 1..Len(queue'[r]) : queue'[r][i] < next'
  BY <1>7, <1>8 DEF QueueOK
<1>10. \A i, j \in 1..Len(queue'[r]) : i < j => queue'[r][i] < queue'[r][j]
  <2> SUFFICES ASSUME NEW i \in 1..Len(queue'[r]), NEW j \in 1..Len(queue'[r]), i < j
               PROVE  queue'[r][i] < queue'[r][j]
    OBVIOUS
  <2>1. i + 1 < j + 1
    BY <1>2, <1>3
  <2> QED BY <1>7, <1>8, <2>1 DEF QueueOK
<1>11. \A i \in 1..Len(queue'[r]) : Head(queue[r]) < queue'[r][i]
  BY <1>3, <1>7, <1>8 DEF QueueOK
<1>12. \A e \in Archive' : Genuine(e) =>
          \A i \in 1..Len(queue'[r]) : e.currentHash < queue'[r][i]
  BY <1>7, <1>8, <1>11 DEF QueueOK
<1>13. \A a \in attempted' : \A i \in 1..Len(queue'[r]) : a < queue'[r][i]
  <2> SUFFICES ASSUME NEW a \in attempted', NEW i \in 1..Len(queue'[r])
               PROVE  a < queue'[r][i]
    OBVIOUS
  <2>1. CASE a = Head(queue[r])
    BY <1>11, <2>1
  <2>2. CASE a \in attempted
    <3>1. i + 1 # 1
      BY <1>7
    <3> QED BY <1>7, <1>8, <2>2, <3>1 DEF QueueOK
  <2> QED BY <2>1, <2>2
<1> QED BY <1>5, <1>6, <1>9, <1>10, <1>12, <1>13 DEF QueueOK, Genuine

\* An append settles: its process is idle again.
LEMMA SettleKeepsAuditInv ==
    ASSUME OneReplica, AuditInv, NEW r \in Replicas, queue[r] # <<>>,
           NEW result \in {"done", "failed"}, Settle(r, result),
           UNCHANGED <<now, next, rank, edits, sealed>>,
           LogOK', SealOK', UntouchedOK', entries' \subseteq Entry,
           attempted' \subseteq attempted \cup {Head(queue[r])},
           rejected' \in [Replicas -> BOOLEAN],
           \A e \in Archive' : e \in Archive \/ e.currentHash = Head(queue[r])
    PROVE  AuditInv'
<1>1. \A s \in Replicas : s = r
  BY DEF OneReplica
<1>2. queue[r] \in Seq(Jobs) /\ head \in [Replicas -> Running] /\ attempted \subseteq Jobs
  BY DEF AuditInv, AuditTypeOK
<1>3. attempted' \subseteq Jobs
  <2>1. Head(queue[r]) \in Jobs
    BY <1>2
  <2> QED BY <1>2, <2>1
<1>4. /\ QueueOK(r)' /\ queue' \in [Replicas -> Seq(Jobs)]
      /\ outcome' \in [Jobs -> Outcome] /\ head' \in [Replicas -> Running]
  BY TailKeepsQueueOK DEF Outcome
<1>5. head'[r].stage = "idle"
  BY <1>2 DEF Settle, Idle
<1>6. StampOK(r)' /\ ReadOK(r)'
  BY <1>5 DEF StampOK, ReadOK
<1>7. AuditTypeOK'
  BY <1>3, <1>4 DEF AuditInv, AuditTypeOK
<1> QED BY <1>1, <1>4, <1>6, <1>7 DEF AuditInv

\* The append that runs reads the end of the log, and seals it.
LEMMA ReadLastKeepsAuditInv ==
    ASSUME OneReplica, NumericRanks, AuditInv, NEW r \in Replicas, ReadLast(r)
    PROVE  AuditInv'
<1> DEFINE j == Head(queue[r])
<1>1. /\ head \in [Replicas -> Running] /\ queue[r] \in Seq(Jobs) /\ queue[r] # <<>>
      /\ head[r].stage = "idle" /\ QueueOK(r) /\ \A s \in Replicas : s = r
      /\ sealed \in [Jobs -> SUBSET Entry] /\ entries \in SUBSET Entry
  BY DEF AuditInv, AuditTypeOK, ReadLast, Runs, OneReplica
<1>2. j \in Jobs /\ j = queue[r][1] /\ 1 \in 1..Len(queue[r])
  BY <1>1
<1>3. j \notin attempted /\ \A a \in attempted : a < j
  <2>1. \A a \in attempted : a \in Nat /\ a < j
    BY <1>1, <1>2, MaxTimeNat DEF QueueOK, AuditInv, AuditTypeOK, Jobs
  <2> QED BY <2>1
<1>4. /\ sealed' = [sealed EXCEPT ![j] = Vouched] /\ attempted' = attempted \cup {j}
      /\ UNCHANGED <<now, next, queue, rejected, rank, entries, outcome, edits>>
  BY DEF ReadLast
<1>5. Vouched \in SUBSET entries
  BY DEF Vouched
<1>6. \A i \in Jobs : sealed'[i] = IF i = j THEN Vouched ELSE sealed[i]
  BY <1>1, <1>4
<1>7. Archive' \subseteq Archive
  BY <1>4, <1>5, <1>6 DEF Archive
<1>8. Cardinality(attempted') = Cardinality(attempted) + 1
      /\ Cardinality(attempted) \in Nat
  BY <1>3, <1>4, ArchiveType, FS_AddElement
<1>9. head' = [head EXCEPT ![r] = [head[r] EXCEPT !.stage = "read",
                                     !.previousHash = LastHash(entries)]]
  BY <1>1 DEF ReadLast
<1>10. /\ head'[r].stage = "read" /\ head'[r].previousHash = LastHash(entries)
       /\ head' \in [Replicas -> Running]
  <2>1. LastHash(entries) \in Hashes
    BY <1>1, LastHashType DEF AuditInv, LogOK
  <2> QED BY <1>1, <1>9, <2>1 DEF Running
<1>11. AuditTypeOK'
  <2>1. sealed' \in [Jobs -> SUBSET Entry]
    BY <1>1, <1>4, <1>5
  <2> QED BY <1>2, <1>4, <1>10, <2>1 DEF AuditInv, AuditTypeOK
<1>12. LogOK'
  <2>1. \A e \in Archive' : e.count <= Cardinality(attempted')
    <3>1. \A e \in Archive : e.count \in Nat /\ e.count <= Cardinality(attempted)
      BY ArchiveType DEF AuditInv, LogOK
    <3> QED BY <1>7, <1>8, <3>1
  <2>2. \A a \in attempted' : a < next
    BY <1>1, <1>2, <1>4 DEF AuditInv, LogOK, QueueOK
  <2> QED BY <1>4, <1>7, <2>1, <2>2 DEF AuditInv, LogOK, Sorted, Genuine
<1>13. SealOK'
  <2>1. IsFiniteSet(Vouched) /\ Sorted(Vouched) /\ Sound(Vouched)
    <3>1. CASE Vouched = {}
      BY <3>1, FS_EmptySet DEF Sorted, Sound
    <3>2. CASE Vouched = entries /\ Cardinality(entries) < Limit
                                 /\ verifyAuditLogIntegrity(entries)
      <4>1. IsFiniteSet(entries) /\ Sorted(entries)
        BY DEF AuditInv, LogOK
      <4>2. \A e \in entries : Cardinality(Earlier(e, entries)) < Limit
        <5> SUFFICES ASSUME NEW e \in entries
                     PROVE  Cardinality(Earlier(e, entries)) < Limit
          OBVIOUS
        <5>1. Earlier(e, entries) \in SUBSET entries
          BY DEF Earlier
        <5>2. /\ Cardinality(Earlier(e, entries)) <= Cardinality(entries)
              /\ Cardinality(Earlier(e, entries)) \in Nat /\ Cardinality(entries) \in Nat
          BY <4>1, <5>1, FS_Subset, FS_CardinalityType
        <5> QED BY <3>2, <5>2, MaxTimeNat
      <4> QED BY <3>2, <4>1, <4>2 DEF verifyAuditLogIntegrity, Sound
    <3> QED BY <3>1, <3>2 DEF Vouched
  <2>2. \A e \in entries : Genuine(e) => e.currentHash # j
    <3>1. \A e \in entries : e.currentHash \in Nat /\ e \in Archive
      BY ArchiveType
    <3>2. \A e \in Archive : Genuine(e) => e.currentHash < j
      BY <1>1, <1>2 DEF QueueOK
    <3> QED BY <3>1, <3>2
  <2>3. \A i \in Jobs : IsFiniteSet(sealed'[i]) /\ Sorted(sealed'[i]) /\ Sound(sealed'[i])
    <3> HIDE DEF j
    <3> QED BY <1>6, <2>1 DEF AuditInv, SealOK
  <2>4. \A e \in entries : Genuine(e) => sealed'[e.currentHash] = sealed[e.currentHash]
    <3> HIDE DEF j
    <3> QED BY <1>6, <2>2 DEF Genuine
  <2> QED BY <1>4, <2>3, <2>4 DEF AuditInv, SealOK, Sorted, Sound, Earlier, Genuine
<1>14. UntouchedOK'
  BY <1>4 DEF AuditInv, UntouchedOK, Sound, Earlier, Genuine
<1>15. QueueOK(r)'
  <2>1. \A a \in attempted' : \A i \in 1..Len(queue[r]) :
           a < queue[r][i] \/ (i = 1 /\ a = queue[r][1])
    <3>1. \A i \in 1..Len(queue[r]) : i = 1 \/ j < queue[r][i]
      BY <1>1, <1>2 DEF QueueOK
    <3> QED BY <1>1, <1>2, <1>4, <3>1 DEF QueueOK
  <2> QED BY <1>1, <1>4, <1>7, <1>10, <2>1 DEF QueueOK, Genuine
<1>16. StampOK(r)'
  <2>1. \A e \in Archive' : e.count < Cardinality(attempted')
    <3>1. \A e \in Archive : e.count \in Nat /\ e.count <= Cardinality(attempted)
      BY ArchiveType DEF AuditInv, LogOK
    <3> QED BY <1>7, <1>8, <3>1
  <2> QED BY <1>1, <1>4, <1>10, <2>1 DEF StampOK
<1>17. ReadOK(r)'
  <2>1. sealed'[j] = Vouched
    BY <1>2, <1>6
  <2>2. Vouched # {} => Vouched = entries
    BY DEF Vouched
  <2> QED BY <1>4, <1>10, <2>1, <2>2 DEF ReadOK
<1> QED BY <1>1, <1>11, <1>12, <1>13, <1>14, <1>15, <1>16, <1>17 DEF AuditInv

\* The timestamp it takes sorts after every entry there ever was.
LEMMA StampKeepsAuditInv ==
    ASSUME OneReplica, AuditInv, NEW r \in Replicas, Stamp(r)
    PROVE  AuditInv'
<1>1. /\ head \in [Replicas -> Running] /\ now \in 0..MaxTime
      /\ \A s \in Replicas : s = r
      /\ UNCHANGED <<now, next, queue, rejected, rank, entries, attempted, outcome,
                     edits, sealed>>
  BY DEF AuditInv, AuditTypeOK, OneReplica, Stamp
<1>2. head' = [head EXCEPT ![r] = [head[r] EXCEPT !.stage = "stamped",
                                     !.eventTimestamp = now]]
  BY <1>1 DEF Stamp
<1>3. /\ head'[r].stage = "stamped" /\ head'[r].eventTimestamp = now
      /\ head'[r].previousHash = head[r].previousHash
      /\ head[r].stage = "read" /\ head' \in [Replicas -> Running]
  BY <1>1, <1>2 DEF Running, Stamp, Runs
<1>4. Archive' = Archive /\ SealOK' /\ UntouchedOK'
  BY <1>1, LogUntouched
<1>5. AuditTypeOK'
  BY <1>1, <1>3 DEF AuditInv, AuditTypeOK
<1>6. LogOK'
  BY <1>1, <1>4 DEF AuditInv, LogOK, Sorted, Genuine
<1>7. QueueOK(r)'
  BY <1>1, <1>3, <1>4 DEF AuditInv, QueueOK, Genuine
<1>8. StampOK(r)'
  <2>1. \A e \in Archive : e.eventTimestamp < now \/ (e.eventTimestamp = now /\ e.rank = rank[r])
    <3>1. \A e \in Archive : e.eventTimestamp \in Nat /\ now \in Nat
      BY <1>1, ArchiveType, MaxTimeNat
    <3> QED BY <3>1 DEF AuditInv, LogOK
  <2>2. now <= now
    BY <1>1, MaxTimeNat
  <2>3. StampOK(r)
    BY DEF AuditInv
  <2> QED BY <1>1, <1>3, <1>4, <2>1, <2>2, <2>3 DEF StampOK
<1>9. ReadOK(r)'
  BY <1>1, <1>3 DEF AuditInv, ReadOK
<1> QED BY <1>1, <1>4, <1>5, <1>6, <1>7, <1>8, <1>9 DEF AuditInv

\* The entry that is inserted sorts after all there ever were, has a name of its own,
\* and goes on from what its append has read.
LEMMA InsertKeepsAuditInv ==
    ASSUME OneReplica, NumericRanks, AuditInv, NEW r \in Replicas, Insert(r)
    PROVE  AuditInv'
<1> DEFINE n == NewEntry(r)
           j == Head(queue[r])
<1>1. /\ entries \in SUBSET Entry /\ IsFiniteSet(entries)
      /\ queue[r] \in Seq(Jobs) /\ queue[r] # <<>>
      /\ head[r] \in Running /\ rank[r] \in Ranks
      /\ \A s \in Replicas : s = r
      /\ QueueOK(r) /\ StampOK(r) /\ ReadOK(r) /\ head[r].stage = "stamped"
      /\ now \in Nat /\ next \in Nat
  BY MaxTimeNat DEF AuditInv, AuditTypeOK, LogOK, Insert, Runs, OneReplica
<1>2. j = queue[r][1] /\ 1 \in 1..Len(queue[r]) /\ j \in Jobs /\ j \in Nat
  BY <1>1, MaxTimeNat DEF Jobs
<1>3. Cardinality(attempted) \in Nat
  BY ArchiveType
<1>4. n \in Entry
  <2>1. j \in Hashes
    BY <1>2, MaxTimeNat DEF Jobs, Hashes, GENESIS_HASH
  <2> QED BY <1>1, <1>3, <2>1 DEF NewEntry, Entry, Running
<1>5. /\ n.currentHash = j /\ n.previousHash = head[r].previousHash
      /\ n.eventTimestamp = head[r].eventTimestamp /\ n.rank = rank[r]
      /\ n.count = Cardinality(attempted) /\ n.intact
  BY DEF NewEntry
<1> HIDE DEF n, j
<1>6. entries' = entries \cup {n}
      /\ UNCHANGED <<now, next, rank, attempted, edits, sealed>>
  BY DEF Insert, n
<1>7. Archive' = Archive \cup {n}
  BY <1>6 DEF Archive
<1>8. \A e \in Archive : Before(e, n) /\ ~Before(n, e) /\ e # n
  <2>1. \A e \in Archive : Before(e, n)
    BY <1>1, <1>5 DEF Before, StampOK
  <2> QED BY <1>4, <2>1, ArchiveType, BeforeAsymmetric
<1>9. ~Before(n, n)
  BY <1>4, BeforeAsymmetric
<1>10. entries \in SUBSET Archive
  BY ArchiveType
<1>11. Earlier(n, entries') = entries
       /\ \A e \in entries : Earlier(e, entries') = Earlier(e, entries)
  BY <1>6, <1>8, <1>9, <1>10 DEF Earlier
<1>12. \A e \in Archive : Genuine(e) => e.currentHash < j
  BY <1>1, <1>2 DEF QueueOK
<1>13. \A e \in Archive : e.currentHash # j
  BY <1>2, <1>12, ArchiveType DEF Genuine
<1>14. LogOK'
  <2>1. IsFiniteSet(entries') /\ Sorted(entries')
    <3>1. Sorted(entries)
      BY DEF AuditInv, LogOK
    <3> QED BY <1>1, <1>6, <1>8, <1>10, <3>1, FS_AddElement DEF Sorted
  <2>2. /\ n.count <= Cardinality(attempted) /\ n.eventTimestamp <= now
        /\ \A s \in Replicas : n.rank = rank[s]
        /\ n.currentHash \in 1..(MaxJobs + edits) /\ n.currentHash < next
    <3>1. j \in 1..(MaxJobs + edits)
      <4>1. edits \in Nat /\ MaxJobs \in Nat
        BY MaxTimeNat DEF AuditInv, AuditTypeOK
      <4> QED BY <1>2, <4>1 DEF Jobs
    <3> QED BY <1>1, <1>2, <1>3, <1>5, <3>1 DEF StampOK, QueueOK
  <2>3. \A e, f \in Archive' :
           e.intact /\ f.intact /\ e.currentHash = f.currentHash => e = f
    BY <1>5, <1>7, <1>13 DEF AuditInv, LogOK
  <2> QED BY <1>6, <1>7, <2>1, <2>2, <2>3 DEF AuditInv, LogOK, Genuine
<1>15. SealOK'
  <2>1. sealed[j] # {} =>
           /\ n.previousHash = LastHash(sealed[j])
           /\ \A x \in sealed[j] : Before(x, n)
    BY <1>1, <1>2, <1>5, <1>8, ArchiveType DEF ReadOK, j
  <2>2. n.currentHash = j
    BY <1>5
  <2>3. ASSUME NEW e \in entries', e.intact, Genuine(e), sealed[e.currentHash] # {}
        PROVE  /\ e.previousHash = LastHash(sealed[e.currentHash])
               /\ \A x \in sealed[e.currentHash] : Before(x, e)
    <3>1. CASE e \in entries
      BY <2>3, <3>1 DEF AuditInv, SealOK
    <3>2. CASE e = n
      BY <2>1, <2>2, <2>3, <3>2
    <3> QED BY <1>6, <3>1, <3>2
  <2> QED BY <1>6, <2>3 DEF AuditInv, SealOK, Sorted, Sound, Earlier, Genuine
<1>16. UntouchedOK'
  <2> SUFFICES ASSUME edits = 0
               PROVE  /\ Sound(entries')
                      /\ \A e \in entries' : Genuine(e)
                      /\ \A e, f \in entries' :
                            Before(e, f) => e.currentHash < f.currentHash
    BY <1>6 DEF UntouchedOK, Sound, Earlier, Genuine
  <2>1. /\ Sound(entries) /\ \A e \in entries : Genuine(e)
        /\ \A e, f \in entries : Before(e, f) => e.currentHash < f.currentHash
    BY DEF AuditInv, UntouchedOK
  <2>2. n.previousHash = LastHash(entries)
    BY <1>1, <1>5 DEF ReadOK
  <2>3. Sound(entries')
    BY <1>5, <1>6, <1>11, <2>1, <2>2 DEF Sound
  <2>4. \A e, f \in entries' : Before(e, f) => e.currentHash < f.currentHash
    BY <1>5, <1>6, <1>8, <1>9, <1>10, <1>12, <2>1
  <2> QED BY <1>2, <1>5, <1>6, <2>1, <2>3, <2>4 DEF Genuine
<1>17. rejected' \in [Replicas -> BOOLEAN]
  BY DEF Insert, AuditInv, AuditTypeOK
<1>18. PICK result \in {"done", "failed"} : Settle(r, result)
  BY DEF Insert
<1>19. entries' \subseteq Entry /\ attempted' \subseteq attempted \cup {Head(queue[r])}
  BY <1>1, <1>4, <1>6
<1>20. \A e \in Archive' : e \in Archive \/ e.currentHash = Head(queue[r])
  BY <1>5, <1>7 DEF j
<1> QED BY <1>1, <1>6, <1>14, <1>15, <1>16, <1>17, <1>18, <1>19, <1>20, SettleKeepsAuditInv

\* An append fails, or is skipped behind one that did.
LEMMA FailureKeepsAuditInv ==
    ASSUME OneReplica, AuditInv, NEW r \in Replicas, AppendFails(r) \/ SkipRejected(r)
    PROVE  AuditInv'
<1>1. /\ queue[r] # <<>> /\ Settle(r, "failed")
      /\ UNCHANGED <<now, next, rank, entries, edits, sealed>>
      /\ rejected' \in [Replicas -> BOOLEAN]
      /\ attempted' = attempted \/ attempted' = attempted \cup {Head(queue[r])}
      /\ queue[r] \in Seq(Jobs) /\ QueueOK(r)
  BY DEF AppendFails, SkipRejected, AuditInv, AuditTypeOK
<1>2. Archive' = Archive /\ SealOK' /\ UntouchedOK'
  BY <1>1, LogUntouched
<1>3. LogOK'
  <2>1. Head(queue[r]) < next
    <3>1. Head(queue[r]) = queue[r][1] /\ 1 \in 1..Len(queue[r])
      BY <1>1
    <3> QED BY <1>1, <3>1 DEF QueueOK
  <2>2. \A e \in Archive : e.count <= Cardinality(attempted')
    <3>1. IsFiniteSet(attempted) /\ IsFiniteSet(attempted')
      <4>1. IsFiniteSet(attempted)
        BY ArchiveType
      <4>2. IsFiniteSet(attempted \cup {Head(queue[r])})
        BY <4>1, FS_AddElement
      <4> QED BY <1>1, <4>1, <4>2
    <3>2. /\ Cardinality(attempted) <= Cardinality(attempted')
          /\ Cardinality(attempted) \in Nat /\ Cardinality(attempted') \in Nat
      BY <1>1, <3>1, FS_Subset, FS_CardinalityType
    <3>3. \A e \in Archive : e.count \in Nat /\ e.count <= Cardinality(attempted)
      BY ArchiveType DEF AuditInv, LogOK
    <3> QED BY <3>2, <3>3
  <2> QED BY <1>1, <1>2, <2>1, <2>2 DEF AuditInv, LogOK, Sorted, Genuine
<1>4. entries' \subseteq Entry
  BY <1>1 DEF AuditInv, AuditTypeOK
<1> QED BY <1>1, <1>2, <1>3, <1>4, SettleKeepsAuditInv

\* Time has passed: no entry is of this millisecond.
LEMMA LaterKeepsLogOK ==
    ASSUME AuditInv, now' = now + 1, UNCHANGED <<entries, sealed, edits, attempted, next>>
    PROVE  LogOK'
<1>1. Archive' = Archive
  BY LogUntouched
<1>2. \A e \in Archive : e.eventTimestamp <= now' /\ e.eventTimestamp # now'
  <2>1. \A e \in Archive : e.eventTimestamp \in Nat /\ now \in Nat /\ e.eventTimestamp <= now
    BY ArchiveType, MaxTimeNat DEF AuditInv, AuditTypeOK, LogOK
  <2> QED BY <2>1
<1> QED BY <1>1, <1>2 DEF AuditInv, LogOK, Sorted, Genuine

\* A new process starts with an empty queue, after the timestamp of any entry.
LEMMA RestartKeepsAuditInv ==
    ASSUME OneReplica, AuditInv, NEW r \in Replicas, Restart(r)
    PROVE  AuditInv'
<1>1. /\ \A s \in Replicas : s = r
      /\ now' = now + 1 /\ now' \in 0..MaxTime
      /\ UNCHANGED <<next, entries, attempted, edits, sealed>>
  BY MaxTimeNat DEF OneReplica, AuditInv, AuditTypeOK, Restart
<1>2. AuditTypeOK'
  <2>1. Idle \in Running
    BY MaxTimeNat DEF Idle, Running, GENESIS_HASH, Hashes
  <2>2. queue' \in [Replicas -> Seq(Jobs)] /\ head' \in [Replicas -> Running]
    BY <2>1 DEF Restart, AuditInv, AuditTypeOK
  <2>3. /\ rejected' \in [Replicas -> BOOLEAN] /\ rank' \in [Replicas -> Ranks]
        /\ outcome' \in [Jobs -> Outcome]
    BY DEF Restart, AuditInv, AuditTypeOK, Outcome
  <2> QED BY <1>1, <2>2, <2>3 DEF AuditInv, AuditTypeOK
<1>3. LogOK' /\ SealOK' /\ UntouchedOK'
  BY <1>1, LaterKeepsLogOK, LogUntouched
<1>4. queue'[r] = <<>> /\ head'[r] = Idle
  BY DEF Restart, AuditInv, AuditTypeOK
<1>5. QueueOK(r)' /\ StampOK(r)' /\ ReadOK(r)'
  BY <1>4 DEF QueueOK, StampOK, ReadOK, Idle
<1> QED BY <1>1, <1>2, <1>3, <1>5 DEF AuditInv

\* Time passes.
LEMMA TickKeepsAuditInv ==
    ASSUME AuditInv, Tick
    PROVE  AuditInv'
<1>1. /\ now \in Nat /\ now' = now + 1 /\ now' \in 0..MaxTime
      /\ UNCHANGED <<next, queue, rejected, head, rank, entries, attempted, outcome,
                     edits, sealed>>
  BY MaxTimeNat DEF AuditInv, AuditTypeOK, Tick
<1>2. Archive' = Archive /\ LogOK' /\ SealOK' /\ UntouchedOK'
  BY <1>1, LaterKeepsLogOK, LogUntouched
<1>3. AuditTypeOK'
  BY <1>1 DEF AuditInv, AuditTypeOK
<1>4. ASSUME NEW s \in Replicas PROVE QueueOK(s)' /\ StampOK(s)' /\ ReadOK(s)'
  <2>1. head[s].eventTimestamp \in Int
    BY MaxTimeNat DEF AuditInv, AuditTypeOK, Running
  <2>2. head[s].eventTimestamp <= now => head[s].eventTimestamp <= now'
    BY <1>1, <2>1
  <2>3. QueueOK(s) /\ StampOK(s) /\ ReadOK(s)
    BY DEF AuditInv
  <2> QED BY <1>1, <1>2, <2>2, <2>3 DEF QueueOK, StampOK, ReadOK, Genuine
<1> QED BY <1>2, <1>3, <1>4 DEF AuditInv

\* An edit leaves an entry its place or takes it away; what it makes of the entry
\* bears a hash of its own, or does not match the one it bears.
LEMMA EditKeepsAuditInv ==
    ASSUME AuditInv, Edit
    PROVE  AuditInv'
<1>1. /\ edits < MaxEdits /\ edits' = edits + 1 /\ edits \in Nat /\ edits' \in 0..MaxEdits
      /\ UNCHANGED <<now, next, queue, rejected, head, rank, attempted, outcome, sealed>>
  BY MaxTimeNat DEF Edit, AuditInv, AuditTypeOK
<1>2. PICK e \in entries : \/ entries' = entries \ {e}
                           \/ \E x \in Altered(e) : entries' = (entries \ {e}) \cup {x}
  BY DEF Edit
<1>3. e \in Entry /\ e \in Archive /\ entries \in SUBSET Entry
  BY ArchiveType
<1>4. ASSUME NEW x \in Altered(e)
      PROVE  /\ x \in Entry /\ x.eventTimestamp = e.eventTimestamp
             /\ x.rank = e.rank /\ x.count = e.count
             /\ \/ ~x.intact /\ x.currentHash = e.currentHash
                \/ x.currentHash = MaxJobs + edits + 1
  <2>1. CASE x = [e EXCEPT !.intact = FALSE]
    BY <1>3, <2>1 DEF Entry
  <2>2. CASE \E h \in Hashes : x = [e EXCEPT !.currentHash = MaxJobs + edits + 1,
                                             !.previousHash = h]
    <3>1. MaxJobs + edits + 1 \in Hashes
      BY <1>1, MaxTimeNat DEF Hashes, GENESIS_HASH
    <3> QED BY <1>3, <2>2, <3>1 DEF Entry
  <2> QED BY <2>1, <2>2 DEF Altered
<1>5. PICK X : /\ X = {} \/ \E x \in Altered(e) : X = {x}
               /\ entries' = (entries \ {e}) \cup X
  <2>1. CASE entries' = entries \ {e}
    <3>1. entries' = (entries \ {e}) \cup {}
      BY <2>1
    <3> QED BY <3>1
  <2>2. CASE \E x \in Altered(e) : entries' = (entries \ {e}) \cup {x}
    BY <2>2
  <2> QED BY <1>2, <2>1, <2>2
<1>6. X \subseteq Altered(e) /\ IsFiniteSet(X) /\ \A x, y \in X : x = y
  <2>1. IsFiniteSet({}) /\ \A x : IsFiniteSet({} \cup {x})
    BY FS_EmptySet, FS_AddElement
  <2> QED BY <1>5, <2>1
<1>7. /\ Archive' \subseteq Archive \cup X
      /\ \A x \in entries' : x \in entries \/ x \in X
  BY <1>1, <1>5 DEF Archive
<1>8. AuditTypeOK'
  BY <1>1, <1>3, <1>4, <1>5, <1>6 DEF AuditInv, AuditTypeOK
<1>9. \A x \in X : Genuine(x) => ~x.intact /\ x.currentHash = e.currentHash
  BY <1>1, <1>4, <1>6, MaxTimeNat DEF Genuine, Jobs
<1>10. LogOK'
  <2>1. IsFiniteSet(entries')
    <3>1. IsFiniteSet(entries)
      BY DEF AuditInv, LogOK
    <3> QED BY <1>5, <1>6, <3>1, FS_RemoveElement, FS_Union
  <2>2. Sorted(entries')
    <3>1. ASSUME NEW x \in X, NEW f \in entries \ {e}
          PROVE  Before(x, f) \/ Before(f, x)
      <4>1. Before(e, f) \/ Before(f, e)
        BY <3>1 DEF AuditInv, LogOK, Sorted
      <4> QED BY <1>4, <1>6, <3>1, <4>1 DEF Before
    <3> QED BY <1>5, <1>6, <3>1 DEF AuditInv, LogOK, Sorted
  <2>3. ASSUME NEW x \in Archive'
        PROVE  /\ x.count <= Cardinality(attempted)
               /\ x.eventTimestamp <= now
               /\ \A r \in Replicas : x.eventTimestamp = now => x.rank = rank[r]
               /\ x.currentHash \in 1..(MaxJobs + edits')
               /\ Genuine(x) => x.currentHash < next
    <3>1. \A f \in Archive : /\ f.count <= Cardinality(attempted)
                             /\ f.eventTimestamp <= now
                             /\ \A r \in Replicas : f.eventTimestamp = now => f.rank = rank[r]
                             /\ f.currentHash \in 1..(MaxJobs + edits)
                             /\ Genuine(f) => f.currentHash < next
      BY DEF AuditInv, LogOK
    <3>2. \A k \in 1..(MaxJobs + edits) : k \in 1..(MaxJobs + edits')
      BY <1>1, MaxTimeNat
    <3>3. CASE x \in Archive
      BY <3>1, <3>2, <3>3
    <3>4. CASE x \in X
      <4>1. MaxJobs + edits + 1 \in 1..(MaxJobs + edits')
        BY <1>1, MaxTimeNat
      <4>2. x \in Altered(e)
        BY <1>6, <3>4
      <4>3. x.currentHash \in 1..(MaxJobs + edits')
        BY <1>3, <1>4, <3>1, <3>2, <4>1, <4>2
      <4>4. Genuine(x) => x.currentHash < next
        BY <1>3, <1>9, <3>1, <3>4 DEF Genuine
      <4> QED BY <1>3, <1>4, <3>1, <4>2, <4>3, <4>4
    <3> QED BY <1>7, <3>3, <3>4
  <2>4. ASSUME NEW x \in Archive', NEW y \in Archive', x.intact, y.intact,
               x.currentHash = y.currentHash
        PROVE  x = y
    <3>1. \A z \in X : z.intact => z.currentHash = MaxJobs + edits + 1
      BY <1>4, <1>6
    <3>2. \A f \in Archive : f.currentHash # MaxJobs + edits + 1
      <4>1. \A f \in Archive : f.currentHash \in 1..(MaxJobs + edits)
        BY DEF AuditInv, LogOK
      <4> QED BY <1>1, <4>1, MaxTimeNat
    <3>3. CASE x \in X /\ y \in X
      BY <1>6, <3>3
    <3>4. CASE x \in Archive /\ y \in Archive
      BY <2>4, <3>4 DEF AuditInv, LogOK
    <3> QED BY <1>7, <2>4, <3>1, <3>2, <3>3, <3>4
  <2> QED BY <1>1, <2>1, <2>2, <2>3, <2>4 DEF AuditInv, LogOK, Genuine
<1>11. SealOK'
  <2>1. ASSUME NEW x \in entries', x.intact, Genuine(x), sealed[x.currentHash] # {}
        PROVE  /\ x.previousHash = LastHash(sealed[x.currentHash])
               /\ \A y \in sealed[x.currentHash] : Before(y, x)
    <3>1. x \in entries
      BY <1>7, <1>9, <2>1
    <3> QED BY <2>1, <3>1 DEF AuditInv, SealOK
  <2> QED BY <1>1, <2>1 DEF AuditInv, SealOK, Sorted, Sound, Earlier, Genuine
<1>12. UntouchedOK'
  BY <1>1 DEF UntouchedOK
<1>13. ASSUME NEW r \in Replicas PROVE QueueOK(r)' /\ StampOK(r)' /\ ReadOK(r)'
  <2>1. QueueOK(r) /\ StampOK(r) /\ ReadOK(r)
    BY DEF AuditInv
  <2>2. \A x \in X : /\ x.eventTimestamp = e.eventTimestamp /\ x.rank = e.rank
                     /\ x.count = e.count
                     /\ Genuine(x) => x.currentHash = e.currentHash /\ Genuine(e)
    BY <1>4, <1>6, <1>9 DEF Genuine
  <2>3. QueueOK(r)'
    BY <1>1, <1>3, <1>7, <2>1, <2>2 DEF QueueOK, Genuine
  <2>4. StampOK(r)'
    BY <1>1, <1>3, <1>7, <2>1, <2>2 DEF StampOK
  <2>5. ReadOK(r)'
    BY <1>1, <2>1 DEF ReadOK
  <2> QED BY <2>3, <2>4, <2>5
<1> QED BY <1>8, <1>10, <1>11, <1>12, <1>13 DEF AuditInv

\* The invariant is inductive as long as one process serves the API.
LEMMA AuditInvInductive ==
    ASSUME OneReplica, NumericRanks, AuditInv, [Next]_vars
    PROVE  AuditInv'
<1>1. CASE UNCHANGED vars
  <2>1. Archive' = Archive /\ SealOK' /\ UntouchedOK'
    BY <1>1, LogUntouched DEF vars
  <2>2. LogOK' /\ AuditTypeOK'
    BY <1>1, <2>1 DEF vars, AuditInv, AuditTypeOK, LogOK, Sorted, Genuine
  <2>3. ASSUME NEW r \in Replicas PROVE QueueOK(r)' /\ StampOK(r)' /\ ReadOK(r)'
    BY <1>1, <2>1 DEF vars, AuditInv, QueueOK, StampOK, ReadOK, Genuine
  <2> QED BY <2>1, <2>2, <2>3 DEF AuditInv
<1> QED BY <1>1, RequestKeepsAuditInv, ReadLastKeepsAuditInv, StampKeepsAuditInv,
           InsertKeepsAuditInv, FailureKeepsAuditInv, RestartKeepsAuditInv,
           TickKeepsAuditInv, EditKeepsAuditInv DEF Next, Run, Quiescent

\* With a single process the log is written one entry after the other.
THEOREM SingleAuditTypeCorrect ==
    ASSUME OneReplica, NumericRanks PROVE Spec => []AuditTypeOK
<1>1. AuditInv => AuditTypeOK
  BY DEF AuditInv
<1> QED BY <1>1, InitAuditInv, AuditInvInductive, PTL DEF Spec

\* With a single process, a log nobody altered verifies, whatever failed and
\* however often the process was restarted.
THEOREM SingleLogVerifies ==
    ASSUME OneReplica, NumericRanks PROVE Spec => []UntouchedLogVerifies
<1>1. AuditInv => UntouchedLogVerifies
  BY DEF AuditInv, UntouchedOK, Sound, UntouchedLogVerifies, verifyAuditLogIntegrity
<1> QED BY <1>1, InitAuditInv, AuditInvInductive, PTL DEF Spec

\* With a single process, the entries stand in the order of their requests.
THEOREM SingleOrderKept ==
    ASSUME OneReplica, NumericRanks PROVE Spec => []RequestOrderKept
<1>1. AuditInv => RequestOrderKept
  BY DEF AuditInv, UntouchedOK, RequestOrderKept
<1> QED BY <1>1, InitAuditInv, AuditInvInductive, PTL DEF Spec

\* Part of a sorted log is sorted.
LEMMA EarlierSorted ==
    ASSUME NumericRanks, NEW S \in SUBSET Entry, IsFiniteSet(S), Sorted(S), NEW e
    PROVE  /\ Earlier(e, S) \in SUBSET Entry /\ IsFiniteSet(Earlier(e, S))
           /\ Sorted(Earlier(e, S))
<1>1. Earlier(e, S) \in SUBSET S
  BY DEF Earlier
<1> QED BY <1>1, FS_Subset DEF Sorted

\* With a single process, no two entries name the same predecessor.
THEOREM SingleChainNeverForks ==
    ASSUME OneReplica, NumericRanks PROVE Spec => []ChainNeverForks
<1>1. ASSUME AuditInv, edits = 0, NEW a \in entries, NEW b \in entries, Before(a, b)
      PROVE  a.previousHash # b.previousHash
  <2>1. /\ entries \in SUBSET Entry /\ IsFiniteSet(entries) /\ Sorted(entries)
        /\ \A e \in entries : e.currentHash \in Nat /\ e.currentHash > 0
    <3>1. \A e \in entries : Genuine(e)
      BY <1>1 DEF AuditInv, UntouchedOK
    <3> QED BY <1>1, <3>1, ArchiveType, MaxTimeNat DEF AuditInv, LogOK, Genuine, Jobs
  <2>2. \A e \in entries : e.previousHash = LastHash(Earlier(e, entries))
    BY <1>1 DEF AuditInv, UntouchedOK, Sound
  <2>3. \A e, f \in entries : Before(e, f) => e.currentHash < f.currentHash
    BY <1>1 DEF AuditInv, UntouchedOK
  <2>4. PICK l : IsLast(l, Earlier(b, entries))
                 /\ LastHash(Earlier(b, entries)) = l.currentHash
    <3>1. a \in Earlier(b, entries)
      BY <1>1 DEF Earlier
    <3> QED BY <2>1, <3>1, EarlierSorted, LastHashType
  <2>5. l \in entries /\ (l = a \/ Before(a, l))
    BY <1>1, <2>4 DEF IsLast, Earlier
  <2>6. b.previousHash = l.currentHash
    BY <2>2, <2>4
  <2>7. CASE Earlier(a, entries) = {}
    <3>1. a.previousHash = 0
      BY <2>2, <2>7 DEF LastHash, GENESIS_HASH
    <3> QED BY <2>1, <2>5, <2>6, <3>1
  <2>8. CASE Earlier(a, entries) # {}
    <3>1. PICK k : IsLast(k, Earlier(a, entries))
                   /\ LastHash(Earlier(a, entries)) = k.currentHash
      BY <2>1, <2>8, EarlierSorted, LastHashType
    <3>2. k \in entries /\ Before(k, a) /\ a.previousHash = k.currentHash
      BY <2>2, <3>1 DEF IsLast, Earlier
    <3>3. k.currentHash < a.currentHash /\ a.currentHash <= l.currentHash
      BY <2>1, <2>3, <2>5, <3>2
    <3> QED BY <2>1, <2>5, <2>6, <3>2, <3>3
  <2> QED BY <2>7, <2>8
<1>2. AuditInv => ChainNeverForks
  BY <1>1 DEF AuditInv, LogOK, Sorted, ChainNeverForks
<1> QED BY <1>2, InitAuditInv, AuditInvInductive, PTL DEF Spec

-----------------------------------------------------------------------------
(* The seal.                                                                *)

\* The entry a verified one names is before it, as it was when its hash was computed.
LEMMA NamedIsThere ==
    ASSUME NumericRanks, AuditInv, verifyAuditLogIntegrity(entries),
           NEW y \in entries, Cardinality(Earlier(y, entries)) < Limit,
           NEW z \in Archive, z.intact, y.previousHash = z.currentHash,
           \A x \in Earlier(y, entries) : Cardinality(Earlier(x, entries)) < Limit
    PROVE  z \in entries
<1>1. /\ entries \in SUBSET Entry /\ IsFiniteSet(entries) /\ Sorted(entries)
      /\ entries \in SUBSET Archive /\ z.currentHash # GENESIS_HASH
  <2>1. \A e \in Archive : e.currentHash \in 1..(MaxJobs + edits)
    BY DEF AuditInv, LogOK
  <2> QED BY <2>1, ArchiveType DEF AuditInv, LogOK, GENESIS_HASH
<1>2. y.previousHash = LastHash(Earlier(y, entries))
  BY DEF verifyAuditLogIntegrity
<1>3. Earlier(y, entries) # {}
  BY <1>1, <1>2 DEF LastHash
<1>4. PICK k : IsLast(k, Earlier(y, entries)) /\ LastHash(Earlier(y, entries)) = k.currentHash
  BY <1>1, <1>3, EarlierSorted, LastHashType
<1>5. k \in entries /\ k \in Earlier(y, entries)
  BY <1>4 DEF IsLast, Earlier
<1>6. k.intact
  BY <1>5 DEF verifyAuditLogIntegrity
<1>7. k = z
  BY <1>1, <1>2, <1>4, <1>5, <1>6 DEF AuditInv, LogOK
<1> QED BY <1>5, <1>7

\* In a log that verifies, a genuine entry within the limit has all that it seals before
\* it: of the entries missing, take the last; the one after it, or the genuine entry
\* itself, names it.
LEMMA SealHolds == ASSUME NumericRanks, AuditInv PROVE PastIsSealed
<1> SUFFICES ASSUME verifyAuditLogIntegrity(entries), NEW e \in entries, Genuine(e),
                    Cardinality(Earlier(e, entries)) < Limit,
                    ~(sealed[e.currentHash] \subseteq entries)
             PROVE  FALSE
  BY DEF PastIsSealed, Genuine
<1> DEFINE S == sealed[e.currentHash]
           Missing == S \ entries
<1>1. /\ S \in SUBSET Entry /\ IsFiniteSet(S) /\ Sorted(S) /\ Sound(S)
      /\ S \in SUBSET Archive /\ entries \in SUBSET Archive
      /\ IsFiniteSet(entries) /\ entries \in SUBSET Entry
  BY ArchiveType DEF AuditInv, SealOK, LogOK, Genuine
<1>2. e.intact
  BY DEF verifyAuditLogIntegrity
<1>3. S # {} /\ e.previousHash = LastHash(S) /\ \A x \in S : Before(x, e)
  <2>1. S # {}
    OBVIOUS
  <2> QED BY <1>2, <2>1 DEF AuditInv, SealOK
<1>4. \A x \in entries : Before(x, e) \/ x = e =>
         /\ Cardinality(Earlier(x, entries)) < Limit
         /\ \A w \in Earlier(x, entries) : Cardinality(Earlier(w, entries)) < Limit
  <2>1. ASSUME NEW x \in entries, Before(x, e)
        PROVE  Cardinality(Earlier(x, entries)) < Limit
    <3>1. Earlier(x, entries) \in SUBSET Earlier(e, entries)
      BY <1>1, <2>1, BeforeTransitive DEF Earlier
    <3>2. Earlier(e, entries) \in SUBSET entries
      BY DEF Earlier
    <3>3. IsFiniteSet(Earlier(e, entries)) /\ IsFiniteSet(Earlier(x, entries))
      BY <1>1, <3>1, <3>2, FS_Subset
    <3>4. Cardinality(Earlier(x, entries)) <= Cardinality(Earlier(e, entries))
      BY <3>1, <3>3, FS_Subset
    <3>5. /\ Cardinality(Earlier(e, entries)) \in Nat
          /\ Cardinality(Earlier(x, entries)) \in Nat
      BY <3>3, FS_CardinalityType
    <3> QED BY <3>4, <3>5, MaxTimeNat
  <2>2. ASSUME NEW x \in entries, Before(x, e) \/ x = e, NEW w \in Earlier(x, entries)
        PROVE  w \in entries /\ Before(w, e)
    BY <1>1, <2>2, BeforeTransitive DEF Earlier
  <2> QED BY <2>1, <2>2
<1>5. \A z \in S : z.intact
  BY <1>1 DEF Sound
<1>6. PICK z \in Missing : \A x \in Missing \ {z} : Before(x, z)
  <2>1. Missing \in SUBSET S /\ Missing \in SUBSET Entry /\ Sorted(Missing)
    BY <1>1 DEF Sorted
  <2>2. IsFiniteSet(Missing) /\ Missing # {}
    BY <1>1, <2>1, FS_Subset
  <2> HIDE DEF Missing
  <2> QED BY <2>1, <2>2, EndsExist DEF IsLast
<1>7. z \in S /\ z \notin entries /\ z \in Entry /\ z \in Archive /\ z.intact
  BY <1>1, <1>5, <1>6
<1> DEFINE After == {x \in S : Before(z, x)}
<1>8. CASE After = {}
  <2>1. IsLast(z, S)
    BY <1>1, <1>7, <1>8 DEF IsLast, Sorted
  <2>2. e.previousHash = z.currentHash
    BY <1>1, <1>3, <2>1, LastHashOfLast
  <2>3. z \in entries
    BY <1>4, <1>7, <2>2, NamedIsThere
  <2> QED BY <1>7, <2>3
<1>9. CASE After # {}
  <2>1. PICK y \in After : \A x \in After \ {y} : Before(y, x)
    <3>1. After \in SUBSET S /\ After \in SUBSET Entry /\ Sorted(After)
      BY <1>1 DEF Sorted
    <3>2. IsFiniteSet(After)
      BY <1>1, <3>1, FS_Subset
    <3> HIDE DEF After
    <3> QED BY <1>9, <3>1, <3>2, EndsExist
  <2>2. y \in S /\ y \in Entry /\ Before(z, y) /\ Before(y, e)
    BY <1>1, <1>3, <2>1
  <2>3. y \in entries
    BY <1>6, <1>7, <2>2, BeforeAsymmetric
  <2>4. IsLast(z, Earlier(y, S))
    <3>1. ASSUME NEW x \in Earlier(y, S) \ {z} PROVE Before(x, z)
      <4>1. x \in S /\ x \in Entry /\ Before(x, y) /\ x # y /\ ~Before(y, x)
        BY <1>1, <2>2, <3>1, BeforeAsymmetric DEF Earlier
      <4>2. ~Before(z, x)
        BY <2>1, <4>1
      <4> QED BY <1>1, <1>7, <3>1, <4>1, <4>2 DEF Sorted
    <3> QED BY <1>7, <2>2, <3>1 DEF IsLast, Earlier
  <2>5. y.previousHash = z.currentHash
    <3>1. Earlier(y, S) \in SUBSET Entry
      BY <1>1 DEF Earlier
    <3>2. LastHash(Earlier(y, S)) = z.currentHash
      BY <2>4, <3>1, LastHashOfLast
    <3> QED BY <1>1, <2>2, <3>2 DEF Sound
  <2>6. z \in entries
    BY <1>4, <1>7, <2>2, <2>3, <2>5, NamedIsThere
  <2> QED BY <1>7, <2>6
<1> QED BY <1>8, <1>9

\* With a single process, whatever is removed or altered before a genuine entry of a
\* log that was sound shows in the verification, within its limit.
THEOREM SinglePastIsSealed ==
    ASSUME OneReplica, NumericRanks PROVE Spec => []PastIsSealed
<1>1. AuditInv => PastIsSealed
  BY SealHolds
<1> QED BY <1>1, InitAuditInv, AuditInvInductive, PTL DEF Spec

=============================================================================

------------------------------ MODULE AuditLog ------------------------------
(***************************************************************************)
(* The hash-chained audit log of src/services/auditLogService.js over the  *)
(* collection of src/models/AuditLogEntry.js.                              *)
(*                                                                         *)
(* Every replica of the API is a process with an appendQueue of its own, a *)
(* chain of promises.  The head of the queue reads the last entry of the   *)
(* log, builds its own entry on it and inserts it; then the next one runs. *)
(* An append that fails rejects the chain, and every promise chained after *)
(* it is rejected without running.                                         *)
(***************************************************************************)
EXTENDS Integers, FiniteSets, Sequences

CONSTANTS
    Replicas,    \* the processes that serve the API
    Ranks,       \* where the identifiers a process generates sort
    MaxJobs,     \* bound on the appends requested
    MaxTime,     \* bound on the clock, in milliseconds
    Limit,       \* the limit of verifyAuditLogIntegrity, 5000 by default
    Faults,      \* may the database fail and processes restart?
    MaxEdits     \* bound on what is done to the log behind the application's back

ASSUME ReplicasAssumption == Cardinality(Replicas) <= Cardinality(Ranks)
ASSUME BoundsAssumption == {MaxJobs, MaxTime, Limit, MaxEdits} \subseteq Nat
ASSUME FlagsAssumption == Faults \in BOOLEAN

Jobs == 1..MaxJobs
GENESIS_HASH == 0
Hashes == GENESIS_HASH..(MaxJobs + MaxEdits)

VARIABLES
    now,        \* the clock every replica reads
    next,       \* the number of the next append requested
    queue,      \* appendQueue: the appends a process has still to settle
    rejected,   \* has the chain of promises been rejected?
    head,       \* the append that runs: its stage, what it read, its timestamp
    rank,       \* the order of a process's ObjectIds among those of a millisecond
    entries,    \* the auditlogentries collection
    attempted,  \* history: the appends that reached the database
    outcome,    \* what the caller of each append was told
    edits,      \* how often someone has altered the log
    sealed      \* history: the log each append has read, if it verified in full

vars == <<now, next, queue, rejected, head, rank, entries, attempted, outcome,
          edits, sealed>>

\* A hash is a name for the content it was computed from, previousHash included:
\* the number of the append, or one of its own for what an edit has made.  An entry
\* is intact if its content is what its currentHash was computed from.
Entry == [currentHash: Hashes, previousHash: Hashes,
          eventTimestamp: 0..MaxTime, rank: Ranks, count: Nat, intact: BOOLEAN]
Running == [stage: {"idle", "read", "stamped"},
            previousHash: Hashes, eventTimestamp: 0..MaxTime]
Idle == [stage |-> "idle", previousHash |-> GENESIS_HASH, eventTimestamp |-> 0]
Outcome == {"none", "waiting", "done", "failed", "lost"}

\* The sort of both queries: by eventTimestamp, then by _id, which orders the
\* entries of one millisecond by process and, within a process, by creation.
Before(a, b) ==
    \/ a.eventTimestamp < b.eventTimestamp
    \/ a.eventTimestamp = b.eventTimestamp /\ a.rank < b.rank
    \/ a.eventTimestamp = b.eventTimestamp /\ a.rank = b.rank /\ a.count < b.count

Earlier(e, S) == {x \in S : Before(x, e)}

\* The hash an append that reads S builds on.
LastHash(S) ==
    IF S = {} THEN GENESIS_HASH
    ELSE (CHOOSE e \in S : \A x \in S \ {e} : Before(x, e)).currentHash

\* Mutant: every entry is checked against its own content only.
verifyAuditLogIntegrity_NoChain(S) ==
    \A e \in S : Cardinality(Earlier(e, S)) < Limit => e.intact

\* verifyAuditLogIntegrity: the first Limit entries, each checked against the
\* one before it and against its own content.
verifyAuditLogIntegrity(S) ==
    \A e \in S : Cardinality(Earlier(e, S)) < Limit =>
        e.previousHash = LastHash(Earlier(e, S)) /\ e.intact

Init ==
    /\ now = 0
    /\ next = 1
    /\ queue = [r \in Replicas |-> <<>>]
    /\ rejected = [r \in Replicas |-> FALSE]
    /\ head = [r \in Replicas |-> Idle]
    /\ rank \in {f \in [Replicas -> Ranks] :
                    \A r, s \in Replicas : f[r] = f[s] => r = s}
    /\ entries = {}
    /\ attempted = {}
    /\ outcome = [j \in Jobs |-> "none"]
    /\ edits = 0
    /\ sealed = [j \in Jobs |-> {}]

-----------------------------------------------------------------------------

\* Mutant: the last append requested runs first.
Request_LastFirst(r) ==
    /\ next \in Jobs
    /\ next' = next + 1
    /\ queue' = [queue EXCEPT ![r] = <<next>> \o @]
    /\ outcome' = [outcome EXCEPT ![next] = "waiting"]
    /\ UNCHANGED <<now, rejected, head, rank, entries, attempted, edits, sealed>>

\* A handler, or a security event, asks for an entry: appendAuditLog chains it.
Request(r) ==
    /\ next \in Jobs
    /\ next' = next + 1
    /\ queue' = [queue EXCEPT ![r] = Append(@, next)]
    /\ outcome' = [outcome EXCEPT ![next] = "waiting"]
    /\ UNCHANGED <<now, rejected, head, rank, entries, attempted, edits, sealed>>

\* Mutant: settling an append forgets those chained after it.
Settle_ForgetsQueue(r, result) ==
    /\ queue' = [queue EXCEPT ![r] = <<>>]
    /\ outcome' = [outcome EXCEPT ![Head(queue[r])] = result]
    /\ head' = [head EXCEPT ![r] = Idle]

\* The append at the head of the queue settles.
Settle(r, result) ==
    /\ queue' = [queue EXCEPT ![r] = Tail(@)]
    /\ outcome' = [outcome EXCEPT ![Head(queue[r])] = result]
    /\ head' = [head EXCEPT ![r] = Idle]

Runs(r, stage) == queue[r] # <<>> /\ ~rejected[r] /\ head[r].stage = stage

\* Mutant: the process builds on the last entry it wrote itself.
ReadLast_OwnTail(r) ==
    /\ Runs(r, "idle")
    /\ attempted' = attempted \cup {Head(queue[r])}
    /\ head' = [head EXCEPT ![r].stage = "read",
                  ![r].previousHash = LastHash({e \in entries : e.rank = rank[r]})]
    /\ UNCHANGED <<now, next, queue, rejected, rank, entries, outcome, edits, sealed>>

\* The log as it stands, if its verification vouches for every entry of it.
Vouched ==
    IF Cardinality(entries) < Limit /\ verifyAuditLogIntegrity(entries)
    THEN entries ELSE {}

\* appendInternal: the last entry is read.
ReadLast(r) ==
    /\ Runs(r, "idle")
    /\ attempted' = attempted \cup {Head(queue[r])}
    /\ head' = [head EXCEPT ![r].stage = "read", ![r].previousHash = LastHash(entries)]
    /\ sealed' = [sealed EXCEPT ![Head(queue[r])] = Vouched]
    /\ UNCHANGED <<now, next, queue, rejected, rank, entries, outcome, edits>>

\* Mutant: timestamps are coarser than the time a process takes to restart.
Stamp_Coarse(r) ==
    /\ Runs(r, "read")
    /\ head' = [head EXCEPT ![r].stage = "stamped", ![r].eventTimestamp = now - (now % 2)]
    /\ UNCHANGED <<now, next, queue, rejected, rank, entries, attempted, outcome, edits, sealed>>

\* Its answer arrives: the timestamp and the hash are computed, the insert sent.
Stamp(r) ==
    /\ Runs(r, "read")
    /\ head' = [head EXCEPT ![r].stage = "stamped", ![r].eventTimestamp = now]
    /\ UNCHANGED <<now, next, queue, rejected, rank, entries, attempted, outcome, edits, sealed>>

\* Mutant: the timestamp is rounded up.
NewEntry_RoundedUp(r) ==
    [currentHash |-> Head(queue[r]), previousHash |-> head[r].previousHash,
     eventTimestamp |-> head[r].eventTimestamp + 1, rank |-> rank[r],
     count |-> Cardinality(attempted), intact |-> TRUE]

NewEntry(r) ==
    [currentHash |-> Head(queue[r]), previousHash |-> head[r].previousHash,
     eventTimestamp |-> head[r].eventTimestamp, rank |-> rank[r],
     count |-> Cardinality(attempted), intact |-> TRUE]

Insert(r) ==
    /\ Runs(r, "stamped")
    /\ entries' = entries \cup {NewEntry(r)}
    /\ \/ Settle(r, "done") /\ UNCHANGED rejected
       \/ Faults /\ Settle(r, "failed") /\ rejected' = [rejected EXCEPT ![r] = TRUE]
    /\ UNCHANGED <<now, next, rank, attempted, edits, sealed>>

\* The read or the insert is not applied: the promise is rejected.
AppendFails(r) ==
    /\ Faults
    /\ queue[r] # <<>> /\ ~rejected[r]
    /\ attempted' = attempted \cup {Head(queue[r])}
    /\ Settle(r, "failed")
    /\ rejected' = [rejected EXCEPT ![r] = TRUE]
    /\ UNCHANGED <<now, next, rank, entries, edits, sealed>>

\* then() of a rejected promise does not run: catch() logs and throws again.
SkipRejected(r) ==
    /\ queue[r] # <<>>
    /\ rejected[r]
    /\ Settle(r, "failed")
    /\ UNCHANGED <<now, next, rejected, rank, entries, attempted, edits, sealed>>

\* The process dies and a new one takes its place: the queue is gone, and the
\* new process starts its chain resolved, with identifiers of its own.  It takes
\* longer to start than the granularity of the clock.
Restart(r) ==
    /\ Faults
    /\ now < MaxTime
    /\ now' = now + 1
    /\ queue' = [queue EXCEPT ![r] = <<>>]
    /\ rejected' = [rejected EXCEPT ![r] = FALSE]
    /\ head' = [head EXCEPT ![r] = Idle]
    /\ \E k \in Ranks :
          /\ \A s \in Replicas \ {r} : rank[s] # k
          /\ rank' = [rank EXCEPT ![r] = k]
    /\ outcome' = [j \in Jobs |-> IF \E i \in DOMAIN queue[r] : queue[r][i] = j
                                  THEN "lost" ELSE outcome[j]]
    /\ UNCHANGED <<next, entries, attempted, edits, sealed>>

Tick ==
    /\ now < MaxTime
    /\ now' = now + 1
    /\ UNCHANGED <<next, queue, rejected, head, rank, entries, attempted, outcome, edits, sealed>>

\* What an alteration makes of an entry: its currentHash is left as it was, or
\* computed from the new content, over any previousHash.
Altered(e) ==
    {[e EXCEPT !.intact = FALSE]} \cup
    {[e EXCEPT !.currentHash = MaxJobs + edits + 1, !.previousHash = h] :
        h \in Hashes}

\* Someone with access to the database removes an entry or alters it.
Edit ==
    /\ edits < MaxEdits
    /\ edits' = edits + 1
    /\ \E e \in entries :
          /\ e.intact
          /\ \/ entries' = entries \ {e}
             \/ \E x \in Altered(e) : entries' = (entries \ {e}) \cup {x}
    /\ UNCHANGED <<now, next, queue, rejected, head, rank, attempted, outcome, sealed>>

\* What a process does on its own.
Run(r) == ReadLast(r) \/ Stamp(r) \/ Insert(r) \/ AppendFails(r) \/ SkipRejected(r)

\* Every append within the bound was requested and settled: the server waits.
Quiescent ==
    /\ next > MaxJobs
    /\ \A r \in Replicas : queue[r] = <<>>
    /\ UNCHANGED vars

Next ==
    \/ \E r \in Replicas : Request(r) \/ Run(r) \/ Restart(r)
    \/ Tick
    \/ Edit
    \/ Quiescent

Spec == Init /\ [][Next]_vars

\* A promise whose predecessor has settled runs, and the driver settles every
\* operation, by an answer or by a timeout.
FairSpec == Spec /\ \A r \in Replicas : WF_vars(Run(r))
=============================================================================

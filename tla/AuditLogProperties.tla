------------------------- MODULE AuditLogProperties -------------------------
(***************************************************************************)
(* What the audit log promises.                                            *)
(***************************************************************************)
EXTENDS AuditLog

\* Every variable holds what the code can put in it.
AuditTypeOK ==
    /\ now \in 0..MaxTime
    /\ next \in 1..(MaxJobs + 1)
    /\ queue \in [Replicas -> Seq(Jobs)]
    /\ rejected \in [Replicas -> BOOLEAN]
    /\ head \in [Replicas -> Running]
    /\ rank \in [Replicas -> Ranks]
    /\ entries \subseteq Entry
    /\ attempted \subseteq Jobs
    /\ outcome \in [Jobs -> Outcome]
    /\ edits \in 0..MaxEdits
    /\ sealed \in [Jobs -> SUBSET Entry]

\* A log nobody altered verifies, whatever fails in the process that writes it
\* and whenever it restarts: the sort by timestamp gives back the order in which
\* the entries were chained (auditLogService.js:51-99, 118-168).
UntouchedLogVerifies == edits = 0 => verifyAuditLogIntegrity(entries)

\* Two entries of a log nobody altered never name the same predecessor: the queue
\* keeps the read of the last entry and the insertion together, also over failures
\* and restarts (auditLogService.js:88-99).
ChainNeverForks ==
    edits = 0 => \A a, b \in entries : a.previousHash = b.previousHash => a = b

\* Entries stand in the order their appends were requested in, so that the log
\* tells the history of a process in the right order (auditLogService.js:88-90).
RequestOrderKept ==
    edits = 0 => \A a, b \in entries : Before(a, b) => a.currentHash < b.currentHash

\* An entry seals the log it was built on, if that log was sound: whatever is removed
\* or altered in it later, with all the hashes recomputed or not, before the entry is
\* inserted or after, shows in the verification, unless the entry itself is altered
\* too or stands beyond the limit (auditLogService.js:51-86, 116-168; SECURITY.md:118-128).
PastIsSealed ==
    verifyAuditLogIntegrity(entries) =>
        \A e \in entries :
            e.currentHash \in Jobs /\ Cardinality(Earlier(e, entries)) < Limit =>
                sealed[e.currentHash] \subseteq entries

\* An append whose caller was told it failed is one the database was asked for:
\* an earlier failure does not keep later actions out of the log
\* (auditLogService.js:88-99).
FailuresAreTheirOwn == \A j \in Jobs : outcome[j] = "failed" => j \in attempted

\* No append waits for ever behind another, whatever fails: it is recorded, or
\* its caller is told that it was not, or its process dies (auditLogService.js:88-99).
EveryAppendSettles ==
    \A j \in Jobs : outcome[j] = "waiting" ~>
        \/ outcome[j] \in {"failed", "lost"}
        \/ outcome[j] = "done" /\ \E e \in entries : e.currentHash = j

=============================================================================

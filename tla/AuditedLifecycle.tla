-------------------------- MODULE AuditedLifecycle --------------------------
(***************************************************************************)
(* The management of elections and the audit log as one process runs them: *)
(* the two components of src/services/electionService.js and of            *)
(* src/services/auditLogService.js over one clock.                         *)
(*                                                                         *)
(* A handler that has saved its election chains an entry on the appendQueue*)
(* of the process and waits for its promise, behind the entries of other   *)
(* requests.  What the log says of elections, the variable trail of        *)
(* ElectionLifecycle, is here the content of the entries it stores.  The   *)
(* process may die: then every request it serves ends unanswered, with     *)
(* whatever it had written so far.  Security events append to the same     *)
(* queue and nobody awaits them: here the entries of one manager are what  *)
(* those of another may have to wait for.                                  *)
(***************************************************************************)
EXTENDS ElectionProperties, Sequences

CONSTANTS
    Server,   \* the process
    Ranks,    \* where the identifiers of its entries sort
    MaxJobs   \* bound on the entries requested

VARIABLES
    next, queue, rejected, head, rank, entries, attempted, outcome, sealed, \* see AuditLog
    contents, \* what each entry requested says, in the order of the requests
    awaits    \* the entry whose promise a handler awaits, or 0

\* Nobody alters this log.
Log == INSTANCE AuditLog WITH Replicas <- {Server}, Limit <- MaxJobs,
                              MaxEdits <- 0, edits <- 0

ASSUME ServerAssumption == Ranks # {} /\ Ranks \subseteq Int /\ MaxJobs \in Nat

logVars == <<next, queue, rejected, head, rank, entries, attempted, outcome, sealed>>
auditedVars == <<lifecycleVars, logVars, contents, awaits>>

AuditedInit ==
    /\ Init
    /\ Log!Init
    /\ contents = <<>>
    /\ awaits = [m \in Managers |-> 0]

\* Bound: a request is submitted only if its entry would be among MaxJobs.
RoomInLog ==
    next + Cardinality({m \in Managers : req[m].phase # "idle" /\ awaits[m] = 0})
        \in Log!Jobs

\* What the steps of a handler before its audit entry leave alone.
Unaudited == UNCHANGED <<logVars, contents, awaits>>

SubmitRequest(m) == RoomInLog /\ Submit(m) /\ Unaudited

Handle(m) ==
    /\ FindElection(m) \/ Decide(m) \/ Save(m)
    /\ Unaudited

\* The save has returned: appendAuditLog chains the entry and the handler waits.
RequestEntry(m) ==
    /\ req[m].phase = "audit" /\ awaits[m] = 0
    /\ Log!Request(Server)
    /\ contents' = Append(contents, AuditEntry(m))
    /\ awaits' = [awaits EXCEPT ![m] = next]
    /\ UNCHANGED <<docs, req, moves, trail>>

\* What stored entries say of elections.
Said(S) == {contents[e.currentHash] : e \in S}

\* The process works on its queue.
RunQueue ==
    /\ Log!Run(Server)
    /\ trail' = Said(entries')
    /\ UNCHANGED <<docs, req, moves, contents, awaits>>

\* Mutant: a failed append is logged, and the client is answered all the same.
EntrySettled_Swallowed(m) ==
    /\ awaits[m] # 0
    /\ outcome[awaits[m]] \in {"done", "failed"}
    /\ Answer(m, "ok")
    /\ awaits' = [awaits EXCEPT ![m] = 0]
    /\ UNCHANGED <<now, docs, moves, trail, logVars, contents>>

\* The promise of the entry settles, and the handler answers.
EntrySettled(m) ==
    /\ awaits[m] # 0
    /\ \/ outcome[awaits[m]] = "done" /\ Answer(m, "ok")
       \/ outcome[awaits[m]] = "failed" /\ Answer(m, "error")
    /\ awaits' = [awaits EXCEPT ![m] = 0]
    /\ UNCHANGED <<now, docs, moves, trail, logVars, contents>>

\* The process dies with its queue and its handlers; another one takes its place.
RestartServer ==
    /\ Log!Restart(Server)
    /\ req' = [m \in Managers |->
                  IF req[m].phase = "idle" THEN req[m]
                  ELSE [req[m] EXCEPT !.phase = "idle", !.snap = NoDoc, !.reply = "none"]]
    /\ awaits' = [m \in Managers |-> 0]
    /\ UNCHANGED <<docs, moves, trail, contents>>

Pass == Tick /\ UNCHANGED <<logVars, contents, awaits>>

\* Every entry within the bound was requested and none is queued.
Finished ==
    /\ next > MaxJobs
    /\ queue[Server] = <<>>
    /\ UNCHANGED auditedVars

AuditedNext ==
    \/ \E m \in Managers : \/ SubmitRequest(m) \/ Handle(m)
                           \/ RequestEntry(m) \/ EntrySettled(m)
    \/ RunQueue
    \/ RestartServer
    \/ Pass
    \/ Finished

AuditedSpec == AuditedInit /\ [][AuditedNext]_auditedVars

\* The event loop runs what can run, and the driver settles every operation: a
\* handler whose await has settled goes on, and so does the queue.
AuditedFairSpec ==
    /\ AuditedSpec
    /\ WF_auditedVars(RunQueue)
    /\ \A m \in Managers :
          WF_auditedVars(Handle(m) \/ RequestEntry(m) \/ EntrySettled(m))

-----------------------------------------------------------------------------

\* A manager who is answered that a change was made finds it in the log, whatever
\* the appends chained before it and the process go through: auditElectionAction
\* is awaited and throws (electionService.js:33-46, auditLogService.js:88-99).  The
\* answer of a repeated request, "unchanged", promises no such thing.
AckedMoveAudited ==
    \A m \in Managers : req[m].reply = "ok" =>
        \E t \in trail :
            /\ t[1] = req[m].election
            /\ CASE req[m].kind = "create" -> t[2] = "absent"
                 [] req[m].kind = "update" -> t[2] = "updated"
                 [] OTHER -> t[3] = req[m].change.status

\* Every entry of the log about a status names one the election has really had:
\* whoever raced, and whatever failed or died, no entry is stored for a change that
\* was not (electionService.js:172, 216, 243: the save is awaited first).
LoggedStatusReached ==
    \A t \in trail : t[2] # "updated" =>
        \E u \in moves : u[1] = t[1] /\ u[3] = t[3]

\* Every request ends, although handlers wait for appends of other requests in one
\* chain of promises: a rejected chain rejects those behind it, and a process that
\* dies takes its handlers along (auditLogService.js:88-99).
EveryRequestEnds ==
    \A m \in Managers : req[m].phase # "idle" ~> req[m].phase = "idle"
=============================================================================

---------------------------- MODULE AuditedProofs ----------------------------
(***************************************************************************)
(* What the audit log of a process says of elections, for any managers,    *)
(* bodies and bounds, whatever fails and whenever the process dies.        *)
(***************************************************************************)
EXTENDS AuditedLifecycle, ElectionProofs

Said3 == Elections \X (Status \cup {"absent", "updated"}) \X Status

\* The log's side: entries are named by requests, a promise that was kept has its
\* entry, and the trail is what the entries say.
QueueInv ==
    /\ contents \in Seq(Said3)
    /\ next = Len(contents) + 1
    /\ queue \in [{Server} -> Seq(DOMAIN contents)]
    /\ \A e \in entries : e.currentHash \in DOMAIN contents
    /\ outcome \in [Log!Jobs -> Log!Outcome]
    /\ \A j \in Log!Jobs : outcome[j] = "done" => \E e \in entries : e.currentHash = j
    /\ trail = Said(entries)

\* A handler that awaits a promise has asked for its own entry.
Awaits(m) ==
    /\ awaits[m] \in Log!Jobs \cap DOMAIN contents
    /\ req[m].phase = "audit"
    /\ contents[awaits[m]] = AuditEntry(m)

AwaitInv ==
    /\ awaits \in [Managers -> Nat]
    /\ \A m \in Managers : awaits[m] # 0 => Awaits(m)
    /\ \A m \in Managers : req[m].phase # "idle" => req[m].reply = "none"

AckedInv == LifecycleInv /\ QueueInv /\ AwaitInv /\ AckedMoveAudited

-----------------------------------------------------------------------------
(* The steps of handlers.                                                   *)

\* The step of a handler that writes nothing to the log.
HandlerStep(m) ==
    \/ Submit(m) \/ FindElection(m) \/ Decide(m)
    \/ InsertElection(m) \/ SaveElection(m) \/ SaveConflict(m) \/ SaveFails(m)

\* A handler changes the request of its own manager, before the audit, and
\* acknowledges nothing.
LEMMA HandlerShape ==
    ASSUME LifecycleInv, AwaitInv, NEW m \in Managers, HandlerStep(m)
    PROVE  /\ \A x \in Managers \ {m} : req'[x] = req[x]
           /\ req[m].phase # "audit"
           /\ req'[m].reply # "ok"
           /\ req'[m].phase # "idle" => req'[m].reply = "none"
           /\ trail' = trail
<1>1. req \in [Managers -> Request]
  BY DEF LifecycleInv, LifecycleTypeOK
<1>2. ASSUME NEW reply \in {"unchanged", "refused", "conflict", "error"}, Answer(m, reply)
      PROVE  /\ \A x \in Managers \ {m} : req'[x] = req[x]
             /\ req'[m].phase = "idle" /\ req'[m].reply # "ok"
  BY <1>1, <1>2 DEF Answer, Request
<1>3. ASSUME NEW phase \in Phase, Advance(m, phase)
      PROVE  /\ \A x \in Managers \ {m} : req'[x] = req[x]
             /\ req'[m].reply = req[m].reply
  BY <1>1, <1>3 DEF Advance, Request
<1>4. req[m].phase # "idle" => req[m].reply = "none"
  BY DEF AwaitInv
<1>5. CASE Submit(m)
  BY <1>1, <1>5 DEF Submit, BeginCreate, BeginUpdate, BeginStatus, BeginArchive, Begin
<1>6. CASE FindElection(m)
  BY <1>1, <1>2, <1>4, <1>6 DEF FindElection, Request
<1>7. CASE Decide(m)
  BY <1>1, <1>2, <1>3, <1>4, <1>7 DEF Decide, Phase
<1>8. CASE InsertElection(m)
  BY <1>1, <1>2, <1>4, <1>8 DEF InsertElection, Request
<1>9. CASE SaveElection(m)
  BY <1>1, <1>2, <1>3, <1>4, <1>9 DEF SaveElection, AfterWrite, Phase
<1>10. CASE SaveConflict(m) \/ SaveFails(m)
  BY <1>1, <1>2, <1>4, <1>10 DEF SaveConflict, SaveFails
<1> QED BY <1>5, <1>6, <1>7, <1>8, <1>9, <1>10 DEF HandlerStep

\* So it keeps the invariant.
LEMMA HandlerKeepsAcked ==
    ASSUME AckedInv, NEW m \in Managers, HandlerStep(m), Unaudited
    PROVE  AckedInv'
<1> USE DEF AckedInv
<1>1. LifecycleInv'
  BY SubmitKeepsInv, FindKeepsInv, DecideKeepsInv, InsertKeepsInv, SaveKeepsInv,
     EndKeepsInv DEF HandlerStep
<1>2. /\ \A x \in Managers \ {m} : req'[x] = req[x]
      /\ req[m].phase # "audit"
      /\ req'[m].reply # "ok"
      /\ req'[m].phase # "idle" => req'[m].reply = "none"
      /\ trail' = trail
  BY HandlerShape
<1>3. QueueInv'
  BY <1>2 DEF QueueInv, Unaudited, logVars, Said
<1>4. awaits[m] = 0
  BY <1>2 DEF AwaitInv, Awaits
<1>5. \A x \in Managers \ {m} : AuditEntry(x)' = AuditEntry(x)
  BY <1>2 DEF AuditEntry
<1>6. AwaitInv'
  BY <1>2, <1>4, <1>5 DEF AwaitInv, Awaits, Unaudited
<1>7. AckedMoveAudited'
  BY <1>2 DEF AckedMoveAudited
<1> QED BY <1>1, <1>3, <1>6, <1>7

-----------------------------------------------------------------------------
(* The steps of the log.                                                    *)

\* The request of an entry: it stands behind all others, and says what its
\* handler awaits.
LEMMA RequestKeepsAcked ==
    ASSUME AckedInv, NEW m \in Managers, RequestEntry(m)
    PROVE  AckedInv'
<1> USE DEF AckedInv
<1> DEFINE entry == AuditEntry(m)
<1>1. /\ req[m].phase = "audit" /\ next \in Log!Jobs
      /\ contents' = Append(contents, entry)
      /\ next' = next + 1
      /\ queue' = [queue EXCEPT ![Server] = Append(@, next)]
      /\ outcome' = [outcome EXCEPT ![next] = "waiting"]
      /\ UNCHANGED <<now, docs, req, moves, trail, entries>>
      /\ awaits' = [awaits EXCEPT ![m] = next]
  BY DEF RequestEntry, Log!Request
<1>2. LifecycleInv'
  BY <1>1 DEF LifecycleInv, LifecycleTypeOK
<1>3. entry \in Said3
  BY <1>1, AuditEntryType DEF Said3
<1>4. /\ contents \in Seq(Said3) /\ next = Len(contents) + 1 /\ next \in Nat
      /\ queue[Server] \in Seq(DOMAIN contents)
  BY DEF QueueInv
<1> HIDE DEF entry
<1>5. /\ contents' \in Seq(Said3)
      /\ DOMAIN contents' = DOMAIN contents \cup {next}
      /\ \A j \in DOMAIN contents : contents'[j] = contents[j]
      /\ contents'[next] = entry
      /\ Len(contents') = next
  BY <1>1, <1>3, <1>4
<1>6. queue[Server] \in Seq(DOMAIN contents')
  BY <1>4, <1>5
<1>7. queue' \in [{Server} -> Seq(DOMAIN contents')]
  BY <1>1, <1>4, <1>5, <1>6 DEF QueueInv
<1>8. /\ outcome' \in [Log!Jobs -> Log!Outcome]
      /\ \A j \in Log!Jobs : outcome'[j] = "done" => \E e \in entries' : e.currentHash = j
  BY <1>1 DEF QueueInv, Log!Outcome
<1>9. \A e \in entries : contents'[e.currentHash] = contents[e.currentHash]
  BY <1>5 DEF QueueInv
<1>10. trail' = Said(entries)'
  <2>1. {contents'[e.currentHash] : e \in entries} = {contents[e.currentHash] : e \in entries}
    BY <1>9
  <2> QED BY <1>1, <2>1 DEF QueueInv, Said
<1>11. QueueInv'
  BY <1>1, <1>4, <1>5, <1>7, <1>8, <1>10 DEF QueueInv
<1>12. AuditEntry(m)' = entry /\ \A x \in Managers : AuditEntry(x)' = AuditEntry(x)
  BY <1>1 DEF AuditEntry, entry
<1>13. Awaits(m)'
  BY <1>1, <1>4, <1>5, <1>12 DEF Awaits, AwaitInv
<1>14. ASSUME NEW x \in Managers, x # m, awaits'[x] # 0
       PROVE  Awaits(x)'
  <2>1. awaits'[x] = awaits[x] /\ Awaits(x)
    BY <1>1, <1>14 DEF AwaitInv
  <2> QED BY <1>1, <1>5, <1>12, <2>1 DEF Awaits
<1>15. AwaitInv'
  BY <1>1, <1>4, <1>13, <1>14 DEF AwaitInv
<1>16. AckedMoveAudited'
  BY <1>1 DEF AckedMoveAudited
<1> QED BY <1>2, <1>11, <1>15, <1>16

\* What a step of the queue does to entries and outcomes: it settles the head at
\* most, as done only with its entry, and removes no entry.
LEMMA RunShape ==
    ASSUME QueueInv, Log!Run(Server)
    PROVE  /\ entries \subseteq entries'
           /\ \A e \in entries' : e.currentHash \in DOMAIN contents
           /\ queue' \in [{Server} -> Seq(DOMAIN contents)]
           /\ outcome' \in [Log!Jobs -> Log!Outcome]
           /\ \A j \in Log!Jobs :
                 outcome'[j] = "done" => \E e \in entries' : e.currentHash = j
           /\ UNCHANGED <<now, next>>
<1>1. /\ queue \in [{Server} -> Seq(DOMAIN contents)]
      /\ outcome \in [Log!Jobs -> Log!Outcome]
      /\ \A e \in entries : e.currentHash \in DOMAIN contents
      /\ \A j \in Log!Jobs : outcome[j] = "done" => \E e \in entries : e.currentHash = j
  BY DEF QueueInv
<1> DEFINE h == Head(queue[Server])
<1>2. queue[Server] # <<>> => /\ h \in DOMAIN contents
                              /\ Tail(queue[Server]) \in Seq(DOMAIN contents)
  BY <1>1
<1>3. ASSUME NEW result \in {"done", "failed"}, Log!Settle(Server, result), queue[Server] # <<>>
      PROVE  /\ queue' \in [{Server} -> Seq(DOMAIN contents)]
             /\ outcome' \in [Log!Jobs -> Log!Outcome]
             /\ \A j \in Log!Jobs : outcome'[j] = IF j = h THEN result ELSE outcome[j]
  BY <1>1, <1>2, <1>3 DEF Log!Settle, Log!Outcome
<1>4. CASE Log!ReadLast(Server) \/ Log!Stamp(Server)
  BY <1>1, <1>4 DEF Log!ReadLast, Log!Stamp
<1>5. CASE Log!Insert(Server)
  <2>1. /\ queue[Server] # <<>>
        /\ \E result \in {"done", "failed"} : Log!Settle(Server, result)
        /\ UNCHANGED <<now, next>>
    BY <1>5 DEF Log!Insert, Log!Runs
  <2>2. entries' = entries \cup {Log!NewEntry(Server)} /\ Log!NewEntry(Server).currentHash = h
    BY <1>5 DEF Log!Insert, Log!NewEntry
  <2> HIDE DEF h
  <2>3. \A j \in Log!Jobs : outcome'[j] = "done" => j = h \/ outcome[j] = "done"
    BY <1>3, <2>1
  <2>4. /\ queue' \in [{Server} -> Seq(DOMAIN contents)]
        /\ outcome' \in [Log!Jobs -> Log!Outcome]
    BY <1>3, <2>1
  <2> QED BY <1>1, <1>2, <2>1, <2>2, <2>3, <2>4
<1>6. CASE Log!AppendFails(Server) \/ Log!SkipRejected(Server)
  <2>1. /\ queue[Server] # <<>> /\ Log!Settle(Server, "failed")
        /\ UNCHANGED <<now, next, entries>>
    BY <1>6 DEF Log!AppendFails, Log!SkipRejected
  <2> HIDE DEF h
  <2>2. \A j \in Log!Jobs : outcome'[j] = "done" => outcome[j] = "done"
    BY <1>3, <2>1
  <2> QED BY <1>1, <1>3, <2>1, <2>2
<1> QED BY <1>4, <1>5, <1>6 DEF Log!Run

\* The queue takes nothing off the trail.
LEMMA RunKeepsAcked ==
    ASSUME AckedInv, RunQueue
    PROVE  AckedInv'
<1> USE DEF AckedInv
<1>1. /\ Log!Run(Server) /\ trail' = Said(entries)'
      /\ UNCHANGED <<docs, req, moves, contents, awaits>>
  BY DEF RunQueue, Said
<1>2. /\ entries \subseteq entries'
      /\ \A e \in entries' : e.currentHash \in DOMAIN contents
      /\ queue' \in [{Server} -> Seq(DOMAIN contents)]
      /\ outcome' \in [Log!Jobs -> Log!Outcome]
      /\ \A j \in Log!Jobs :
            outcome'[j] = "done" => \E e \in entries' : e.currentHash = j
      /\ UNCHANGED <<now, next>>
  BY <1>1, RunShape
<1>3. QueueInv'
  BY <1>1, <1>2 DEF QueueInv
<1>4. trail \subseteq trail' /\ trail' \subseteq Said3
  BY <1>1, <1>2 DEF QueueInv, Said
<1>5. LifecycleInv'
  BY <1>1, <1>2, <1>4 DEF LifecycleInv, LifecycleTypeOK, Said3
<1>6. AwaitInv'
  BY <1>1 DEF AwaitInv, Awaits, AuditEntry
<1>7. AckedMoveAudited'
  BY <1>1, <1>4 DEF AckedMoveAudited
<1> QED BY <1>3, <1>5, <1>6, <1>7

\* The answer to a manager: 200 and 201 only with the entry in the log.
LEMMA SettledKeepsAcked ==
    ASSUME AckedInv, NEW m \in Managers, EntrySettled(m)
    PROVE  AckedInv'
<1> USE DEF AckedInv
<1>1. /\ awaits[m] # 0
      /\ \/ outcome[awaits[m]] = "done" /\ Answer(m, "ok")
         \/ Answer(m, "error")
      /\ awaits' = [awaits EXCEPT ![m] = 0]
      /\ UNCHANGED <<now, docs, moves, trail, logVars, contents>>
  BY DEF EntrySettled
<1>2. req \in [Managers -> Request] /\ docs \in [Elections -> Doc]
  BY DEF LifecycleInv, LifecycleTypeOK
<1>3. LifecycleInv'
  <2>1. PICK reply \in Reply : Answer(m, reply)
    BY <1>1 DEF Reply
  <2> QED BY <1>1, <1>2, <2>1, AnswerKeepsRequests DEF LifecycleInv, LifecycleTypeOK
<1>4. QueueInv'
  BY <1>1 DEF QueueInv, logVars, Said
<1>5. /\ \A x \in Managers \ {m} : req'[x] = req[x]
      /\ req'[m].phase = "idle"
      /\ req'[m].kind = req[m].kind
      /\ req'[m].election = req[m].election
      /\ req'[m].change = req[m].change
      /\ req'[m].reply = "ok" => outcome[awaits[m]] = "done"
  BY <1>1, <1>2 DEF Answer, Request
<1>6. awaits' \in [Managers -> Nat] /\ awaits'[m] = 0
      /\ \A x \in Managers \ {m} : awaits'[x] = awaits[x]
  BY <1>1 DEF AwaitInv
<1>7. \A x \in Managers \ {m} : AuditEntry(x)' = AuditEntry(x)
  BY <1>5 DEF AuditEntry
<1>8. AwaitInv'
  BY <1>1, <1>5, <1>6, <1>7 DEF AwaitInv, Awaits
<1>9. outcome[awaits[m]] = "done" => AuditEntry(m) \in trail
  <2> SUFFICES ASSUME outcome[awaits[m]] = "done" PROVE AuditEntry(m) \in trail
    OBVIOUS
  <2>1. awaits[m] \in Log!Jobs /\ contents[awaits[m]] = AuditEntry(m)
    BY <1>1 DEF AwaitInv, Awaits
  <2>2. PICK e \in entries : e.currentHash = awaits[m]
    BY <2>1 DEF QueueInv
  <2>3. contents[e.currentHash] \in trail
    BY DEF QueueInv, Said
  <2> QED BY <2>1, <2>2, <2>3
<1>10. /\ AuditEntry(m)[1] = req[m].election
       /\ req[m].kind = "create" => AuditEntry(m)[2] = "absent"
       /\ req[m].kind = "update" => AuditEntry(m)[2] = "updated"
       /\ req[m].kind \notin {"create", "update"} => AuditEntry(m)[3] = req[m].change.status
  BY DEF AuditEntry
<1>11. ASSUME req'[m].reply = "ok"
       PROVE  \E t \in trail' :
                 /\ t[1] = req'[m].election
                 /\ CASE req'[m].kind = "create" -> t[2] = "absent"
                      [] req'[m].kind = "update" -> t[2] = "updated"
                      [] OTHER -> t[3] = req'[m].change.status
  BY <1>1, <1>5, <1>9, <1>10, <1>11
<1>12. AckedMoveAudited'
  BY <1>1, <1>5, <1>11 DEF AckedMoveAudited
<1> QED BY <1>3, <1>4, <1>8, <1>12

\* A restart drops handlers and their promises; what is stored stays.
LEMMA RestartKeepsAcked ==
    ASSUME AckedInv, RestartServer
    PROVE  AckedInv'
<1> USE DEF AckedInv
<1> DEFINE Dropped(m) == IF req[m].phase = "idle" THEN req[m]
                         ELSE [req[m] EXCEPT !.phase = "idle", !.snap = NoDoc,
                                             !.reply = "none"]
<1>1. /\ Log!Restart(Server)
      /\ req' = [m \in Managers |-> Dropped(m)]
      /\ awaits' = [m \in Managers |-> 0]
      /\ UNCHANGED <<docs, moves, trail, contents>>
  BY DEF RestartServer
<1>2. /\ now < MaxTime /\ now' = now + 1
      /\ queue' = [queue EXCEPT ![Server] = <<>>]
      /\ outcome' = [j \in Log!Jobs |-> IF \E i \in DOMAIN queue[Server] : queue[Server][i] = j
                                        THEN "lost" ELSE outcome[j]]
      /\ UNCHANGED <<next, entries>>
  BY <1>1 DEF Log!Restart
<1>3. \A m \in Managers : req[m] \in Request /\ RequestOK(req[m], docs)
  BY DEF LifecycleInv, LifecycleTypeOK
<1>4. \A m \in Managers : Dropped(m) \in Request /\ RequestOK(Dropped(m), docs)
  <2> SUFFICES ASSUME NEW m \in Managers
               PROVE  Dropped(m) \in Request /\ RequestOK(Dropped(m), docs)
    OBVIOUS
  <2>1. CASE req[m].phase = "idle"
    BY <1>3, <2>1
  <2>2. CASE req[m].phase # "idle"
    <3>1. Dropped(m) \in Request
      BY <1>3, <2>2, NoDocType DEF Request, Phase, Reply
    <3>2. /\ Dropped(m).phase = "idle" /\ Dropped(m).kind = req[m].kind
          /\ Dropped(m).change = req[m].change
      BY <1>3, <2>2 DEF Request
    <3>3. RequestOK(Dropped(m), docs)
      BY <1>3, <3>2 DEF RequestOK
    <3> QED BY <3>1, <3>3
  <2> QED BY <2>1, <2>2
<1>5. now' \in Time
  BY <1>2, BoundsAssumption DEF Time, LifecycleInv, LifecycleTypeOK
<1>6. LifecycleInv'
  BY <1>1, <1>4, <1>5 DEF LifecycleInv, LifecycleTypeOK
<1>7. /\ outcome' \in [Log!Jobs -> Log!Outcome]
      /\ \A j \in Log!Jobs : outcome'[j] = "done" => outcome[j] = "done"
  BY <1>2 DEF QueueInv, Log!Outcome
<1>8. QueueInv'
  <2>1. <<>> \in Seq(DOMAIN contents)
    OBVIOUS
  <2>2. queue' \in [{Server} -> Seq(DOMAIN contents)]
    BY <1>2, <2>1 DEF QueueInv
  <2>3. Said(entries)' = Said(entries)
    BY <1>1, <1>2 DEF Said
  <2> QED BY <1>1, <1>2, <1>7, <2>2, <2>3 DEF QueueInv
<1>9. \A m \in Managers : Dropped(m).phase = "idle"
                          /\ (Dropped(m).reply = "ok" => Dropped(m) = req[m])
  BY <1>3 DEF Request
<1>10. AwaitInv'
  BY <1>1, <1>9 DEF AwaitInv
<1>11. \A m \in Managers : req'[m] = Dropped(m)
  BY <1>1
<1> HIDE DEF Dropped
<1>12. \A m \in Managers : req'[m].reply = "ok" => req'[m] = req[m]
  BY <1>9, <1>11
<1>13. AckedMoveAudited'
  BY <1>1, <1>12 DEF AckedMoveAudited
<1> QED BY <1>6, <1>8, <1>10, <1>13

-----------------------------------------------------------------------------

\* Nothing was asked for yet.
LEMMA InitAcked == AuditedInit => AckedInv
<1> SUFFICES ASSUME AuditedInit PROVE AckedInv
  OBVIOUS
<1>1. LifecycleInv
  BY InitLifecycleInv DEF AuditedInit
<1>2. QueueInv
  <2>1. /\ contents = <<>> /\ next = 1 /\ entries = {} /\ trail = {}
        /\ queue = [r \in {Server} |-> <<>>]
        /\ outcome = [j \in Log!Jobs |-> "none"]
    BY DEF AuditedInit, Log!Init, Init
  <2>2. contents \in Seq(Said3) /\ Len(contents) = 0 /\ <<>> \in Seq(DOMAIN contents)
    BY <2>1
  <2>3. outcome \in [Log!Jobs -> Log!Outcome] /\ \A j \in Log!Jobs : outcome[j] # "done"
    BY <2>1 DEF Log!Outcome
  <2>4. queue \in [{Server} -> Seq(DOMAIN contents)]
    BY <2>1, <2>2
  <2>5. Said(entries) = {}
    BY <2>1 DEF Said
  <2> QED BY <2>1, <2>2, <2>3, <2>4, <2>5 DEF QueueInv
<1>3. AwaitInv /\ AckedMoveAudited
  BY DEF AuditedInit, Init, AwaitInv, AckedMoveAudited, NoRequest
<1> QED BY <1>1, <1>2, <1>3 DEF AckedInv

\* The invariant is inductive.
LEMMA StepKeepsAcked == AckedInv /\ [AuditedNext]_auditedVars => AckedInv'
<1> SUFFICES ASSUME AckedInv, [AuditedNext]_auditedVars PROVE AckedInv'
  OBVIOUS
<1>1. ASSUME NEW m \in Managers, SubmitRequest(m) \/ Handle(m)
      PROVE  AckedInv'
  BY <1>1, HandlerKeepsAcked DEF SubmitRequest, Handle, Save, HandlerStep
<1>2. CASE Pass
  <2>1. now' \in Time
    BY <1>2, BoundsAssumption DEF Pass, Tick, Time, AckedInv, LifecycleInv, LifecycleTypeOK
  <2>2. UNCHANGED <<docs, req, moves, trail, logVars, contents, awaits>>
    BY <1>2 DEF Pass, Tick
  <2>3. LifecycleInv'
    BY <2>1, <2>2 DEF AckedInv, LifecycleInv, LifecycleTypeOK
  <2> QED BY <2>2, <2>3 DEF AckedInv, QueueInv, AwaitInv, Awaits, AuditEntry, Said,
       logVars, AckedMoveAudited
<1>3. CASE UNCHANGED auditedVars
  BY <1>3 DEF auditedVars, lifecycleVars, logVars, AckedInv, LifecycleInv,
     LifecycleTypeOK, QueueInv, AwaitInv, Awaits, AuditEntry, Said, AckedMoveAudited
<1> QED
  BY <1>1, <1>2, <1>3, RequestKeepsAcked, SettledKeepsAcked, RunKeepsAcked,
     RestartKeepsAcked DEF AuditedNext, Finished

\* A manager is answered 200 or 201 for a change only when its entry is stored,
\* whatever appends fail, queue before it or are lost with the process, for any
\* number of managers and entries (electionService.js:33-46).
THEOREM AckedIsAudited == AuditedSpec => []AckedMoveAudited
<1>1. AckedInv => AckedMoveAudited
  BY DEF AckedInv
<1> QED BY <1>1, InitAcked, StepKeepsAcked, PTL DEF AuditedSpec

-----------------------------------------------------------------------------
(* LoggedStatusReached.                                                     *)

\* Of the moves S, one gave election e the status s.
Reached(S, e, s) == \E u \in S : u[1] = e /\ u[3] = s

\* A request that is about to move the status of a document.
Moves(r) == r.phase = "save" /\ r.kind \in {"status", "archive"}

\* What is stored was reached; what a handler has saved, or has asked the log to
\* say, was stored.
ReachInv ==
    /\ \A e \in Elections : Exists(e) => Reached(moves, e, docs[e].status)
    /\ \A m \in Managers : Moves(req[m]) => req[m].change.status # req[m].snap.status
    /\ \A m \in Managers : req[m].phase = "audit" /\ req[m].kind # "update" =>
            Reached(moves, req[m].election, AuditEntry(m)[3])
    /\ \A j \in DOMAIN contents : contents[j][2] # "updated" =>
            Reached(moves, contents[j][1], contents[j][3])

\* The part of it that a handler's own request can disturb.
LEMMA ReachKept ==
    ASSUME ReachInv, LifecycleInv, NEW m \in Managers, moves \subseteq moves',
           contents' = contents, \A x \in Managers \ {m} : req'[x] = req[x],
           \A e \in Elections : Exists(e)' =>
               docs'[e] = docs[e] \/ Reached(moves', e, docs'[e].status),
           Moves(req'[m]) => req'[m].change.status # req'[m].snap.status,
           req'[m].phase = "audit" /\ req'[m].kind # "update" =>
               Reached(moves', req'[m].election, AuditEntry(m)'[3])
    PROVE  ReachInv'
<1>1. ASSUME NEW e, NEW s, Reached(moves, e, s)
      PROVE  Reached(moves', e, s)
  BY <1>1 DEF Reached
<1>2. ASSUME NEW e \in Elections, Exists(e)'
      PROVE  Reached(moves', e, docs'[e].status)
  <2>1. CASE docs'[e] = docs[e]
    <3>1. Reached(moves, e, docs[e].status)
      BY <1>2, <2>1 DEF ReachInv, Exists
    <3>2. Reached(moves', e, docs'[e].status)
      BY <2>1, <3>1 DEF Reached
    <3> QED BY <3>2 DEF Reached
  <2> QED BY <1>2, <2>1
<1>3. ASSUME NEW x \in Managers
      PROVE  Moves(req'[x]) => req'[x].change.status # req'[x].snap.status
  BY DEF ReachInv
<1>4. ASSUME NEW x \in Managers, x # m, req'[x].phase = "audit", req'[x].kind # "update"
      PROVE  \E u \in moves' : u[1] = req'[x].election /\ u[3] = AuditEntry(x)'[3]
  <2>1. req'[x] = req[x] /\ AuditEntry(x)' = AuditEntry(x)
    BY <1>4 DEF AuditEntry
  <2> QED BY <1>4, <2>1 DEF ReachInv, Reached
<1>5. ASSUME NEW j \in DOMAIN contents, contents[j][2] # "updated"
      PROVE  \E u \in moves' : u[1] = contents[j][1] /\ u[3] = contents[j][3]
  BY <1>5 DEF ReachInv, Reached
<1> QED BY <1>2, <1>3, <1>4, <1>5 DEF ReachInv, Reached, Moves

\* Storing a document notes the status it is stored with, if it is a new one.
LEMMA PutReaches ==
    ASSUME ReachInv, LifecycleInv, NEW e \in Elections, NEW d \in Doc, Put(e, d),
           d.status # "absent"
    PROVE  /\ moves \subseteq moves'
           /\ Reached(moves', e, d.status)
           /\ \A x \in Elections : docs'[x] = docs[x] \/ Reached(moves', x, docs'[x].status)
<1>1. docs \in [Elections -> Doc]
  BY DEF LifecycleInv, LifecycleTypeOK
<1>2. /\ docs' = [docs EXCEPT ![e] = d]
      /\ moves \subseteq moves'
      /\ d.status # docs[e].status => <<e, docs[e].status, d.status>> \in moves'
  BY DEF Put
<1>3. \E u \in moves' : u[1] = e /\ u[3] = d.status
  <2>1. CASE d.status = docs[e].status
    <3>1. PICK u \in moves : u[1] = e /\ u[3] = docs[e].status
      BY <2>1 DEF ReachInv, Exists, Reached
    <3> QED BY <1>2, <2>1, <3>1
  <2>2. CASE d.status # docs[e].status
    <3>1. <<e, docs[e].status, d.status>> \in moves'
      BY <1>2, <2>2
    <3> QED BY <3>1
  <2> QED BY <2>1, <2>2
<1>4. docs'[e] = d /\ \A x \in Elections \ {e} : docs'[x] = docs[x]
  BY <1>1, <1>2
<1> QED BY <1>2, <1>3, <1>4 DEF Reached

\* A save that moves a status stores the status asked for.
LEMMA SaveReaches ==
    ASSUME ReachInv, LifecycleInv, NEW m \in Managers, SaveElection(m),
           req[m].kind # "update"
    PROVE  Saved(docs[req[m].election], req[m]).status = req[m].change.status
<1> DEFINE e == req[m].election
<1>1. /\ req[m] \in Request /\ RequestOK(req[m], docs)
      /\ req[m].phase = "save" /\ req[m].kind \in {"status", "archive"}
  BY DEF SaveElection, LifecycleInv, LifecycleTypeOK, Request, Kind
<1>2. e \in Elections /\ docs[e] \in Doc
  BY <1>1 DEF RequestOK, LifecycleInv, LifecycleTypeOK
<1>3. "status" \in DOMAIN req[m].change
  BY <1>1 DEF RequestOK
<1>4. req[m].change.status # req[m].snap.status
  BY <1>1 DEF ReachInv, Moves
<1>5. "status" \in Modified(req[m].snap, req[m].change)
  BY <1>3, <1>4 DEF Modified
<1> QED BY <1>1, <1>2, <1>5, SavedType

\* Handlers before the audit.
LEMMA HandlerKeepsReach ==
    ASSUME AckedInv, ReachInv, NEW m \in Managers, HandlerStep(m), Unaudited
    PROVE  ReachInv'
<1> USE DEF AckedInv
<1>1. /\ req \in [Managers -> Request] /\ docs \in [Elections -> Doc]
      /\ req[m] \in Request /\ RequestOK(req[m], docs)
  BY DEF LifecycleInv, LifecycleTypeOK
<1>2. contents' = contents /\ \A x \in Managers \ {m} : req'[x] = req[x]
  BY HandlerShape DEF Unaudited
<1>3. ASSUME NEW reply, Answer(m, reply) PROVE req'[m].phase = "idle"
  BY <1>1, <1>3 DEF Answer, Request
<1>4. ASSUME UNCHANGED <<docs, moves>>, req'[m].phase \notin {"save", "audit"}
      PROVE  ReachInv'
  BY <1>2, <1>4, ReachKept DEF Moves
<1>5. CASE Submit(m)
  <2>1. UNCHANGED <<docs, moves>> /\ req'[m].phase \notin {"save", "audit"}
    BY <1>1, <1>5 DEF Submit, BeginCreate, BeginUpdate, BeginStatus, BeginArchive, Begin
  <2> QED BY <1>4, <2>1
<1>6. CASE FindElection(m)
  <2>1. UNCHANGED <<docs, moves>> /\ req'[m].phase \notin {"save", "audit"}
    BY <1>1, <1>3, <1>6 DEF FindElection, Request
  <2> QED BY <1>4, <2>1
<1>7. CASE SaveConflict(m) \/ SaveFails(m)
  <2>1. UNCHANGED <<docs, moves>> /\ req'[m].phase = "idle"
    BY <1>3, <1>7 DEF SaveConflict, SaveFails
  <2> QED BY <1>4, <2>1
<1>8. CASE Decide(m)
  <2>1. UNCHANGED <<docs, moves>>
    BY <1>8 DEF Decide
  <2>2. CASE Advance(m, "save") /\ ~AlreadyThere(req[m])
    <3>1. req'[m] = [req[m] EXCEPT !.phase = "save"]
      BY <1>1, <2>2 DEF Advance
    <3>2. Moves(req'[m]) => req'[m].change.status # req'[m].snap.status
      BY <1>1, <2>2, <3>1 DEF Moves, AlreadyThere, Request
    <3>3. req'[m].phase # "audit"
      BY <1>1, <3>1 DEF Request
    <3> QED BY <1>2, <2>1, <3>2, <3>3, ReachKept
  <2>3. CASE req'[m].phase = "idle"
    BY <1>4, <2>1, <2>3
  <2> QED BY <1>3, <1>8, <2>2, <2>3 DEF Decide
<1>9. CASE InsertElection(m)
  <2> DEFINE d == NewDoc(req[m].change, m)
  <2>1. d \in Doc /\ d.status # "absent"
    BY <1>1, NewDocType DEF Request, Status
  <2>2. PICK e \in Elections :
           /\ Put(e, d)
           /\ \/ req' = [req EXCEPT ![m].phase = "audit", ![m].election = e]
              \/ Answer(m, "error")
    BY <1>9 DEF InsertElection
  <2>3. /\ moves \subseteq moves'
        /\ Reached(moves', e, d.status)
        /\ \A x \in Elections : docs'[x] = docs[x] \/ Reached(moves', x, docs'[x].status)
    BY <2>1, <2>2, PutReaches
  <2>4. CASE req' = [req EXCEPT ![m].phase = "audit", ![m].election = e]
    <3>1. req'[m] = [req[m] EXCEPT !.phase = "audit", !.election = e]
      BY <1>1, <2>4
    <3>2. /\ req'[m].phase = "audit" /\ req'[m].election = e
          /\ req'[m].kind = "create" /\ req'[m].change = req[m].change
      BY <1>1, <1>9, <3>1 DEF Request, InsertElection
    <3>3. AuditEntry(m)'[3] = d.status
      BY <3>2 DEF AuditEntry
    <3>4. Reached(moves', req'[m].election, AuditEntry(m)'[3])
      BY <2>3, <3>2, <3>3 DEF Reached
    <3> QED BY <1>2, <2>3, <3>2, <3>4, ReachKept DEF Moves
  <2>5. CASE Answer(m, "error")
    BY <1>2, <1>3, <2>3, <2>5, ReachKept DEF Moves
  <2> QED BY <2>2, <2>4, <2>5
<1>10. CASE SaveElection(m)
  <2> DEFINE e == req[m].election
             d == Saved(docs[e], req[m])
  <2>1. e \in Elections /\ docs[e].status \in Status /\ req[m].kind # "create"
    BY <1>1, <1>10 DEF SaveElection, RequestOK, Doc
  <2>2. d \in Doc /\ d.status # "absent"
    BY <1>1, <2>1, SavedType DEF Status
  <2>3. Put(e, d) /\ (Advance(m, "audit") \/ Answer(m, "error"))
    BY <1>10 DEF SaveElection, AfterWrite
  <2>4. /\ moves \subseteq moves'
        /\ Reached(moves', e, d.status)
        /\ \A x \in Elections : docs'[x] = docs[x] \/ Reached(moves', x, docs'[x].status)
    BY <2>1, <2>2, <2>3, PutReaches
  <2>5. CASE Advance(m, "audit")
    <3>1. req'[m] = [req[m] EXCEPT !.phase = "audit"]
      BY <1>1, <2>5 DEF Advance
    <3>2. /\ req'[m].phase = "audit" /\ req'[m].election = e
          /\ req'[m].kind = req[m].kind /\ req'[m].change = req[m].change
      BY <1>1, <3>1 DEF Request
    <3>3. req[m].kind # "update" => AuditEntry(m)'[3] = req[m].change.status
      BY <2>1, <3>2 DEF AuditEntry
    <3>4. req[m].kind # "update" => AuditEntry(m)'[3] = d.status
      BY <1>10, <3>3, SaveReaches
    <3>5. req[m].kind # "update" => Reached(moves', req'[m].election, AuditEntry(m)'[3])
      BY <2>4, <3>2, <3>4 DEF Reached
    <3> QED BY <1>2, <2>4, <3>2, <3>5, ReachKept DEF Moves
  <2>6. CASE Answer(m, "error")
    BY <1>2, <1>3, <2>4, <2>6, ReachKept DEF Moves
  <2> QED BY <2>3, <2>5, <2>6
<1> QED BY <1>5, <1>6, <1>7, <1>8, <1>9, <1>10 DEF HandlerStep

\* The steps that touch neither the collection nor its history.
LEMMA LogKeepsReach ==
    ASSUME AckedInv, ReachInv,
           \/ \E m \in Managers : RequestEntry(m) \/ EntrySettled(m)
           \/ RunQueue \/ RestartServer \/ Pass \/ UNCHANGED auditedVars
    PROVE  ReachInv'
<1> USE DEF AckedInv
<1>1. req \in [Managers -> Request]
  BY DEF LifecycleInv, LifecycleTypeOK
<1>2. UNCHANGED <<docs, moves>>
  BY DEF RequestEntry, EntrySettled, RunQueue, RestartServer, Pass, Tick, auditedVars,
     lifecycleVars
<1>3. ASSUME NEW x \in Managers
      PROVE  req'[x] = req[x] \/ req'[x].phase = "idle"
  <2>1. CASE \E m \in Managers : RequestEntry(m)
    BY <2>1 DEF RequestEntry
  <2>2. ASSUME NEW m \in Managers, EntrySettled(m)
        PROVE  req'[x] = req[x] \/ req'[x].phase = "idle"
    <3>1. PICK reply \in Reply : Answer(m, reply)
      BY <2>2 DEF EntrySettled, Reply
    <3>2. req' = [req EXCEPT ![m] = [req[m] EXCEPT !.phase = "idle", !.snap = NoDoc,
                                                  !.reply = reply]]
      BY <1>1, <3>1 DEF Answer
    <3>3. x = m => req'[x].phase = "idle"
      BY <1>1, <3>2 DEF Request
    <3> QED BY <1>1, <3>2, <3>3
  <2>3. CASE RestartServer
    <3>1. req'[x] = IF req[x].phase = "idle" THEN req[x]
                    ELSE [req[x] EXCEPT !.phase = "idle", !.snap = NoDoc, !.reply = "none"]
      BY <2>3 DEF RestartServer
    <3>2. req[x] \in Request
      BY <1>1
    <3> QED BY <3>1, <3>2 DEF Request
  <2>4. CASE RunQueue \/ Pass \/ UNCHANGED auditedVars
    BY <2>4 DEF RunQueue, Pass, Tick, auditedVars, lifecycleVars
  <2> QED BY <2>1, <2>2, <2>3, <2>4
<1>4. ASSUME NEW x \in Managers
      PROVE  Moves(req'[x]) => req'[x].change.status # req'[x].snap.status
  BY <1>3 DEF Moves, ReachInv
<1>5. ASSUME NEW x \in Managers, req'[x].phase = "audit", req'[x].kind # "update"
      PROVE  \E u \in moves' : u[1] = req'[x].election /\ u[3] = AuditEntry(x)'[3]
  <2>1. req'[x] = req[x]
    BY <1>3, <1>5
  <2>2. AuditEntry(x)' = AuditEntry(x)
    BY <2>1 DEF AuditEntry
  <2> QED BY <1>2, <1>5, <2>1, <2>2 DEF ReachInv, Reached
<1>6. ASSUME NEW j \in DOMAIN contents', contents'[j][2] # "updated"
      PROVE  \E u \in moves' : u[1] = contents'[j][1] /\ u[3] = contents'[j][3]
  <2>1. CASE contents' = contents
    BY <1>2, <1>6, <2>1 DEF ReachInv, Reached
  <2>2. ASSUME NEW m \in Managers, RequestEntry(m)
        PROVE  \E u \in moves' : u[1] = contents'[j][1] /\ u[3] = contents'[j][3]
    <3> DEFINE entry == AuditEntry(m)
    <3>1. contents' = Append(contents, entry) /\ req[m].phase = "audit"
      BY <2>2 DEF RequestEntry
    <3>2. req[m].kind = "update" => entry[2] = "updated"
      BY DEF AuditEntry
    <3>3. entry[1] = req[m].election
      BY DEF AuditEntry
    <3>4. req[m].kind # "update" => \E u \in moves : u[1] = entry[1] /\ u[3] = entry[3]
      BY <3>1, <3>3 DEF ReachInv, Reached
    <3>5. contents \in Seq(Said3) /\ entry \in Said3
      BY <3>1, AuditEntryType DEF QueueInv, Said3
    <3> HIDE DEF entry
    <3>6. \/ j \in DOMAIN contents /\ contents'[j] = contents[j]
          \/ contents'[j] = entry
      BY <1>6, <3>1, <3>5
    <3>7. CASE contents'[j] = entry
      BY <1>2, <1>6, <3>2, <3>4, <3>7
    <3>8. CASE j \in DOMAIN contents /\ contents'[j] = contents[j]
      BY <1>2, <1>6, <3>8 DEF ReachInv, Reached
    <3> QED BY <3>6, <3>7, <3>8
  <2> QED BY <2>1, <2>2 DEF EntrySettled, RunQueue, RestartServer, Pass, auditedVars
<1>7. ASSUME NEW e \in Elections, Exists(e)'
      PROVE  Reached(moves', e, docs'[e].status)
  BY <1>2, <1>7 DEF ReachInv, Reached, Exists
<1> QED BY <1>4, <1>5, <1>6, <1>7 DEF ReachInv, Reached

\* Whoever races and whatever fails or dies, the log names no status an election
\* never had (electionService.js:172, 216, 243).
THEOREM LoggedWasReached == AuditedSpec => []LoggedStatusReached
<1>1. AuditedInit => AckedInv /\ ReachInv
  <2> SUFFICES ASSUME AuditedInit PROVE AckedInv /\ ReachInv
    OBVIOUS
  <2>1. ReachInv
    BY DEF AuditedInit, Init, ReachInv, Exists, NoDoc, NoRequest, Moves
  <2> QED BY <2>1, InitAcked
<1>2. AckedInv /\ ReachInv /\ [AuditedNext]_auditedVars => AckedInv' /\ ReachInv'
  <2> SUFFICES ASSUME AckedInv, ReachInv, [AuditedNext]_auditedVars
               PROVE  ReachInv'
    BY StepKeepsAcked
  <2>1. ASSUME NEW m \in Managers, SubmitRequest(m) \/ Handle(m)
        PROVE  ReachInv'
    BY <2>1, HandlerKeepsReach DEF SubmitRequest, Handle, Save, HandlerStep
  <2> QED BY <2>1, LogKeepsReach DEF AuditedNext, Finished
<1>3. AckedInv /\ ReachInv => LoggedStatusReached
  <2> SUFFICES ASSUME AckedInv, ReachInv, NEW t \in trail, t[2] # "updated"
               PROVE  Reached(moves, t[1], t[3])
    BY DEF LoggedStatusReached, Reached
  <2>1. PICK e \in entries : e.currentHash \in DOMAIN contents /\ t = contents[e.currentHash]
    BY DEF AckedInv, QueueInv, Said
  <2> QED BY <2>1 DEF ReachInv
<1> QED BY <1>1, <1>2, <1>3, PTL DEF AuditedSpec
=============================================================================

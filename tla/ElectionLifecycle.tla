------------------------- MODULE ElectionLifecycle -------------------------
(***************************************************************************)
(* The management side of an election: src/services/electionService.js     *)
(* over the collection of src/models/Election.js.                          *)
(*                                                                         *)
(* A manager is an account that passed requirePollCreator.  Each manager   *)
(* has one request in flight at a time; several managers are several       *)
(* clients, served by the same or by different replicas of the API.  A     *)
(* handler is cut at its awaits: the read of the document, the synchronous *)
(* checks, the write, and the append to the audit log.  Between two of     *)
(* these steps any other request may run, the clock may move, and, when    *)
(* Faults is TRUE, the database may fail or the process may die.           *)
(***************************************************************************)
EXTENDS Integers, FiniteSets

CONSTANTS
    Elections,   \* identifiers documents may be stored under
    Managers,    \* accounts with role admin or canCreatePolls
    Admins,      \* the managers whose role is admin
    Options,     \* option identifiers
    Nobody,      \* stands for the creator of a document nobody created
    NoElection,  \* stands for the identifier a POST does not carry
    MaxTime,     \* bound on the clock
    MaxVersion,  \* no edit starts on a document with a greater __v
    Bodies,      \* request bodies of POST /elections
    Patches,     \* request bodies of PATCH /elections/:electionId
    Targets,     \* the statuses PATCH /elections/:electionId/status asks for
    Faults       \* may operations fail and processes die?

Time   == 0..MaxTime
Status == {"draft", "published", "open", "closed", "archived"}

\* The fields of an election document that a request body can carry: the validators
\* check those they know and strip none, so that the creator and the version (__v)
\* are among them.  Title and description are read by no guard: resultsVisibility
\* stands for them, as the field that may change at any time before closing.  A body
\* with another _id than the document's has its update refused: it is left out.
BodyFields == {"options", "maxSelections", "startsAt", "endsAt",
               "resultsVisibility", "status", "createdBy", "v"}

ELECTION_TRANSITIONS ==
    [draft     |-> {"published", "archived"},
     published |-> {"open", "archived"},
     open      |-> {"closed", "archived"},
     closed    |-> {"archived"},
     archived  |-> {}]

\* "type" is locked with the others and read by no guard: it is left out.
CRITICAL_OPEN_FIELDS == {"options", "startsAt", "endsAt", "maxSelections"}

\* What the validators and the schema let through: a partial assignment of
\* fields, each of its own type.
IsChange(c) ==
    /\ DOMAIN c \subseteq BodyFields
    /\ "options" \in DOMAIN c => c.options \in SUBSET Options
    /\ "maxSelections" \in DOMAIN c => c.maxSelections \in Nat \ {0}
    /\ "startsAt" \in DOMAIN c => c.startsAt \in Time
    /\ "endsAt" \in DOMAIN c => c.endsAt \in Time
    /\ "resultsVisibility" \in DOMAIN c =>
            c.resultsVisibility \in {"always", "after_close"}
    /\ "status" \in DOMAIN c => c.status \in Status
    /\ "createdBy" \in DOMAIN c => c.createdBy \in Managers \cup {Nobody}
    /\ "v" \in DOMAIN c => c.v \in Nat

ASSUME ManagersAssumption == Admins \subseteq Managers
ASSUME NullsAssumption == Nobody \notin Managers /\ NoElection \notin Elections
ASSUME BoundsAssumption == MaxTime \in Nat /\ MaxVersion \in Nat
ASSUME FaultsAssumption == Faults \in BOOLEAN
ASSUME InputsAssumption ==
    /\ \A c \in Bodies \cup Patches : IsChange(c)
    /\ Targets \subseteq Status
    /\ \A c \in Bodies : {"options", "startsAt", "endsAt"} \subseteq DOMAIN c

Doc == [status: Status \cup {"absent"}, options: SUBSET Options,
        maxSelections: Nat, startsAt: Time, endsAt: Time,
        resultsVisibility: {"always", "after_close"},
        createdBy: Managers \cup {Nobody}, v: Nat]

\* The value kept for an identifier no document is stored under, with the
\* defaults of the schema.
NoDoc == [status |-> "absent", options |-> {}, maxSelections |-> 1,
          startsAt |-> 0, endsAt |-> 0, resultsVisibility |-> "after_close",
          createdBy |-> Nobody, v |-> 0]

\* Object.assign(document, change)
Assign(d, c) == [f \in DOMAIN d |-> IF f \in DOMAIN c THEN c[f] ELSE d[f]]

\* Mutant: the schema without its default status.
NewDoc_NoDefaultStatus(c, m) == Assign(Assign(NoDoc, c), [createdBy |-> m, v |-> 0])

\* A body posted as a new document: the schema fills the fields it leaves out, the
\* handler sets the creator, the driver the first version.
NewDoc(c, m) ==
    Assign(Assign(Assign(NoDoc, [status |-> "draft"]), c), [createdBy |-> m, v |-> 0])

Changes == Bodies \cup Patches \cup [{"status"} -> Status]

VARIABLES
    now,    \* the clock every replica reads
    docs,   \* the elections collection
    req,    \* the request each manager has in flight, or its last one
    moves,  \* history: the status changes the collection went through
    trail   \* what the audit log says of elections

lifecycleVars == <<now, docs, req, moves, trail>>

Kind  == {"create", "update", "status", "archive"}
Phase == {"idle", "find", "decide", "save", "audit"}
\* "ok" and "unchanged" are the two ways to answer 200 or 201.
Reply == {"none", "ok", "unchanged", "refused", "conflict", "error"}

Request == [phase: Phase, kind: Kind, election: Elections \cup {NoElection},
            change: Changes, snap: Doc, reply: Reply]

NoRequest == [phase |-> "idle", kind |-> "archive", election |-> NoElection,
              change |-> [status |-> "archived"], snap |-> NoDoc, reply |-> "none"]

Init ==
    /\ now = 0
    /\ docs = [e \in Elections |-> NoDoc]
    /\ req = [m \in Managers |-> NoRequest]
    /\ moves = {}
    /\ trail = {}

-----------------------------------------------------------------------------
(* Requests.                                                                *)

Begin(m, phase, kind, e, c) ==
    /\ req[m].phase = "idle"
    /\ req' = [req EXCEPT ![m] =
                  [phase |-> phase, kind |-> kind, election |-> e, change |-> c,
                   snap |-> NoDoc, reply |-> "none"]]
    /\ UNCHANGED <<now, docs, moves, trail>>

\* Bound: no more documents are posted than there are identifiers in Elections.
RoomLeft ==
    Cardinality({x \in Managers :
                    req[x].kind = "create" /\ req[x].phase \in {"decide", "save"}})
        < Cardinality({e \in Elections : docs[e].status = "absent"})

\* createElection reads nothing before it checks the body.
BeginCreate(m) ==
    RoomLeft /\ \E c \in Bodies : Begin(m, "decide", "create", NoElection, c)
BeginUpdate(m) ==
    \E e \in Elections, c \in Patches :
        docs[e].v <= MaxVersion /\ Begin(m, "find", "update", e, c)
BeginStatus(m) ==
    \E e \in Elections, s \in Targets : Begin(m, "find", "status", e, [status |-> s])
BeginArchive(m) ==
    \E e \in Elections : Begin(m, "find", "archive", e, [status |-> "archived"])

\* The handler ends, its document is dropped, and the client reads the reply.
Answer(m, reply) ==
    req' = [req EXCEPT ![m].phase = "idle", ![m].snap = NoDoc, ![m].reply = reply]
Advance(m, phase) == req' = [req EXCEPT ![m].phase = phase]

\* ensureElectionExists: the document is read once, into memory.
FindElection(m) ==
    /\ req[m].phase = "find"
    /\ \/ /\ docs[req[m].election].status # "absent"
          /\ req' = [req EXCEPT ![m].phase = "decide",
                                ![m].snap = docs[req[m].election]]
       \/ /\ docs[req[m].election].status = "absent"
          /\ Answer(m, "refused")
       \/ /\ Faults
          /\ Answer(m, "error")
    /\ UNCHANGED <<now, docs, moves, trail>>

-----------------------------------------------------------------------------
(* The checks, all made on the snapshot.                                    *)

ensureOwnershipOrAdmin(d, m) == m \in Admins \/ d.createdBy = m

validateElectionWindow(d) == d.startsAt < d.endsAt

assertSelectionLimit(d) == d.maxSelections <= Cardinality(d.options)

\* Mutant: the limit is checked against the options the document had.
EditAllowed_OldOptions(d, c) ==
    /\ d.status \notin {"closed", "archived"}
    /\ d.status = "open" => DOMAIN c \cap CRITICAL_OPEN_FIELDS = {}
    /\ validateElectionWindow(Assign(d, c))
    /\ assertSelectionLimit(d)

\* Mutant: the lock on the critical fields of an open election is missing.
EditAllowed_NoLock(d, c) ==
    /\ d.status \notin {"closed", "archived"}
    /\ validateElectionWindow(Assign(d, c))
    /\ assertSelectionLimit(Assign(d, c))

EditAllowed(d, c) ==
    /\ d.status \notin {"closed", "archived"}
    /\ d.status = "open" => DOMAIN c \cap CRITICAL_OPEN_FIELDS = {}
    /\ validateElectionWindow(Assign(d, c))
    /\ assertSelectionLimit(Assign(d, c))

\* Mutant: the table of transitions is not consulted.
TransitionAllowed_AnyTarget(d, s, t) == s = "open" => t \in d.startsAt..d.endsAt

TransitionAllowed(d, s, t) ==
    /\ s \in ELECTION_TRANSITIONS[d.status]
    /\ s = "open" => t \in d.startsAt..d.endsAt

\* The early return of changeElectionStatus and of archiveElection.
AlreadyThere(r) ==
    r.kind \in {"status", "archive"} /\ r.change.status = r.snap.status

Accepted(r, m, t) ==
    CASE r.kind = "create"  -> /\ validateElectionWindow(NewDoc(r.change, m))
                               /\ assertSelectionLimit(NewDoc(r.change, m))
      [] r.kind = "update"  -> EditAllowed(r.snap, r.change)
      [] r.kind = "status"  -> TransitionAllowed(r.snap, r.change.status, t)
      [] r.kind = "archive" -> TRUE

Decide(m) ==
    LET r == req[m]
        mayManage == r.kind = "create" \/ ensureOwnershipOrAdmin(r.snap, m)
    IN  /\ r.phase = "decide"
        /\ \/ mayManage /\ AlreadyThere(r) /\ Answer(m, "unchanged")
           \/ mayManage /\ ~AlreadyThere(r) /\ Accepted(r, m, now) /\ Advance(m, "save")
           \/ /\ ~mayManage \/ (~AlreadyThere(r) /\ ~Accepted(r, m, now))
              /\ Answer(m, "refused")
        /\ UNCHANGED <<now, docs, moves, trail>>

-----------------------------------------------------------------------------
(* document.save(): $set of the paths that differ from the snapshot.  Only  *)
(* a save that replaces the options array names the version its document    *)
(* has in memory, read or assigned, and only such a save increments it.     *)

Modified(d, c) == {f \in DOMAIN c : c[f] # d[f]}

VersionMatches(stored, r) ==
    "options" \in Modified(r.snap, r.change) => stored.v = Assign(r.snap, r.change).v

\* Mutant: a save that replaces the array leaves the version alone.
Saved_NoIncrement(stored, r) ==
    LET set == Modified(r.snap, r.change)
    IN  [f \in DOMAIN stored |-> IF f \in set THEN r.change[f] ELSE stored[f]]

Saved(stored, r) ==
    LET set == Modified(r.snap, r.change)
    IN  [f \in DOMAIN stored |->
            IF f = "v" /\ "options" \in set THEN stored.v + 1
            ELSE IF f \in set THEN r.change[f] ELSE stored[f]]

\* Store d under e and note the status change.
Put(e, d) ==
    /\ docs' = [docs EXCEPT ![e] = d]
    /\ moves' = IF d.status = docs[e].status THEN moves
                ELSE moves \cup {<<e, docs[e].status, d.status>>}

\* A write the database applied: acknowledged, or its acknowledgement lost.
AfterWrite(m) == Advance(m, "audit") \/ (Faults /\ Answer(m, "error"))

\* Election.create: the new document gets an identifier of its own.
InsertElection(m) ==
    /\ req[m].phase = "save"
    /\ req[m].kind = "create"
    /\ \E e \in Elections :
          /\ docs[e].status = "absent"
          /\ Put(e, NewDoc(req[m].change, m))
          /\ \/ req' = [req EXCEPT ![m].phase = "audit", ![m].election = e]
             \/ Faults /\ Answer(m, "error")
    /\ UNCHANGED <<now, trail>>

SaveElection(m) ==
    LET e == req[m].election
    IN  /\ req[m].phase = "save"
        /\ req[m].kind # "create"
        /\ VersionMatches(docs[e], req[m])
        /\ Put(e, Saved(docs[e], req[m]))
        /\ AfterWrite(m)
        /\ UNCHANGED <<now, trail>>

\* VersionError: the filter of the update matched no document.
SaveConflict(m) ==
    /\ req[m].phase = "save"
    /\ req[m].kind # "create"
    /\ ~VersionMatches(docs[req[m].election], req[m])
    /\ Answer(m, "conflict")
    /\ UNCHANGED <<now, docs, moves, trail>>

\* Mutant: the outcome of the save is not awaited.
SaveFails_GoesOn(m) ==
    /\ Faults
    /\ req[m].phase = "save" /\ req[m].kind # "create"
    /\ Advance(m, "audit")
    /\ UNCHANGED <<now, docs, moves, trail>>

\* A write the database did not apply.
SaveFails(m) ==
    /\ Faults
    /\ req[m].phase = "save"
    /\ Answer(m, "error")
    /\ UNCHANGED <<now, docs, moves, trail>>

\* Mutant: the previous status is read after the new one was assigned.
AuditEntry_LatePrevious(m) ==
    LET r == req[m]
    IN  <<r.election,
          IF r.kind = "update" THEN "updated"
          ELSE IF r.kind = "create" THEN "absent" ELSE r.change.status,
          IF r.kind = "create" THEN NewDoc(r.change, m).status
          ELSE Assign(r.snap, r.change).status>>

\* The metadata auditElectionAction is called with: for a status change, the
\* status of the snapshot and the new one.
AuditEntry(m) ==
    LET r == req[m]
    IN  <<r.election,
          CASE r.kind = "create" -> "absent"
            [] r.kind = "update" -> "updated"
            [] OTHER -> r.snap.status,
          CASE r.kind = "create" -> NewDoc(r.change, m).status
            [] r.kind = "update" -> Assign(r.snap, r.change).status
            [] OTHER -> r.change.status>>

\* auditElectionAction is awaited, and what it throws fails the request; the entry
\* may have been stored all the same.
AuditElectionAction(m) ==
    /\ req[m].phase = "audit"
    /\ \/ trail' = trail \cup {AuditEntry(m)} /\ Answer(m, "ok")
       \/ /\ Faults
          /\ trail' \in {trail, trail \cup {AuditEntry(m)}}
          /\ Answer(m, "error")
    /\ UNCHANGED <<now, docs, moves>>

\* The process that serves the request dies, or its client goes away unanswered.
Lose(m) ==
    /\ Faults
    /\ req[m].phase # "idle"
    /\ Answer(m, "none")
    /\ UNCHANGED <<now, docs, moves, trail>>

Tick ==
    /\ now < MaxTime
    /\ now' = now + 1
    /\ UNCHANGED <<docs, req, moves, trail>>

-----------------------------------------------------------------------------

Submit(m) == BeginCreate(m) \/ BeginUpdate(m) \/ BeginStatus(m) \/ BeginArchive(m)

\* The write a handler awaits.
Save(m) ==
    /\ req[m].phase = "save"
    /\ InsertElection(m) \/ SaveElection(m) \/ SaveConflict(m) \/ SaveFails(m)

\* The steps the server takes on its own once a request is submitted.
Serve(m) ==
    \/ FindElection(m) \/ Decide(m)
    \/ Save(m)
    \/ AuditElectionAction(m)

ManagerStep(m) == Submit(m) \/ Serve(m) \/ Lose(m)

LifecycleNext == Tick \/ \E m \in Managers : ManagerStep(m)

LifecycleSpec == Init /\ [][LifecycleNext]_lifecycleVars
=============================================================================

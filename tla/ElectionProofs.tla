--------------------------- MODULE ElectionProofs ---------------------------
(***************************************************************************)
(* What holds of the election lifecycle for any managers, elections,       *)
(* options, bodies and bounds, and whether operations fail or not.         *)
(***************************************************************************)
EXTENDS ElectionProperties, TLAPS

-----------------------------------------------------------------------------
(* The documents and the changes made to them.                              *)

\* Whatever a request asks for is a well-formed assignment of fields.
LEMMA ChangeWellFormed == \A c \in Changes : IsChange(c)
<1>1. \A c \in [{"status"} -> Status] : IsChange(c)
  BY DEF IsChange, BodyFields
<1> QED BY <1>1, InputsAssumption DEF Changes

\* The body changeElectionStatus and archiveElection assign from.
LEMMA StatusChange == \A s \in Status : [status |-> s] \in [{"status"} -> Status]
OBVIOUS

\* The value kept for a missing document is a document like the others.
LEMMA NoDocType == NoDoc \in Doc
BY BoundsAssumption DEF NoDoc, Doc, Time

\* Object.assign keeps a document a document, and what the change leaves out.
LEMMA AssignType ==
    ASSUME NEW d \in Doc, NEW c, IsChange(c)
    PROVE  /\ Assign(d, c) \in Doc
           /\ d.status \in Status => Assign(d, c).status \in Status
BY DEF Assign, Doc, IsChange, BodyFields

\* A posted body becomes a document with a status.
LEMMA NewDocType ==
    ASSUME NEW c \in Changes, NEW m \in Managers
    PROVE  NewDoc(c, m) \in Doc /\ NewDoc(c, m).status \in Status
<1> DEFINE d == Assign(NoDoc, [status |-> "draft"])
           given == [createdBy |-> m, v |-> 0]
<1>1. d \in Doc /\ d.status = "draft"
  BY NoDocType DEF Assign, Doc, Status
<1>2. IsChange(c)
  BY ChangeWellFormed
<1>3. Assign(d, c) \in Doc /\ Assign(d, c).status \in Status
  BY <1>1, <1>2, AssignType DEF Status
<1>4. IsChange(given)
  BY DEF IsChange, BodyFields
<1> HIDE DEF d, given
<1>5. Assign(Assign(d, c), given) \in Doc /\ Assign(Assign(d, c), given).status \in Status
  BY <1>3, <1>4, AssignType
<1> QED BY <1>5 DEF NewDoc, d, given

\* A save keeps a document a document; it moves the version when it replaces the
\* options, and otherwise only as its body says.
LEMMA SavedType ==
    ASSUME NEW d \in Doc, NEW r \in Request
    PROVE  /\ Saved(d, r) \in Doc
           /\ d.status \in Status => Saved(d, r).status \in Status
           /\ Saved(d, r).status = IF "status" \in Modified(r.snap, r.change)
                                   THEN r.change.status ELSE d.status
           /\ \A f \in CRITICAL_OPEN_FIELDS :
                 Saved(d, r)[f] = IF f \in Modified(r.snap, r.change)
                                  THEN r.change[f] ELSE d[f]
           /\ Saved(d, r).v = IF "options" \in Modified(r.snap, r.change) THEN d.v + 1
                              ELSE IF "v" \in Modified(r.snap, r.change) THEN r.change.v
                              ELSE d.v
<1>1. IsChange(r.change)
  BY ChangeWellFormed DEF Request
<1> DEFINE set == Modified(r.snap, r.change)
<1>2. set \subseteq DOMAIN r.change
  BY <1>1 DEF Modified, IsChange, BodyFields
<1>3. DOMAIN d = {"status", "options", "maxSelections", "startsAt", "endsAt",
                  "resultsVisibility", "createdBy", "v"}
  BY DEF Doc
<1>4. DOMAIN Saved(d, r) = DOMAIN d
  BY DEF Saved
<1>5. \A f \in DOMAIN d :
         Saved(d, r)[f] = IF f = "v" /\ "options" \in set THEN d.v + 1
                          ELSE IF f \in set THEN r.change[f] ELSE d[f]
  BY DEF Saved
<1>6. Saved(d, r) \in Doc
  BY <1>1, <1>2 DEF Saved, Doc, IsChange, BodyFields
<1>7. Saved(d, r).status = IF "status" \in set THEN r.change.status ELSE d.status
  BY <1>3, <1>5
<1>8. Saved(d, r).v = IF "options" \in set THEN d.v + 1
                      ELSE IF "v" \in set THEN r.change.v ELSE d.v
  BY <1>2, <1>3, <1>5
<1>9. \A f \in CRITICAL_OPEN_FIELDS :
         Saved(d, r)[f] = IF f \in set THEN r.change[f] ELSE d[f]
  BY <1>3, <1>5 DEF CRITICAL_OPEN_FIELDS
<1>10. d.status \in Status => Saved(d, r).status \in Status
  BY <1>1, <1>2, <1>7 DEF IsChange
<1> QED BY <1>6, <1>7, <1>8, <1>9, <1>10

-----------------------------------------------------------------------------
(* The inductive invariant behind the types: what a request in flight may   *)
(* rely on, given the documents ds of the collection.                       *)

RequestOK(r, ds) ==
    /\ r.kind = "create" => r.change \in Bodies
    /\ r.kind = "update" => r.change \in Patches
    /\ r.kind = "status" => r.change \in [{"status"} -> Status]
    /\ r.kind = "archive" => r.change = [status |-> "archived"]
    /\ r.phase = "find" => r.kind # "create"
    /\ r.kind # "create" /\ r.phase # "idle" => r.election \in Elections
    /\ r.phase = "audit" => r.election \in Elections
    /\ r.kind # "create" /\ r.phase \in {"decide", "save", "audit"} =>
            r.snap.status \in Status
    /\ r.kind # "create" /\ r.phase \in {"decide", "save"} =>
            ds[r.election].status # "absent"

LifecycleInv ==
    /\ LifecycleTypeOK
    /\ \A m \in Managers : RequestOK(req[m], docs)

\* No document is ever removed: what a request relies on, it keeps relying on.
LEMMA RequestStable ==
    ASSUME NEW r, NEW ds, NEW es, RequestOK(r, ds),
           \A e \in Elections : ds[e].status # "absent" => es[e].status # "absent"
    PROVE  RequestOK(r, es)
BY DEF RequestOK

\* A step that rewrites the request of one manager, and perhaps the documents.
LEMMA OneRequestMoves ==
    ASSUME LifecycleInv, NEW m \in Managers, NEW r \in Request,
           NEW es \in [Elections -> Doc], RequestOK(r, es),
           \A e \in Elections : docs[e].status # "absent" => es[e].status # "absent"
    PROVE  /\ [req EXCEPT ![m] = r] \in [Managers -> Request]
           /\ \A x \in Managers : RequestOK([req EXCEPT ![m] = r][x], es)
<1>1. req \in [Managers -> Request] /\ \A x \in Managers : RequestOK(req[x], es)
  BY RequestStable DEF LifecycleInv, LifecycleTypeOK
<1> QED BY <1>1

\* The empty collection and idle managers satisfy the invariant.
LEMMA InitLifecycleInv == Init => LifecycleInv
<1> SUFFICES ASSUME Init PROVE LifecycleInv
  OBVIOUS
<1>1. [status |-> "archived"] \in [{"status"} -> Status]
  BY DEF Status
<1>2. NoRequest \in Request
  BY <1>1, NoDocType DEF NoRequest, Request, Changes, Phase, Kind, Reply
<1>3. RequestOK(NoRequest, docs)
  BY DEF RequestOK, NoRequest
<1>4. 0 \in Time
  BY BoundsAssumption DEF Time
<1> QED BY <1>2, <1>3, <1>4, NoDocType DEF Init, LifecycleInv, LifecycleTypeOK

\* Submitting a request writes nothing but the request.
LEMMA SubmitKeepsInv ==
    ASSUME LifecycleInv, NEW m \in Managers, Submit(m)
    PROVE  LifecycleInv'
<1> DEFINE New(phase, kind, e, c) ==
       [phase |-> phase, kind |-> kind, election |-> e, change |-> c,
        snap |-> NoDoc, reply |-> "none"]
<1>1. ASSUME NEW phase \in {"find", "decide"}, NEW kind \in Kind,
             NEW e \in Elections \cup {NoElection}, NEW c \in Changes,
             Begin(m, phase, kind, e, c), RequestOK(New(phase, kind, e, c), docs)
      PROVE  LifecycleInv'
  <2>1. New(phase, kind, e, c) \in Request
    BY NoDocType DEF Request, Phase, Reply
  <2>2. docs \in [Elections -> Doc]
    BY DEF LifecycleInv, LifecycleTypeOK
  <2>3. /\ [req EXCEPT ![m] = New(phase, kind, e, c)] \in [Managers -> Request]
        /\ \A x \in Managers :
              RequestOK([req EXCEPT ![m] = New(phase, kind, e, c)][x], docs)
    BY <1>1, <2>1, <2>2, OneRequestMoves
  <2> QED BY <1>1, <2>3 DEF Begin, LifecycleInv, LifecycleTypeOK
<1>2. CASE BeginCreate(m)
  <2>1. PICK c \in Bodies : Begin(m, "decide", "create", NoElection, c)
    BY <1>2 DEF BeginCreate
  <2>2. RequestOK(New("decide", "create", NoElection, c), docs)
    BY DEF RequestOK
  <2> QED BY <1>1, <2>1, <2>2 DEF Kind, Changes
<1>3. CASE BeginUpdate(m)
  <2>1. PICK e \in Elections, c \in Patches : Begin(m, "find", "update", e, c)
    BY <1>3 DEF BeginUpdate
  <2>2. RequestOK(New("find", "update", e, c), docs)
    BY DEF RequestOK
  <2> QED BY <1>1, <2>1, <2>2 DEF Kind, Changes
<1>4. CASE BeginStatus(m)
  <2>1. PICK e \in Elections, s \in Targets :
           Begin(m, "find", "status", e, [status |-> s])
    BY <1>4 DEF BeginStatus
  <2>2. [status |-> s] \in [{"status"} -> Status]
    BY InputsAssumption
  <2>3. RequestOK(New("find", "status", e, [status |-> s]), docs)
    BY <2>2 DEF RequestOK
  <2> QED BY <1>1, <2>1, <2>2, <2>3 DEF Kind, Changes
<1>5. CASE BeginArchive(m)
  <2>1. PICK e \in Elections :
           Begin(m, "find", "archive", e, [status |-> "archived"])
    BY <1>5 DEF BeginArchive
  <2>2. [status |-> "archived"] \in [{"status"} -> Status]
    BY DEF Status
  <2>3. RequestOK(New("find", "archive", e, [status |-> "archived"]), docs)
    BY DEF RequestOK
  <2> QED BY <1>1, <2>1, <2>2, <2>3 DEF Kind, Changes
<1> QED BY <1>2, <1>3, <1>4, <1>5 DEF Submit

\* The two ways a handler moves on without touching the collection.
LEMMA AnswerKeepsRequests ==
    ASSUME LifecycleInv, NEW m \in Managers, NEW reply \in Reply, Answer(m, reply),
           NEW es \in [Elections -> Doc],
           \A e \in Elections : docs[e].status # "absent" => es[e].status # "absent"
    PROVE  /\ req' \in [Managers -> Request]
           /\ \A x \in Managers : RequestOK(req'[x], es)
<1> DEFINE r == [req[m] EXCEPT !.phase = "idle", !.snap = NoDoc, !.reply = reply]
<1>1. req \in [Managers -> Request] /\ RequestOK(req[m], docs)
  BY DEF LifecycleInv, LifecycleTypeOK
<1>2. r \in Request
  BY <1>1, NoDocType DEF Request, Phase
<1>3. RequestOK(r, es)
  BY <1>1 DEF RequestOK, Request
<1>4. req' = [req EXCEPT ![m] = r]
  BY <1>1 DEF Answer
<1> QED BY <1>2, <1>3, <1>4, OneRequestMoves

\* What the read brings into memory is a stored document.
LEMMA FindKeepsInv ==
    ASSUME LifecycleInv, NEW m \in Managers, FindElection(m)
    PROVE  LifecycleInv'
<1> USE DEF LifecycleInv, LifecycleTypeOK
<1>1. CASE \E reply \in Reply : Answer(m, reply)
  BY <1>1, AnswerKeepsRequests DEF FindElection
<1>2. CASE /\ docs[req[m].election].status # "absent"
           /\ req' = [req EXCEPT ![m].phase = "decide",
                                 ![m].snap = docs[req[m].election]]
  <2> DEFINE r == [req[m] EXCEPT !.phase = "decide", !.snap = docs[req[m].election]]
  <2>1. req[m] \in Request /\ RequestOK(req[m], docs) /\ req[m].phase = "find"
    BY DEF FindElection
  <2>2. req[m].election \in Elections
    BY <2>1 DEF RequestOK
  <2>3. r \in Request
    BY <2>1, <2>2 DEF Request, Phase
  <2>4. docs[req[m].election].status \in Status
    BY <1>2, <2>2 DEF Doc
  <2>5. RequestOK(r, docs)
    BY <1>2, <2>1, <2>2, <2>4 DEF RequestOK, Request
  <2>6. req' = [req EXCEPT ![m] = r]
    BY <1>2
  <2> QED BY <2>3, <2>5, <2>6, OneRequestMoves DEF FindElection
<1> QED BY <1>1, <1>2 DEF FindElection, Reply

\* The checks write nothing and keep the document they were made on.
LEMMA DecideKeepsInv ==
    ASSUME LifecycleInv, NEW m \in Managers, Decide(m)
    PROVE  LifecycleInv'
<1> USE DEF LifecycleInv, LifecycleTypeOK
<1>1. CASE \E reply \in Reply : Answer(m, reply)
  BY <1>1, AnswerKeepsRequests DEF Decide
<1>2. CASE Advance(m, "save")
  <2> DEFINE r == [req[m] EXCEPT !.phase = "save"]
  <2>1. req[m] \in Request /\ RequestOK(req[m], docs) /\ req[m].phase = "decide"
    BY DEF Decide
  <2>2. r \in Request /\ RequestOK(r, docs)
    BY <2>1 DEF Request, Phase, RequestOK
  <2>3. req' = [req EXCEPT ![m] = r]
    BY <1>2 DEF Advance
  <2> QED BY <2>2, <2>3, OneRequestMoves DEF Decide
<1> QED BY <1>1, <1>2 DEF Decide, Reply

\* Storing a document that has a status.
LEMMA PutKeepsDocs ==
    ASSUME LifecycleInv, NEW e \in Elections, NEW d \in Doc, d.status \in Status,
           Put(e, d)
    PROVE  /\ docs' \in [Elections -> Doc]
           /\ \A x \in Elections : docs[x].status # "absent" => docs'[x].status # "absent"
           /\ docs'[e] = d
           /\ moves' \subseteq Elections \X (Status \cup {"absent"}) \X Status
BY DEF LifecycleInv, LifecycleTypeOK, Put, Doc, Status

\* A created document takes an identifier no document has.
LEMMA InsertKeepsInv ==
    ASSUME LifecycleInv, NEW m \in Managers, InsertElection(m)
    PROVE  LifecycleInv'
<1> USE DEF LifecycleInv, LifecycleTypeOK
<1> DEFINE d == NewDoc(req[m].change, m)
<1>1. req[m] \in Request /\ RequestOK(req[m], docs) /\ req[m].kind = "create"
  BY DEF InsertElection
<1>2. d \in Doc /\ d.status \in Status
  BY <1>1, NewDocType DEF Request
<1>3. PICK e \in Elections :
         /\ Put(e, d)
         /\ \/ req' = [req EXCEPT ![m].phase = "audit", ![m].election = e]
            \/ Answer(m, "error")
  BY DEF InsertElection
<1>4. /\ docs' \in [Elections -> Doc]
      /\ \A x \in Elections : docs[x].status # "absent" => docs'[x].status # "absent"
      /\ moves' \subseteq Elections \X (Status \cup {"absent"}) \X Status
  BY <1>2, <1>3, PutKeepsDocs
<1>5. CASE Answer(m, "error")
  BY <1>4, <1>5, AnswerKeepsRequests DEF Reply, InsertElection
<1>6. CASE req' = [req EXCEPT ![m].phase = "audit", ![m].election = e]
  <2> DEFINE r == [req[m] EXCEPT !.phase = "audit", !.election = e]
  <2>1. r \in Request /\ RequestOK(r, docs')
    BY <1>1 DEF Request, Phase, RequestOK
  <2>2. req' = [req EXCEPT ![m] = r]
    BY <1>6
  <2> QED BY <1>4, <2>1, <2>2, OneRequestMoves DEF InsertElection
<1> QED BY <1>3, <1>5, <1>6

\* An update reaches a document that exists, and leaves it one.
LEMMA SaveKeepsInv ==
    ASSUME LifecycleInv, NEW m \in Managers, SaveElection(m)
    PROVE  LifecycleInv'
<1> USE DEF LifecycleInv, LifecycleTypeOK
<1> DEFINE e == req[m].election
           d == Saved(docs[e], req[m])
<1>1. /\ req[m] \in Request /\ RequestOK(req[m], docs)
      /\ req[m].kind # "create" /\ req[m].phase = "save"
  BY DEF SaveElection
<1>2. e \in Elections /\ docs[e] \in Doc /\ docs[e].status \in Status
  BY <1>1 DEF RequestOK, Doc
<1>3. d \in Doc /\ d.status \in Status
  BY <1>1, <1>2, SavedType
<1>4. /\ docs' \in [Elections -> Doc]
      /\ \A x \in Elections : docs[x].status # "absent" => docs'[x].status # "absent"
      /\ moves' \subseteq Elections \X (Status \cup {"absent"}) \X Status
  BY <1>2, <1>3, PutKeepsDocs DEF SaveElection
<1>5. CASE Answer(m, "error")
  BY <1>4, <1>5, AnswerKeepsRequests DEF Reply, SaveElection
<1>6. CASE Advance(m, "audit")
  <2> DEFINE r == [req[m] EXCEPT !.phase = "audit"]
  <2>1. r \in Request /\ RequestOK(r, docs')
    BY <1>1, <1>2 DEF Request, Phase, RequestOK
  <2>2. req' = [req EXCEPT ![m] = r]
    BY <1>6 DEF Advance
  <2> QED BY <1>4, <2>1, <2>2, OneRequestMoves DEF SaveElection
<1> QED BY <1>5, <1>6 DEF SaveElection, AfterWrite

\* An audit entry names a document and a status.
LEMMA AuditEntryType ==
    ASSUME LifecycleInv, NEW m \in Managers, req[m].phase = "audit"
    PROVE  AuditEntry(m) \in Elections \X (Status \cup {"absent", "updated"}) \X Status
<1>1. req[m] \in Request /\ RequestOK(req[m], docs)
  BY DEF LifecycleInv, LifecycleTypeOK
<1>2. req[m].election \in Elections
  BY <1>1 DEF RequestOK
<1>3. NewDoc(req[m].change, m).status \in Status
  BY <1>1, NewDocType DEF Request
<1>4. req[m].kind # "create" => req[m].snap.status \in Status
  BY <1>1 DEF RequestOK
<1>5. req[m].kind # "create" => Assign(req[m].snap, req[m].change).status \in Status
  BY <1>1, <1>4, ChangeWellFormed, AssignType DEF Request
<1>6. req[m].kind \in {"status", "archive"} => req[m].change.status \in Status
  BY <1>1 DEF RequestOK, Status
<1> QED BY <1>1, <1>2, <1>3, <1>4, <1>5, <1>6 DEF AuditEntry, Request, Kind

\* The append to the audit log writes nothing else.
LEMMA AuditKeepsInv ==
    ASSUME LifecycleInv, NEW m \in Managers, AuditElectionAction(m)
    PROVE  LifecycleInv'
<1> USE DEF LifecycleInv, LifecycleTypeOK
<1>1. AuditEntry(m) \in Elections \X (Status \cup {"absent", "updated"}) \X Status
  BY AuditEntryType DEF AuditElectionAction
<1>2. trail' \subseteq Elections \X (Status \cup {"absent", "updated"}) \X Status
  BY <1>1 DEF AuditElectionAction
<1>3. \E reply \in Reply : Answer(m, reply)
  BY DEF AuditElectionAction, Reply
<1> QED BY <1>2, <1>3, AnswerKeepsRequests DEF AuditElectionAction

\* A handler that ends early writes nothing.
LEMMA EndKeepsInv ==
    ASSUME LifecycleInv, NEW m \in Managers, SaveConflict(m) \/ SaveFails(m) \/ Lose(m)
    PROVE  LifecycleInv'
<1>1. PICK reply \in Reply : Answer(m, reply)
  BY DEF SaveConflict, SaveFails, Lose, Reply
<1>2. UNCHANGED <<now, docs, moves, trail>>
  BY DEF SaveConflict, SaveFails, Lose
<1> QED BY <1>1, <1>2, AnswerKeepsRequests DEF LifecycleInv, LifecycleTypeOK

\* Every step of a request, from its submission to its answer.
LEMMA ManagerStepKeepsInv ==
    ASSUME LifecycleInv, NEW m \in Managers, ManagerStep(m)
    PROVE  LifecycleInv'
BY SubmitKeepsInv, FindKeepsInv, DecideKeepsInv, InsertKeepsInv, SaveKeepsInv,
   AuditKeepsInv, EndKeepsInv DEF ManagerStep, Serve, Save

\* The invariant is inductive.
LEMMA LifecycleStepKeepsInv == LifecycleInv /\ [LifecycleNext]_lifecycleVars => LifecycleInv'
<1> SUFFICES ASSUME LifecycleInv, [LifecycleNext]_lifecycleVars PROVE LifecycleInv'
  OBVIOUS
<1>1. CASE Tick
  <2>1. now' \in Time
    BY <1>1, BoundsAssumption DEF Tick, Time, LifecycleInv, LifecycleTypeOK
  <2> QED BY <1>1, <2>1 DEF Tick, LifecycleInv, LifecycleTypeOK
<1>2. CASE UNCHANGED lifecycleVars
  BY <1>2 DEF lifecycleVars, LifecycleInv, LifecycleTypeOK
<1> QED BY <1>1, <1>2, ManagerStepKeepsInv DEF LifecycleNext

\* Whatever the managers do, together or not, and whatever fails, the collection
\* and the requests in flight stay well-formed.
THEOREM LifecycleTypeCorrect == LifecycleSpec => []LifecycleTypeOK
<1>1. Init => LifecycleInv
  BY InitLifecycleInv
<1>2. LifecycleInv /\ [LifecycleNext]_lifecycleVars => LifecycleInv'
  BY LifecycleStepKeepsInv
<1>3. LifecycleInv => LifecycleTypeOK
  BY DEF LifecycleInv
<1> QED BY <1>1, <1>2, <1>3, PTL DEF LifecycleSpec

-----------------------------------------------------------------------------
(* The safety properties.  NoLostOptions holds for any managers; the others *)
(* for managers whose requests do not overlap, when no snapshot is stale.   *)

\* One manager at most, so that no two requests are ever in flight together.
SerialManagers == \A x, y \in Managers : x = y

\* No request body carries the status, as the forms of the clients do not.
NoStatusInBodies == \A c \in Bodies \cup Patches : "status" \notin DOMAIN c

-----------------------------------------------------------------------------
(* The shape of a step, seen from a request and from a document.            *)

\* Request m holds a snapshot of the document it names.
Holds(r) == r.kind # "create" /\ r.phase \in {"decide", "save"}

\* A request that holds a snapshot either kept it or has just read it.
LEMMA RequestStep ==
    ASSUME LifecycleInv, LifecycleNext, NEW m \in Managers, Holds(req'[m])
    PROVE  \/ req'[m] = req[m]
           \/ /\ req[m].phase = "decide"
              /\ req'[m] = [req[m] EXCEPT !.phase = "save"]
              /\ Decide(m)
              /\ UNCHANGED docs
           \/ /\ FindElection(m)
              /\ req'[m].snap = docs[req'[m].election]
              /\ req'[m].phase = "decide"
              /\ UNCHANGED docs
<1>1. req \in [Managers -> Request]
  BY DEF LifecycleInv, LifecycleTypeOK
<1>2. CASE Tick
  BY <1>2 DEF Tick
<1>3. ASSUME NEW x \in Managers, ManagerStep(x), x # m
      PROVE  req'[m] = req[m]
  BY <1>1, <1>3 DEF ManagerStep, Submit, Serve, Save, BeginCreate, BeginUpdate, BeginStatus,
     BeginArchive, Begin, FindElection, Decide, InsertElection, SaveElection,
     SaveConflict, SaveFails, AuditElectionAction, Lose, AfterWrite, Answer, Advance
<1>4. ASSUME \E reply \in Reply : Answer(m, reply)
      PROVE  FALSE
  BY <1>1, <1>4 DEF Answer, Holds
<1>5. ~Submit(m)
  BY <1>1 DEF Submit, BeginCreate, BeginUpdate, BeginStatus, BeginArchive, Begin, Holds
<1>6. ASSUME FindElection(m)
      PROVE  /\ req'[m].snap = docs[req'[m].election]
             /\ req'[m].phase = "decide"
             /\ UNCHANGED docs
  BY <1>1, <1>4, <1>6 DEF FindElection, Reply, Request
<1>7. ASSUME Decide(m)
      PROVE  /\ req[m].phase = "decide"
             /\ req'[m] = [req[m] EXCEPT !.phase = "save"]
             /\ UNCHANGED docs
  BY <1>1, <1>4, <1>7 DEF Decide, Reply, Advance
<1>8. ASSUME req'[m].phase = "audit"
      PROVE  FALSE
  BY <1>8 DEF Holds
<1>9. ~InsertElection(m) /\ ~SaveElection(m)
  <2>1. ASSUME NEW e, req' = [req EXCEPT ![m].phase = "audit", ![m].election = e]
        PROVE  req'[m].phase = "audit"
    BY <1>1, <2>1 DEF Request
  <2>2. Advance(m, "audit") => req'[m].phase = "audit"
    BY <1>1 DEF Advance, Request
  <2>3. ~InsertElection(m)
    BY <1>4, <1>8, <2>1 DEF InsertElection, Reply
  <2> QED BY <1>4, <1>8, <2>2, <2>3 DEF SaveElection, AfterWrite, Reply
<1>10. ~(SaveConflict(m) \/ SaveFails(m) \/ AuditElectionAction(m) \/ Lose(m))
  BY <1>4 DEF SaveConflict, SaveFails, AuditElectionAction, Lose, Reply
<1> QED
  BY <1>2, <1>3, <1>5, <1>6, <1>7, <1>9, <1>10
  DEF LifecycleNext, ManagerStep, Serve, Save

\* A document changes when it is inserted, or when a save that names it lands.
LEMMA DocumentStep ==
    ASSUME LifecycleInv, LifecycleNext, NEW e \in Elections, docs'[e] # docs[e]
    PROVE  \E m \in Managers :
              \/ /\ InsertElection(m)
                 /\ docs[e].status = "absent"
                 /\ docs'[e] = NewDoc(req[m].change, m)
              \/ /\ SaveElection(m)
                 /\ e = req[m].election
                 /\ docs'[e] = Saved(docs[e], req[m])
<1>1. docs \in [Elections -> Doc] /\ req \in [Managers -> Request]
  BY DEF LifecycleInv, LifecycleTypeOK
<1>2. PICK m \in Managers : ManagerStep(m)
  BY DEF LifecycleNext, Tick
<1>3. InsertElection(m) \/ SaveElection(m)
  BY <1>2 DEF ManagerStep, Submit, Serve, Save, BeginCreate, BeginUpdate, BeginStatus,
     BeginArchive, Begin, FindElection, Decide, SaveConflict, SaveFails,
     AuditElectionAction, Lose
<1>4. CASE InsertElection(m)
  <2>1. PICK x \in Elections :
           docs[x].status = "absent" /\ Put(x, NewDoc(req[m].change, m))
    BY <1>4 DEF InsertElection
  <2>2. x = e
    BY <1>1, <2>1 DEF Put
  <2> QED BY <1>1, <1>4, <2>1, <2>2 DEF Put
<1>5. CASE SaveElection(m)
  <2>1. Put(req[m].election, Saved(docs[req[m].election], req[m]))
    BY <1>5 DEF SaveElection
  <2>2. req[m].election = e
    BY <1>1, <2>1 DEF Put
  <2> QED BY <1>1, <1>5, <2>1, <2>2 DEF Put
<1> QED BY <1>3, <1>4, <1>5

-----------------------------------------------------------------------------
(* NoLostOptions, for any managers.                                         *)

\* No request body carries the version of the document.
NoVersionInBodies == \A c \in Bodies \cup Patches : "v" \notin DOMAIN c

\* The version a snapshot carries tells whether its options are still current.
VersionPinsOptions(r, ds) ==
    Holds(r) =>
        /\ r.snap.v <= ds[r.election].v
        /\ r.snap.v = ds[r.election].v => r.snap.options = ds[r.election].options

PinInv == LifecycleInv /\ \A m \in Managers : VersionPinsOptions(req[m], docs)

\* The version of a stored document only grows, and grows with each new array.
LEMMA VersionsGrow ==
    ASSUME NoVersionInBodies, LifecycleInv, LifecycleNext, NEW e \in Elections,
           docs[e].status # "absent"
    PROVE  /\ docs[e].v <= docs'[e].v
           /\ docs[e].v = docs'[e].v => docs'[e].options = docs[e].options
<1>1. docs[e] \in Doc /\ req \in [Managers -> Request]
  BY DEF LifecycleInv, LifecycleTypeOK
<1>2. CASE docs'[e] = docs[e]
  BY <1>1, <1>2 DEF Doc
<1>3. CASE docs'[e] # docs[e]
  <2>1. PICK m \in Managers : docs'[e] = Saved(docs[e], req[m])
    BY <1>3, DocumentStep
  <2>2. "options" \in CRITICAL_OPEN_FIELDS
    BY DEF CRITICAL_OPEN_FIELDS
  <2> DEFINE new == "options" \in Modified(req[m].snap, req[m].change)
  <2>3. "v" \notin DOMAIN req[m].change
    BY <1>1 DEF Request, Changes, NoVersionInBodies
  <2>4. /\ docs'[e].v = IF new THEN docs[e].v + 1 ELSE docs[e].v
        /\ ~new => docs'[e].options = docs[e].options
    BY <1>1, <2>1, <2>2, <2>3, SavedType DEF Modified
  <2>5. docs[e].v \in Nat
    BY <1>1 DEF Doc
  <2> QED BY <2>4, <2>5
<1> QED BY <1>2, <1>3

\* The version pins the options, at any time and for any request in flight.
LEMMA PinInvInductive ==
    ASSUME NoVersionInBodies PROVE PinInv /\ [LifecycleNext]_lifecycleVars => PinInv'
<1> SUFFICES ASSUME PinInv, [LifecycleNext]_lifecycleVars PROVE PinInv'
  OBVIOUS
<1>1. LifecycleInv /\ LifecycleInv'
  BY LifecycleStepKeepsInv DEF PinInv
<1>2. CASE UNCHANGED lifecycleVars
  BY <1>1, <1>2 DEF lifecycleVars, PinInv, VersionPinsOptions, Holds
<1>3. ASSUME LifecycleNext, NEW m \in Managers, Holds(req'[m])
      PROVE  VersionPinsOptions(req'[m], docs')
  <2> DEFINE r == req[m]
             e == req'[m].election
  <2>1. /\ r \in Request /\ RequestOK(r, docs) /\ VersionPinsOptions(r, docs)
        /\ req'[m] \in Request /\ RequestOK(req'[m], docs')
        /\ docs \in [Elections -> Doc] /\ docs' \in [Elections -> Doc]
    BY <1>1 DEF LifecycleInv, LifecycleTypeOK, PinInv
  <2>2. e \in Elections
    BY <1>3, <2>1 DEF RequestOK, Holds
  <2>3. CASE req'[m] = r
    <3>1. docs[e].status # "absent"
      BY <1>3, <2>1, <2>3 DEF RequestOK, Holds
    <3>2. /\ docs[e].v <= docs'[e].v
          /\ docs[e].v = docs'[e].v => docs'[e].options = docs[e].options
      BY <1>1, <1>3, <2>2, <3>1, VersionsGrow
    <3>3. r.snap.v \in Nat /\ docs[e].v \in Nat /\ docs'[e].v \in Nat
      BY <2>1, <2>2 DEF Request, Doc
    <3>4. /\ r.snap.v <= docs[e].v
          /\ r.snap.v = docs[e].v => r.snap.options = docs[e].options
      BY <1>3, <2>1, <2>3 DEF VersionPinsOptions
    <3> QED BY <2>3, <3>2, <3>3, <3>4 DEF VersionPinsOptions
  <2>4. CASE /\ r.phase = "decide"
             /\ req'[m] = [r EXCEPT !.phase = "save"]
             /\ UNCHANGED docs
    BY <1>3, <2>1, <2>4 DEF VersionPinsOptions, Holds, Request
  <2>5. CASE req'[m].snap = docs[e] /\ UNCHANGED docs
    BY <2>1, <2>2, <2>5 DEF VersionPinsOptions, Doc
  <2> QED BY <1>1, <1>3, <2>3, <2>4, <2>5, RequestStep
<1>4. ASSUME LifecycleNext
      PROVE  \A m \in Managers : VersionPinsOptions(req'[m], docs')
  BY <1>3, <1>4 DEF VersionPinsOptions
<1> QED BY <1>1, <1>2, <1>4 DEF PinInv

LEMMA InitPinInv == Init => PinInv
BY InitLifecycleInv DEF Init, PinInv, VersionPinsOptions, Holds, NoRequest

\* A save that replaces the options replaces those its request has read, for any
\* managers whose bodies carry no version of their own.
THEOREM OptionsNeverLost == ASSUME NoVersionInBodies PROVE LifecycleSpec => NoLostOptions
<1> DEFINE Safe(m) ==
       SaveElection(m) /\ docs'[req[m].election].options # docs[req[m].election].options
           => docs[req[m].election].options = req[m].snap.options
<1>1. ASSUME PinInv, NEW m \in Managers, SaveElection(m),
             docs'[req[m].election].options # docs[req[m].election].options
      PROVE  docs[req[m].election].options = req[m].snap.options
  <2> DEFINE e == req[m].election
  <2>1. /\ req[m] \in Request /\ RequestOK(req[m], docs) /\ Holds(req[m])
        /\ docs \in [Elections -> Doc]
    BY <1>1 DEF PinInv, LifecycleInv, LifecycleTypeOK, SaveElection, Holds
  <2>2. e \in Elections
    BY <2>1 DEF RequestOK, Holds
  <2>3. docs'[e] = Saved(docs[e], req[m])
    BY <1>1, <2>1, <2>2 DEF SaveElection, Put
  <2>4. "options" \in Modified(req[m].snap, req[m].change)
    BY <1>1, <2>1, <2>2, <2>3, SavedType DEF CRITICAL_OPEN_FIELDS
  <2>5. "v" \notin DOMAIN req[m].change /\ req[m].snap \in Doc
    BY <2>1 DEF Request, Changes, NoVersionInBodies
  <2>6. docs[e].v = req[m].snap.v
    BY <1>1, <2>4, <2>5 DEF SaveElection, VersionMatches, Assign, Doc
  <2> QED BY <1>1, <2>1, <2>6 DEF PinInv, VersionPinsOptions
<1>2. PinInv => [\A m \in Managers : Safe(m)]_lifecycleVars
  BY <1>1
<1>3. Init => PinInv
  BY InitPinInv
<1>4. PinInv /\ [LifecycleNext]_lifecycleVars => PinInv'
  BY PinInvInductive
<1> QED BY <1>2, <1>3, <1>4, PTL DEF LifecycleSpec, NoLostOptions

-----------------------------------------------------------------------------
(* One request at a time: the snapshot is current until its save.           *)

Current(r, ds) == Holds(r) => r.snap = ds[r.election]

\* What Decide has checked of a request about to be saved.
Checked(r, m) ==
    r.phase = "save" =>
        /\ r.kind = "create" => /\ validateElectionWindow(NewDoc(r.change, m))
                                /\ assertSelectionLimit(NewDoc(r.change, m))
        /\ r.kind = "update" => EditAllowed(r.snap, r.change)
        /\ r.kind = "status" => r.change.status \in ELECTION_TRANSITIONS[r.snap.status]
        /\ r.kind = "archive" => r.snap.status # "archived"

CheckedInv == LifecycleInv /\ \A m \in Managers : Checked(req[m], m)
SerialInv == CheckedInv /\ \A m \in Managers : Current(req[m], docs)

\* A request is about to be saved only if it passed the checks on its snapshot.
LEMMA CheckedInvInductive == CheckedInv /\ [LifecycleNext]_lifecycleVars => CheckedInv'
<1> SUFFICES ASSUME CheckedInv, [LifecycleNext]_lifecycleVars PROVE CheckedInv'
  OBVIOUS
<1>1. LifecycleInv /\ LifecycleInv'
  BY LifecycleStepKeepsInv DEF CheckedInv
<1>2. CASE UNCHANGED lifecycleVars
  BY <1>1, <1>2 DEF lifecycleVars, CheckedInv
<1>3. ASSUME NEW m \in Managers, Decide(m), Advance(m, "save")
      PROVE  Checked(req'[m], m)
  <2> DEFINE r == req[m]
  <2>1. r \in Request /\ RequestOK(r, docs) /\ req \in [Managers -> Request]
    BY <1>1 DEF LifecycleInv, LifecycleTypeOK
  <2>2. req'[m] = [r EXCEPT !.phase = "save"]
    BY <1>3, <2>1 DEF Advance
  <2>3. ~AlreadyThere(r) /\ Accepted(r, m, now)
    BY <1>3, <2>1, <2>2 DEF Decide, Answer, Request
  <2>4. r.kind = "archive" => r.snap.status # "archived"
    BY <2>1, <2>3 DEF AlreadyThere, RequestOK
  <2>5. r.kind = "status" => r.change.status \in ELECTION_TRANSITIONS[r.snap.status]
    BY <2>3 DEF Accepted, TransitionAllowed
  <2>6. /\ r.kind = "create" => /\ validateElectionWindow(NewDoc(r.change, m))
                                /\ assertSelectionLimit(NewDoc(r.change, m))
        /\ r.kind = "update" => EditAllowed(r.snap, r.change)
    BY <2>3 DEF Accepted
  <2> QED BY <2>1, <2>2, <2>4, <2>5, <2>6 DEF Checked, Request
<1>4. ASSUME LifecycleNext, NEW m \in Managers, req'[m].phase = "save"
      PROVE  req'[m] = req[m] \/ (Decide(m) /\ Advance(m, "save"))
  <2>1. req \in [Managers -> Request]
    BY <1>1 DEF LifecycleInv, LifecycleTypeOK
  <2>2. CASE Tick
    BY <2>2 DEF Tick
  <2>3. ASSUME NEW x \in Managers, ManagerStep(x), x # m
        PROVE  req'[m] = req[m]
    BY <2>1, <2>3 DEF ManagerStep, Submit, Serve, Save, BeginCreate, BeginUpdate,
       BeginStatus, BeginArchive, Begin, FindElection, Decide, InsertElection,
       SaveElection, SaveConflict, SaveFails, AuditElectionAction, Lose, AfterWrite,
       Answer, Advance
  <2>4. ASSUME ManagerStep(m)
        PROVE  Decide(m) /\ Advance(m, "save")
    <3>1. ~Submit(m)
      BY <1>4, <2>1 DEF Submit, BeginCreate, BeginUpdate, BeginStatus, BeginArchive, Begin
    <3>2. ASSUME NEW reply, Answer(m, reply)
          PROVE  FALSE
      BY <1>4, <2>1, <3>2 DEF Answer, Request
    <3>3. ASSUME NEW e, req' = [req EXCEPT ![m].phase = "audit", ![m].election = e]
          PROVE  FALSE
      BY <1>4, <2>1, <3>3 DEF Request
    <3>4. ~Advance(m, "audit")
      BY <1>4, <2>1 DEF Advance, Request
    <3>5. req' # [req EXCEPT ![m].phase = "decide", ![m].snap = docs[req[m].election]]
      BY <1>4, <2>1 DEF Request
    <3>6. ~InsertElection(m)
      BY <3>2, <3>3 DEF InsertElection
    <3>7. ~SaveElection(m) /\ ~FindElection(m)
      BY <3>2, <3>4, <3>5 DEF SaveElection, AfterWrite, FindElection
    <3>8. ~(SaveConflict(m) \/ SaveFails(m) \/ AuditElectionAction(m) \/ Lose(m))
      BY <3>2 DEF SaveConflict, SaveFails, AuditElectionAction, Lose
    <3>9. Decide(m)
      BY <2>4, <3>1, <3>6, <3>7, <3>8 DEF ManagerStep, Serve, Save
    <3> QED BY <3>2, <3>9 DEF Decide
  <2> QED BY <1>4, <2>2, <2>3, <2>4 DEF LifecycleNext
<1>5. ASSUME LifecycleNext
      PROVE  \A m \in Managers : Checked(req'[m], m)
  <2> SUFFICES ASSUME NEW m \in Managers, req'[m].phase = "save"
               PROVE  Checked(req'[m], m)
    BY DEF Checked
  <2> QED BY <1>3, <1>4, <1>5 DEF CheckedInv
<1> QED BY <1>1, <1>2, <1>5 DEF CheckedInv

\* Without a second request, nothing moves the document under a snapshot.
LEMMA SerialInvInductive ==
    ASSUME SerialManagers, SerialInv, [LifecycleNext]_lifecycleVars
    PROVE  SerialInv'
<1>1. CheckedInv' /\ LifecycleInv /\ LifecycleInv'
  BY CheckedInvInductive DEF SerialInv, CheckedInv
<1>2. CASE UNCHANGED lifecycleVars
  BY <1>1, <1>2 DEF lifecycleVars, SerialInv, Current, Holds
<1>3. ASSUME LifecycleNext, NEW m \in Managers, Holds(req'[m])
      PROVE  Current(req'[m], docs')
  <2> DEFINE r == req[m]
             e == req'[m].election
  <2>1. /\ r \in Request /\ RequestOK(r, docs) /\ Current(r, docs)
        /\ req \in [Managers -> Request]
    BY <1>1 DEF LifecycleInv, LifecycleTypeOK, SerialInv
  <2>2. CASE req'[m] = r
    <3>1. e \in Elections /\ docs[e].status # "absent"
      BY <1>3, <2>1, <2>2 DEF RequestOK, Holds
    <3>2. ~SaveElection(m)
      <4>1. Advance(m, "audit") => req'[m].phase = "audit"
        BY <2>1 DEF Advance, Request
      <4>2. Answer(m, "error") => req'[m].phase = "idle"
        BY <2>1 DEF Answer, Request
      <4> QED BY <1>3, <4>1, <4>2 DEF SaveElection, AfterWrite, Holds
    <3>3. docs'[e] = docs[e]
      BY <1>1, <1>3, <3>1, <3>2, DocumentStep DEF SerialManagers
    <3> QED BY <1>3, <2>1, <2>2, <3>3 DEF Current
  <2>3. CASE /\ r.phase = "decide"
             /\ req'[m] = [r EXCEPT !.phase = "save"]
             /\ UNCHANGED docs
    BY <1>3, <2>1, <2>3 DEF Current, Holds, Request
  <2>4. CASE req'[m].snap = docs[e] /\ UNCHANGED docs
    BY <2>4 DEF Current
  <2> QED BY <1>1, <1>3, <2>2, <2>3, <2>4, RequestStep
<1>4. ASSUME LifecycleNext
      PROVE  \A m \in Managers : Current(req'[m], docs')
  BY <1>3, <1>4 DEF Current
<1> QED BY <1>1, <1>2, <1>4 DEF SerialInv

LEMMA InitSerialInv == Init => SerialInv
BY InitLifecycleInv DEF Init, SerialInv, CheckedInv, Current, Checked, Holds, NoRequest

\* What one manager at a time does to a document that exists.
LEMMA SerialSave ==
    ASSUME SerialInv, LifecycleNext, NEW e \in Elections,
           docs[e].status # "absent", docs'[e] # docs[e]
    PROVE  \E m \in Managers :
              /\ req[m].phase = "save" /\ req[m].kind # "create"
              /\ req[m] \in Request /\ RequestOK(req[m], docs) /\ Checked(req[m], m)
              /\ req[m].snap = docs[e]
              /\ docs'[e] = Saved(docs[e], req[m])
<1>1. LifecycleInv
  BY DEF SerialInv, CheckedInv
<1>2. PICK m \in Managers :
         SaveElection(m) /\ e = req[m].election /\ docs'[e] = Saved(docs[e], req[m])
  BY <1>1, DocumentStep
<1>3. req[m].phase = "save" /\ req[m].kind # "create"
  BY <1>2 DEF SaveElection
<1>4. req[m].snap = docs[e]
  BY <1>2, <1>3 DEF SerialInv, Current, Holds
<1> QED BY <1>1, <1>2, <1>3, <1>4 DEF SerialInv, CheckedInv, LifecycleInv, LifecycleTypeOK

\* A save made on the stored document assigns what the request asks for.
LEMMA SavedIsAssigned ==
    ASSUME NEW r \in Request, NEW f \in CRITICAL_OPEN_FIELDS \cup {"status"}
    PROVE  Saved(r.snap, r)[f] = Assign(r.snap, r.change)[f]
<1>1. IsChange(r.change) /\ r.snap \in Doc
  BY ChangeWellFormed DEF Request
<1>2. f \in DOMAIN r.snap /\ f # "v"
  BY <1>1 DEF Doc, CRITICAL_OPEN_FIELDS
<1> QED BY <1>2 DEF Saved, Assign, Modified

\* With one request at a time, every stored election has a usable window and a
\* selection limit within its options, although an update checks one document
\* and the write sends part of it.
THEOREM SerialElectionsValid ==
    ASSUME SerialManagers PROVE LifecycleSpec => []StoredElectionsValid
<1> DEFINE Valid(d) == validateElectionWindow(d) /\ assertSelectionLimit(d)
<1>1. Init => SerialInv /\ StoredElectionsValid
  BY InitSerialInv DEF Init, StoredElectionsValid, Exists, NoDoc
<1>2. SerialInv /\ StoredElectionsValid /\ [LifecycleNext]_lifecycleVars
        => (SerialInv /\ StoredElectionsValid)'
  <2> SUFFICES ASSUME SerialInv, StoredElectionsValid, [LifecycleNext]_lifecycleVars
               PROVE  (SerialInv /\ StoredElectionsValid)'
    OBVIOUS
  <2>1. SerialInv'
    BY SerialInvInductive
  <2>2. ASSUME LifecycleNext, NEW e \in Elections, docs'[e] # docs[e],
               docs[e].status = "absent"
        PROVE  Valid(docs'[e])
    <3>1. LifecycleInv
      BY DEF SerialInv, CheckedInv
    <3>2. ~\E m \in Managers : SaveElection(m) /\ e = req[m].election
      BY <2>2, <3>1 DEF SaveElection, LifecycleInv, RequestOK
    <3>3. PICK m \in Managers :
             InsertElection(m) /\ docs'[e] = NewDoc(req[m].change, m)
      BY <2>2, <3>1, <3>2, DocumentStep
    <3> QED BY <3>3 DEF InsertElection, SerialInv, CheckedInv, Checked
  <2>3. ASSUME LifecycleNext, NEW e \in Elections, docs'[e] # docs[e],
               docs[e].status # "absent"
        PROVE  Valid(docs'[e])
    <3>1. PICK m \in Managers :
             /\ req[m].phase = "save" /\ req[m].kind # "create"
             /\ req[m] \in Request /\ RequestOK(req[m], docs) /\ Checked(req[m], m)
             /\ req[m].snap = docs[e]
             /\ docs'[e] = Saved(docs[e], req[m])
      BY <2>3, SerialSave
    <3>2. \A f \in CRITICAL_OPEN_FIELDS : docs'[e][f] = Assign(docs[e], req[m].change)[f]
      BY <3>1, SavedIsAssigned
    <3>3. /\ docs'[e].options = Assign(docs[e], req[m].change).options
          /\ docs'[e].maxSelections = Assign(docs[e], req[m].change).maxSelections
          /\ docs'[e].startsAt = Assign(docs[e], req[m].change).startsAt
          /\ docs'[e].endsAt = Assign(docs[e], req[m].change).endsAt
      BY <3>2 DEF CRITICAL_OPEN_FIELDS
    <3>4. Valid(Assign(docs[e], req[m].change))
      <4>1. CASE req[m].kind = "update"
        BY <3>1, <4>1 DEF Checked, EditAllowed
      <4>2. CASE req[m].kind \in {"status", "archive"}
        <5>1. DOMAIN req[m].change = {"status"}
          BY <3>1, <4>2 DEF RequestOK
        <5>2. docs[e] \in Doc
          BY DEF SerialInv, CheckedInv, LifecycleInv, LifecycleTypeOK
        <5>3. \A f \in CRITICAL_OPEN_FIELDS :
                 Assign(docs[e], req[m].change)[f] = docs[e][f]
          BY <5>1, <5>2 DEF Assign, Doc, CRITICAL_OPEN_FIELDS
        <5>4. Valid(docs[e])
          BY <2>3 DEF StoredElectionsValid, Exists
        <5> QED
          BY <5>3, <5>4 DEF CRITICAL_OPEN_FIELDS, validateElectionWindow, assertSelectionLimit
      <4> QED BY <3>1, <4>1, <4>2 DEF Request, Kind
    <3> QED BY <3>3, <3>4 DEF validateElectionWindow, assertSelectionLimit
  <2>4. CASE UNCHANGED docs
    BY <2>1, <2>4 DEF StoredElectionsValid, Exists
  <2>5. CASE LifecycleNext
    BY <2>1, <2>2, <2>3, <2>5 DEF StoredElectionsValid, Exists
  <2> QED BY <2>4, <2>5 DEF lifecycleVars
<1> QED BY <1>1, <1>2, PTL DEF LifecycleSpec

\* With one request at a time, no step touches a critical field of an election
\* past its opening.
LEMMA SerialStepLocks ==
    ASSUME SerialInv, LifecycleNext, NEW e \in Elections,
           docs[e].status \in PastOpening, NEW f \in CRITICAL_OPEN_FIELDS
    PROVE  docs'[e][f] = docs[e][f]
<1> SUFFICES ASSUME docs'[e] # docs[e] PROVE docs'[e][f] = docs[e][f]
  OBVIOUS
<1>1. docs[e].status # "absent" /\ docs[e] \in Doc
  BY DEF PastOpening, SerialInv, CheckedInv, LifecycleInv, LifecycleTypeOK
<1>2. PICK m \in Managers :
         /\ req[m].phase = "save" /\ req[m].kind # "create"
         /\ req[m] \in Request /\ RequestOK(req[m], docs) /\ Checked(req[m], m)
         /\ req[m].snap = docs[e]
         /\ docs'[e] = Saved(docs[e], req[m])
  BY <1>1, SerialSave
<1>3. f \notin DOMAIN req[m].change
  <2>1. CASE req[m].kind = "update"
    BY <1>2, <2>1 DEF Checked, EditAllowed, PastOpening
  <2>2. CASE req[m].kind \in {"status", "archive"}
    BY <1>2, <2>2 DEF RequestOK, CRITICAL_OPEN_FIELDS
  <2> QED BY <1>2, <2>1, <2>2 DEF Request, Kind
<1>4. f \in DOMAIN docs[e]
  BY <1>1 DEF Doc, CRITICAL_OPEN_FIELDS
<1>5. docs'[e][f] = Assign(docs[e], req[m].change)[f]
  BY <1>2, SavedIsAssigned
<1>6. Assign(docs[e], req[m].change)[f] = docs[e][f]
  BY <1>3, <1>4 DEF Assign
<1> QED BY <1>5, <1>6

\* With one request at a time and no status in the bodies, a step that moves an
\* election follows the table.
LEMMA SerialStepLegal ==
    ASSUME NoStatusInBodies, SerialInv, LifecycleNext, NEW e \in Elections,
           docs'[e].status # docs[e].status
    PROVE  IF Exists(e) THEN docs'[e].status \in ELECTION_TRANSITIONS[docs[e].status]
                        ELSE docs'[e].status = "draft"
<1>1. LifecycleInv /\ docs[e] \in Doc
  BY DEF SerialInv, CheckedInv, LifecycleInv, LifecycleTypeOK
<1>2. CASE docs[e].status = "absent"
  <2>1. ~\E m \in Managers : SaveElection(m) /\ e = req[m].election
    BY <1>1, <1>2 DEF SaveElection, LifecycleInv, RequestOK
  <2>2. PICK m \in Managers :
           InsertElection(m) /\ docs'[e] = NewDoc(req[m].change, m)
    BY <1>1, <2>1, DocumentStep
  <2>3. "status" \notin DOMAIN req[m].change
    BY <1>1, <2>2 DEF InsertElection, LifecycleInv, RequestOK, NoStatusInBodies
  <2> QED BY <1>2, <2>2, <2>3 DEF NewDoc, Assign, NoDoc, Exists
<1>3. CASE docs[e].status # "absent"
  <2>1. PICK m \in Managers :
           /\ req[m].phase = "save" /\ req[m].kind # "create"
           /\ req[m] \in Request /\ RequestOK(req[m], docs) /\ Checked(req[m], m)
           /\ req[m].snap = docs[e]
           /\ docs'[e] = Saved(docs[e], req[m])
    BY <1>3, SerialSave
  <2>2. docs'[e].status = Assign(docs[e], req[m].change).status
    BY <2>1, SavedIsAssigned
  <2>3. "status" \in DOMAIN req[m].change /\ docs'[e].status = req[m].change.status
    BY <1>1, <2>2 DEF Assign, Doc
  <2>4. req[m].kind # "update"
    BY <2>1, <2>3 DEF RequestOK, NoStatusInBodies
  <2>5. CASE req[m].kind = "status"
    BY <1>3, <2>1, <2>3, <2>5 DEF Checked, Exists
  <2>6. CASE req[m].kind = "archive"
    <3>1. docs'[e].status = "archived" /\ docs[e].status # "archived"
      BY <2>1, <2>3, <2>6 DEF RequestOK, Checked
    <3>2. docs[e].status \in {"draft", "published", "open", "closed"}
      BY <1>1, <1>3, <3>1 DEF Doc, Status
    <3>3. "archived" \in ELECTION_TRANSITIONS[docs[e].status]
      BY <3>2 DEF ELECTION_TRANSITIONS
    <3> QED BY <1>3, <3>1, <3>3 DEF Exists
  <2> QED BY <2>1, <2>4, <2>5, <2>6 DEF Request, Kind
<1> QED BY <1>2, <1>3

\* With one request at a time, no save touches the options, the window or the
\* limit of an election from its opening on.
THEOREM SerialCriticalFieldsLocked ==
    ASSUME SerialManagers PROVE LifecycleSpec => CriticalFieldsLocked
<1>1. Init => SerialInv
  BY InitSerialInv
<1>2. SerialInv /\ [LifecycleNext]_lifecycleVars => SerialInv'
  BY SerialInvInductive
<1>3. SerialInv /\ [LifecycleNext]_lifecycleVars
        => [\A e \in Elections : docs[e].status \in PastOpening =>
               \A f \in CRITICAL_OPEN_FIELDS : docs'[e][f] = docs[e][f]]_docs
  BY SerialStepLocks DEF lifecycleVars
<1> QED BY <1>1, <1>2, <1>3, PTL DEF LifecycleSpec, CriticalFieldsLocked

\* With one request at a time and no status in the bodies, an election only goes
\* through the transitions of the table, from draft on.
THEOREM SerialLifecycleLegal ==
    ASSUME SerialManagers, NoStatusInBodies PROVE LifecycleSpec => LifecycleLegal
<1>1. Init => SerialInv
  BY InitSerialInv
<1>2. SerialInv /\ [LifecycleNext]_lifecycleVars => SerialInv'
  BY SerialInvInductive
<1>3. SerialInv /\ [LifecycleNext]_lifecycleVars
        => [\A e \in Elections : docs'[e].status # docs[e].status =>
               IF Exists(e) THEN docs'[e].status \in ELECTION_TRANSITIONS[docs[e].status]
                            ELSE docs'[e].status = "draft"]_docs
  BY SerialStepLegal DEF lifecycleVars
<1> QED BY <1>1, <1>2, <1>3, PTL DEF LifecycleSpec, LifecycleLegal

-----------------------------------------------------------------------------
(* The audit log, one request at a time.                                    *)

\* What the entry of a request that made its change says of the collection.
Backed(m) == AuditEntry(m)[2] # "updated" => AuditEntry(m) \in moves

TrailInv ==
    /\ SerialInv
    /\ TrailTruthful
    /\ \A m \in Managers : req[m].phase = "audit" => Backed(m)

\* A write that a handler goes on from made the move its entry is about.
LEMMA WriteIsBacked ==
    ASSUME SerialInv, NEW m \in Managers, InsertElection(m) \/ SaveElection(m),
           req'[m].phase = "audit"
    PROVE  Backed(m)'
<1>1. /\ LifecycleInv /\ req[m] \in Request /\ req \in [Managers -> Request]
      /\ docs \in [Elections -> Doc] /\ RequestOK(req[m], docs) /\ Checked(req[m], m)
  BY DEF SerialInv, CheckedInv, LifecycleInv, LifecycleTypeOK
<1>2. CASE InsertElection(m)
  <2>1. ~Answer(m, "error")
    BY <1>1 DEF Answer, Request
  <2>2. PICK e \in Elections :
           /\ docs[e].status = "absent"
           /\ Put(e, NewDoc(req[m].change, m))
           /\ req' = [req EXCEPT ![m].phase = "audit", ![m].election = e]
    BY <1>2, <2>1 DEF InsertElection
  <2>3. NewDoc(req[m].change, m).status \in Status
    BY <1>1, NewDocType DEF Request
  <2>4. <<e, "absent", NewDoc(req[m].change, m).status>> \in moves'
    BY <2>2, <2>3 DEF Put, Status
  <2>5. /\ req'[m].election = e /\ req'[m].kind = "create"
        /\ req'[m].change = req[m].change
    BY <1>1, <1>2, <2>2 DEF InsertElection, Request
  <2>6. AuditEntry(m)' = <<e, "absent", NewDoc(req[m].change, m).status>>
    BY <2>5 DEF AuditEntry
  <2> QED BY <2>4, <2>6 DEF Backed
<1>3. CASE SaveElection(m)
  <2> DEFINE r == req[m]
             e == r.election
  <2>1. ~Answer(m, "error")
    BY <1>1 DEF Answer, Request
  <2>2. /\ r.phase = "save" /\ r.kind # "create"
        /\ Put(e, Saved(docs[e], r))
        /\ req' = [req EXCEPT ![m].phase = "audit"]
    BY <1>3, <2>1 DEF SaveElection, AfterWrite, Advance
  <2>3. /\ e \in Elections /\ r.snap = docs[e]
    BY <1>1, <2>2 DEF SerialInv, Current, Holds, RequestOK
  <2>4. /\ req'[m].election = e /\ req'[m].kind = r.kind
        /\ req'[m].change = r.change /\ req'[m].snap = r.snap
    BY <1>1, <2>2 DEF Request
  <2>5. CASE r.kind = "update"
    BY <2>4, <2>5 DEF Backed, AuditEntry
  <2>6. CASE r.kind \in {"status", "archive"}
    <3>1. "status" \in DOMAIN r.change /\ r.change.status # docs[e].status
      <4>1. CASE r.kind = "status"
        <5>1. docs[e].status \in Status /\ r.change.status \in ELECTION_TRANSITIONS[docs[e].status]
          BY <1>1, <2>2, <2>3, <4>1 DEF Checked, RequestOK
        <5> QED BY <1>1, <4>1, <5>1 DEF RequestOK, ELECTION_TRANSITIONS, Status
      <4>2. CASE r.kind = "archive"
        BY <1>1, <2>2, <2>3, <4>2 DEF Checked, RequestOK
      <4> QED BY <2>6, <4>1, <4>2
    <3>2. Saved(docs[e], r).status = r.change.status
      BY <1>1, <2>3, <3>1, SavedType DEF Modified
    <3>3. <<e, docs[e].status, r.change.status>> \in moves'
      BY <2>2, <3>1, <3>2 DEF Put
    <3>4. AuditEntry(m)' = <<e, docs[e].status, r.change.status>>
      BY <2>3, <2>4, <2>6 DEF AuditEntry
    <3> QED BY <3>3, <3>4 DEF Backed
  <2> QED BY <1>1, <2>2, <2>5, <2>6 DEF Request, Kind
<1> QED BY <1>2, <1>3

\* Every other step leaves an entry about to be written as it is.
LEMMA OthersKeepBacked ==
    ASSUME TrailInv, LifecycleNext, NEW m \in Managers, req'[m].phase = "audit",
           ~(InsertElection(m) \/ SaveElection(m))
    PROVE  Backed(m)'
<1>1. req \in [Managers -> Request]
  BY DEF TrailInv, SerialInv, CheckedInv, LifecycleInv, LifecycleTypeOK
<1>2. CASE Tick
  BY <1>2 DEF Tick, TrailInv, Backed, AuditEntry
<1>3. ASSUME NEW x \in Managers, ManagerStep(x), x # m
      PROVE  req'[m] = req[m] /\ moves \subseteq moves'
  BY <1>1, <1>3 DEF ManagerStep, Submit, Serve, Save, BeginCreate, BeginUpdate, BeginStatus,
     BeginArchive, Begin, FindElection, Decide, InsertElection, SaveElection, Put,
     SaveConflict, SaveFails, AuditElectionAction, Lose, AfterWrite, Answer, Advance
<1>4. ~ManagerStep(m)
  <2>1. ASSUME NEW reply, Answer(m, reply)
        PROVE  FALSE
    BY <1>1, <2>1 DEF Answer, Request
  <2>2. ~Submit(m)
    BY <1>1 DEF Submit, BeginCreate, BeginUpdate, BeginStatus, BeginArchive, Begin
  <2>3. ~Advance(m, "save")
    BY <1>1 DEF Advance, Request
  <2>4. req' # [req EXCEPT ![m].phase = "decide", ![m].snap = docs[req[m].election]]
    BY <1>1 DEF Request
  <2> QED BY <2>1, <2>2, <2>3, <2>4 DEF ManagerStep, Serve, Save, FindElection, Decide,
     SaveConflict, SaveFails, AuditElectionAction, Lose
<1>5. ASSUME req'[m] = req[m], moves \subseteq moves'
      PROVE  Backed(m)'
  <2>1. Backed(m)
    BY <1>5 DEF TrailInv
  <2>2. AuditEntry(m)' = AuditEntry(m)
    BY <1>5 DEF AuditEntry
  <2> QED BY <1>5, <2>1, <2>2 DEF Backed
<1> QED BY <1>2, <1>3, <1>4, <1>5 DEF LifecycleNext

\* What is added to the log is the entry of a request that made its change.
LEMMA TrailStaysTruthful ==
    ASSUME TrailInv, LifecycleNext
    PROVE  TrailTruthful'
<1>1. moves \subseteq moves'
  BY DEF LifecycleNext, Tick, ManagerStep, Submit, Serve, Save, BeginCreate, BeginUpdate,
     BeginStatus, BeginArchive, Begin, FindElection, Decide, InsertElection, SaveElection,
     Put, SaveConflict, SaveFails, AuditElectionAction, Lose
<1>2. CASE trail' = trail
  BY <1>1, <1>2 DEF TrailInv, TrailTruthful
<1>3. CASE \E m \in Managers : AuditElectionAction(m)
  <2>1. PICK m \in Managers :
           req[m].phase = "audit" /\ trail' \subseteq trail \cup {AuditEntry(m)}
    BY <1>3 DEF AuditElectionAction
  <2>2. Backed(m)
    BY <2>1 DEF TrailInv
  <2> QED BY <1>1, <2>1, <2>2 DEF TrailInv, TrailTruthful, Backed
<1> QED BY <1>2, <1>3 DEF LifecycleNext, Tick, ManagerStep, Submit, Serve, Save, BeginCreate,
     BeginUpdate, BeginStatus, BeginArchive, Begin, FindElection, Decide, InsertElection,
     SaveElection, SaveConflict, SaveFails, Lose

\* With one request at a time, every status change the log tells of is one the
\* collection went through, whatever fails between the write and the entry.
THEOREM SerialTrailTruthful ==
    ASSUME SerialManagers PROVE LifecycleSpec => []TrailTruthful
<1>1. Init => TrailInv
  BY InitSerialInv DEF Init, TrailInv, TrailTruthful, NoRequest
<1>2. TrailInv /\ [LifecycleNext]_lifecycleVars => TrailInv'
  <2> SUFFICES ASSUME TrailInv, [LifecycleNext]_lifecycleVars PROVE TrailInv'
    OBVIOUS
  <2>1. SerialInv /\ SerialInv'
    BY SerialInvInductive DEF TrailInv
  <2>2. CASE UNCHANGED lifecycleVars
    BY <2>1, <2>2 DEF lifecycleVars, TrailInv, TrailTruthful, Backed, AuditEntry
  <2>3. CASE LifecycleNext
    <3>1. ASSUME NEW m \in Managers, req'[m].phase = "audit"
          PROVE  Backed(m)'
      BY <2>1, <2>3, <3>1, WriteIsBacked, OthersKeepBacked
    <3> QED BY <2>1, <2>3, <3>1, TrailStaysTruthful DEF TrailInv
  <2> QED BY <2>2, <2>3
<1>3. TrailInv => TrailTruthful
  BY DEF TrailInv
<1> QED BY <1>1, <1>2, <1>3, PTL DEF LifecycleSpec

=============================================================================

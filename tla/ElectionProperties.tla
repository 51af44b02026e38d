------------------------- MODULE ElectionProperties -------------------------
(***************************************************************************)
(* What the management side of an election promises.                       *)
(***************************************************************************)
EXTENDS ElectionLifecycle

\* Every variable holds what the code can put in it.
LifecycleTypeOK ==
    /\ now \in Time
    /\ docs \in [Elections -> Doc]
    /\ req \in [Managers -> Request]
    /\ moves \subseteq Elections \X (Status \cup {"absent"}) \X Status
    /\ trail \subseteq Elections \X (Status \cup {"absent", "updated"}) \X Status

Exists(e) == docs[e].status # "absent"
PastOpening == {"open", "closed", "archived"}

\* The collection only goes through the transitions of ELECTION_TRANSITIONS, and
\* a document starts as a draft, although the check is made on a snapshot and the
\* write names the document by its identifier alone (electionService.js:194-216).
LifecycleLegal ==
    [][\A e \in Elections : docs'[e].status # docs[e].status =>
          IF Exists(e) THEN docs'[e].status \in ELECTION_TRANSITIONS[docs[e].status]
                       ELSE docs'[e].status = "draft"]_docs

\* From the opening of an election on, no write changes what voters choose from
\* nor when, the lock being checked on a snapshot (electionService.js:157-173).
CriticalFieldsLocked ==
    [][\A e \in Elections : docs[e].status \in PastOpening =>
          \A f \in CRITICAL_OPEN_FIELDS : docs'[e][f] = docs[e][f]]_docs

\* Every stored election has a window and a selection limit its voters can use:
\* each update checks the pair it would produce from its own snapshot
\* (electionService.js:164-170), the write sends one half of it.
StoredElectionsValid ==
    \A e \in Elections : Exists(e) =>
        validateElectionWindow(docs[e]) /\ assertSelectionLimit(docs[e])

\* A save never overwrites an options array its request has not read, whoever
\* else edits the election, unless its body names a version itself: the version key
\* pins the array (electionService.js:172-173).
NoLostOptions ==
    [][\A m \in Managers :
          LET e == req[m].election
          IN  SaveElection(m) /\ docs'[e].options # docs[e].options =>
                docs[e].options = req[m].snap.options]_lifecycleVars

\* What the audit log says of a lifecycle change is a change the collection went
\* through: the entry is built from the snapshot, after the write has returned.
TrailTruthful == \A t \in trail : t[2] # "updated" => t \in moves

=============================================================================

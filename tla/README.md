# A verification of votehub-api

VoteHub is a REST API for polls: accounts with e-mail verification and a second
factor, elections run by administrators and poll creators, one vote per voter,
signed receipts, and a hash-chained audit log. It is a Node.js application over
MongoDB, run in several replicas. This directory holds TLA+ models of its core,
the TLC configurations that check them, and proofs checked by TLAPS.

Paths below are relative to the application's own `src/` unless they say
otherwise.

## 1. The system

### What makes it hard

A replica is one process with an event loop: a handler runs alone until its next
`await`, and between two awaits anything else may happen, in the same process or
in another. No operation of the program uses a transaction. What holds when
requests overlap rests on four mechanisms, and the models are about these:

* a document is read, checked in memory, and saved: the save sends *the fields
  that differ from the document that was read*, and its filter is the identifier
  alone, except when an array is replaced (then the version key `__v` is part of
  the filter, and is incremented);
* unique indexes (`User.email`, `Vote.election+voter`, `UsedToken.tokenHash+type`);
* the TTL indexes, whose monitor removes an expired document some time later;
* memory of one process (the promise chain of the audit log, the OTP limiter, the
  counters of the lockout, the scores and blocks of the risk service).

Operations may fail without being applied, or be applied and their answer lost;
a process may die between any two awaits; a client that got no answer tries again.

### Components

| Component | State | Operations | Interacts with |
|---|---|---|---|
| Elections (`services/electionService.js`) | collection of elections | create, update, change status, archive, list, results | audit log after each change; votes for results |
| Votes and receipts (`services/voteService.js`, `voteReceiptService.js`) | collection of votes | cast, verify a receipt | reads elections; consumes idempotency keys |
| Replay protection (`services/replayProtectionService.js`) | used tokens with expiry | assert unused, consume | votes, e-mail links, OTP challenges, step-up |
| Audit log (`services/auditLogService.js`) | collection of entries; one promise chain per process | append, list, verify | elections and security events append |
| E-mail verification (`services/emailVerificationService.js`) | links, account state | send, resend, verify | registration, login, mail provider |
| Second factor (`services/otpService.js`) | secret, pending secret, recovery codes, limiter | enrol, confirm, verify, disable | login, step-up, replay protection |
| Step-up (`services/adminStepUpService.js`, its middleware) | signed tokens | issue, consume before a sensitive action | second factor |
| Accounts and sessions (`services/authService.js`, `controllers/authController.js`) | users | register, login, default administrator, permission to create polls | all of the above |
| Lockout (`services/loginAttemptService.js`) | counters and locks in memory | guard, fail, succeed | login |
| Risk scoring (`services/riskScoringService.js`) | scores and blocks in memory | record, read | login, security events |
| Request filters (`middlewares/`) | none, or library counters | admit or refuse | every route |
| Logs, metrics, bootstrap, configuration | none | output; start-up checks | everything |

What makes each correct: elections follow the transition table, keep a usable
window and limit, do not change under their voters, and every change is audited;
a voter has one vote that fits its election, and what they are told about it is
true; the log of an honest system verifies, tells history in order, and betrays
what is altered under an entry that is not; an address is registered once and a link keeps its promise; a
token opens one door once and a recovery code is used once.

## 2. The modules

| Module | Models | Extends |
|---|---|---|
| `ElectionLifecycle` | the management side of elections | |
| `ElectionProperties` | its properties | `ElectionLifecycle` |
| `ElectionProofs` | its theorems | `ElectionProperties` |
| `Voting` | ballots, votes and keys, *composed with* the management of the election | `ElectionLifecycle` |
| `BallotBox` | *abstract*: what POST `/elections/:id/votes` promises | |
| `VotingProperties` | its properties; the mapping to `BallotBox` | `Voting` |
| `VotingProofs` | its theorems, and that it implements `BallotBox` | `VotingProperties`, `ElectionProofs`, `FiniteSums` |
| `AuditLog`, `AuditLogProperties`, `AuditLogProofs` | the audit log | |
| `AuditedLifecycle` | elections *composed with* the audit log of the process that serves them | `ElectionProperties`, an instance of `AuditLog` |
| `AuditedProofs` | its theorems | `AuditedLifecycle`, the elections' |
| `EmailVerification`, `EmailVerificationProperties`, `EmailVerificationProofs` | registration and verification links | |
| `SecondFactor`, `SecondFactorProperties`, `SecondFactorProofs` | the second factor, its tokens and step-up | |
| `LoginDefences`, `LoginDefencesProperties`, `LoginDefencesProofs` | lockout and risk scoring around login | the proofs, `FiniteSums` |
| `FiniteSums` | lemmas on sums, counts, maxima and powers, about no part of the program | |
| `MCElection`, `MCVoting`, `MCAudited`, `MCDefences` | small values for TLC | the properties |

A handler is a record (`req[m]`, `ballots[b]`, `req[r]`) whose `phase` says at
which await it stands and whose `snap` is the document it holds in memory. Every
step of a handler, from one await to the next, is an action; synchronous code
after an await belongs to the action of that step. Properties and proofs stand in
modules of their own; definitions named `X_...` with a comment `Mutant:` are forms
of `X` with a plausible mistake, kept to see that a property notices.

### Elections

`docs` is the collection, `NoDoc` stands for an identifier nothing is stored
under. `Begin*` is the arrival of a request, `FindElection` is
`ensureElectionExists`, `Decide` all the checks (made on the snapshot, the early
returns included), `Save` the write it awaits, with Mongoose's
rules (`Modified`, `Saved`, `VersionMatches`; `SaveConflict` is a `VersionError`),
and `AuditElectionAction` the awaited append. `Lose` is a process that dies or a
client that goes away. `moves` and `trail` record what the collection went
through and what the log says of it.

Abstractions: title and description are read by no guard, and
`resultsVisibility` stands for the fields that may change until closing; `type`
is locked with the critical fields and left out. Option identifiers stand for
options. A body may carry every field the validators do not strip, the status, the
creator and the version `__v` among them; one with another `_id` than the document's
has its update refused, and is left out. A manager is an account that passes `requirePollCreator`, and has one
request in flight at a time; two requests of one person are two managers of
`Admins`. All replicas read the same clock, and it does not step back. A write a
dead process had sent is applied before its successor acts.

### Voting

`Next` interleaves the steps of `ElectionLifecycle` with those of ballots. A
ballot is one POST; a voter who retries sends another, with the same key or not.
`ConsumeKey` and `CreateVote` are the insertions into the two collections, under
their unique indexes; `SaveReceipt` is the second save. `ReceiptVerifies` is what
`verifyVoteReceiptForUser` reports. `getElectionResults` is two steps of a viewer's
request: `FindResults` reads the election, `CountVotes` the votes, and between them
everybody goes on; what it answers is kept in `reports`. The identifier of an option
comes from the client's array: `OptionId` may give two options the same one. Hashes, signatures and encryption are injective. Whether the unique
indexes exist is a parameter, `UniqueIndex`: `config/db.js:64` switches
`autoIndex` off in production and nothing else in the repository builds them, so
that a deployment has them only if someone created them by hand.

`BallotBox` says the same without tokens, indexes and saves: a set of ballots that
count, at most one of a voter in an election, none ever given back, and answers
that are true when given and stay true ("rejected" means *does not count*, a lost
or failed answer means nothing). The refinement mapping (`Box` in
`VotingProperties`) takes the stored votes for the box, the body of each ballot for
what was asked, and the reply of a finished ballot for what was told; a refusal
before the insertion and a replayed key are both "rejected". A step on an
election, a key or a digest is a stutter.

### Audit log

Each replica has a `queue`, the promise chain, whose head runs: `ReadLast`,
`Stamp` (the answer arrives, the timestamp and the hash are made), `Insert`.
`rejected` says that the chain is a rejected promise. Entries are sorted as both
queries sort them: by timestamp, then by `_id`, which orders entries of one
millisecond by process (`rank`) and within it by creation (`count`). `Edit` is
someone with access to the database who removes an entry, alters its content, or
alters it and computes its hash anew over any predecessor, at any time and
`MaxEdits` times. `sealed` records the log each append has read, if that log verified
in full.

### Elections with their audit log

`ElectionLifecycle` takes the append of an entry for one step. `AuditedLifecycle`
opens it: a handler that has saved its election chains an entry on the queue of the
process (`RequestEntry`), the process runs the queue (`RunQueue`, every action of
`AuditLog`), and the handler goes on when the promise of its entry settles
(`EntrySettled`). `RestartServer` is the death of the process, which takes queue
and handlers along. `contents` says what each entry is about, so the variable
`trail` is here nothing but the contents of the stored entries. Security events
append to the same queue and nobody awaits them; the entries of a second manager
stand for what a handler has to wait behind.

### E-mail verification

One address, with as many accounts as registrations get past the insertion: one if
the unique index on `User.email` was built (`UniqueIndex`), any number if not. A
request registers, asks for another message (`resend`, or a login
refused for want of verification), or visits a mailed link. Links are named by
the request that created them, and belong to the account it was for (`Owner`).
`ClearLinks`, `InsertLink` and `Mail` are the three
awaits of `sendVerificationEmail`; `FindLink` to `PurgeLinks` those of
`verifyEmailByToken`. Links and used tokens expire.

### Second factor

One account, a voter's or an administrator's, new or enrolled, with one challenge
outstanding. The requests are login, verification of a challenge, setup,
confirmation, disabling, step-up, and a sensitive request. A login reads the account
(`Find`) and decides on what it read (`Login`): the comparison of the password lies in
between. Whether the used tokens have their unique index is the parameter
`UniqueIndex`. The limit check and the
check of a code follow one another without I/O and are one step. `SpendCode`,
`StoreSecret` and `Disable` are saves under the rules above: an array brings the
version key into play, other fields are sent only if they differ from what was
read; `disableOtp` does not select the pending secret, and so always clears it. A TOTP
code is named by its secret: the time step is data.

### Login defences

One process and one client address: the keys of all three maps begin with the
address, and no process knows the maps of another. The services never await, so a
step of a handler reads and writes them at once: `SendLogin` is the middleware's
guard, for the e-mail address as it was typed (`asStored`: is it what
`normalizeEmail` makes of it?), `FailLogin` and `RightPassword` what follows the password check,
`WrongCode`, `RightCode` and `OpenSession` the second factor and the session. The
functions keep their names (`pruneWindow`, `calculateLockSeconds`,
`recordFailedLogin`, `getScoreEntry`, `recordRiskEvent`). `history` is what the
process has recorded since it started; the properties are told from it alone.

What the model makes plain about this code, and no property excludes:

* With the default settings the block of the risk service comes before the lock:
  seven failures of weight 10 reach 70, the limit of failures is 10.
* Attempts refused by the guard are not recorded: they prolong nothing.
* The guard runs before `normalizeEmail` (`authRoutes.js:40`,
  `authValidation.js:22`), so it looks up the address as it was typed, while failures
  are counted and locks set under the normalized one. Another spelling of a locked
  address (the dots of a gmail address, a sub-address) passes the lock of the account,
  and its success deletes it. The lock of the client address has no other spelling.
* `verify-login` passes no guard: a blocked address may still answer a challenge.
* A success clears the score of the account, never that of the address. That is
  why `GuessesRationed` holds: the counters are reset by any success, and the
  score of the address is what remains of the failures before it.
* An administrator's threshold is half the limit but at least 5, so with a
  `LOGIN_MAX_FAILED_ATTEMPTS` below 5, which the configuration accepts, it is
  laxer than a voter's, while `SECURITY.md` calls it stricter.

And of the second factor: a challenge may be answered at `/otp/setup` and then at
`/otp/verify-setup` whether or not the account has a secret. Whoever holds a password
and its challenge can so replace an existing secret without a code of it; the
properties speak of the secret that is stored.

## 3. What is checked

Twelve runs. In each, everything the bounds allow is explored.

| Run | Question | Result |
|---|---|---|
| `lifecycle_serial` | one manager after another, a database that fails, processes that die: legal, valid, locked, truthfully audited? | holds |
| `lifecycle_audited` | two managers on one process with its queue, a database that fails, a process that dies: is what was acknowledged logged, is what is logged true, are options lost, does every request end? | holds |
| `voting_managed` | two ballots and a request for the results while the election is edited, opened and closed: do votes fit, do results add up? | holds |
| `voting_retries` | retries with and without keys, everything fails, keys expire: one vote, receipts that verify, truthful refusals, a ballot box? | holds |
| `audit_single` | one process, failures, restarts, two edits behind its back: chain, order, verification, what it betrays; does every append settle? | holds |
| `email_verification` | four requests on one address, failures, expiry, indexes built | holds |
| `second_factor` | three requests on one account, failures, expiry, indexes built | holds |
| `login_defences` | three clients of one address guess and succeed on two accounts, restarts: are locks earned and held, does the risk match the events, are guesses rationed? | holds |
| `race_locked_fields` | one manager opens while another edits | violated |
| `status_in_update` | an update carries a status | violated |
| `audit_poisoned` | an append after a failed one | violated |
| `audit_two_replicas` | two replicas append at once | violated |

### The properties

* `LifecycleLegal`, `CriticalFieldsLocked`, `StoredElectionsValid`,
  `TrailTruthful`: with one manager at a time, whatever fails.
* `NoLostOptions`: a save never replaces an options array its request has not
  read. This one holds for concurrent managers, thanks to the version key. No body of
  the run carries a `__v`: `Object.assign` would take it, the filter of the save would
  name it, and the request could match a version it has not read.
* `AckedMoveAudited`: who is answered that a change was made finds it in the log,
  whatever was chained before it. `LoggedStatusReached`: no entry names a status
  the election never had. Both hold with races, failures and deaths.
* `EveryRequestEnds`: handlers wait for one another in the chain of promises, and
  every one of them is answered or dies with the process.
* `VotesConform`: every stored vote fits its election *as stored now*, though the
  ballot was checked against an older snapshot. It holds because critical fields
  do not change after opening; so it needs what `CriticalFieldsLocked` says.
* `ResultsAddUp`: the total is the sum of the rows, though the rows are of the
  options read first and the total of the votes read after. It is said of elections
  that were past their opening when they were read. Before it, `getElectionResults`
  may read a draft whose options are then replaced, the election opened and votes
  cast, all before it reads the votes: the total then counts selections without a row.
* `OneVotePerVoter`, `AcceptedReceiptVerifies`, `DuplicateTruthful`,
  `ReplayTruthful`: what retries may and may not do. The last is as strong as the
  code allows: a key is consumed before its vote is inserted, so after a failure
  in between a retry with that key is refused without a vote; a retry with
  another key, or once the key expired, goes through.
* `KeepsBallotBox`: `Voting` implements `BallotBox`. Beyond the four above it says
  that a vote is never withdrawn or counted after its sender was told otherwise.
* `UntouchedLogVerifies`, `ChainNeverForks`, `RequestOrderKept`,
  `EveryAppendSettles`: one process, restarts included; the first three until somebody
  edits the log.
* `PastIsSealed`: what the chain is for. If a log verifies, then each genuine entry
  among the first `Limit` still has before it, unaltered, everything that the sound log
  it was built on contained, whatever was removed, altered and rehashed and whenever.
  It cannot say more: the removal of the newest entries, an alteration of the newest one
  with its hash recomputed, and whatever happens beyond the oldest 5000 entries, go
  unnoticed by this verification, which looks at no signature.
* `OneRegistration`, `UsedLinkVerified`, `UsedTruthful`, `SomeLinkWorks`: the first
  where the unique index was built.
* `OneUsePerToken`, `RecoveryCodeOnce`, `CodesMatchSecret`, `ReplayedTokenUsed`: the
  first where the unique index was built. Without it two handlers that both found a
  token unused both open with it; the recovery codes rest on the version key alone.
* `SecretEnforced`: login decides on flag and role, and the property says what that
  is worth: flag and secret of the stored account agree, and a login opens a session
  on its password alone only if the account it read had no secret and was no
  administrator's. A login that read the account before an enrolment stored its secret
  may open a session after it, unasked. All this as long as codes are left, and that
  exception is real: an enrolment that read
  the second factor enabled does not send the flag, and a disabling whose document
  has no recovery code left sends no array and checks no version. Overlapping, they
  leave a confirmed secret that login does not ask for. It takes all recovery codes
  of an enrolment, eight in the code, and nothing promises that it cannot happen.
* `LocksAreEarned`: a key is locked when and only when enough failures, in the
  window and since the last lock and success, speak for it. `LocksHold`: a lock is
  lifted early only by a restart, by a success admitted before it was set (which
  does happen: a success deletes the counters, locks included), or, the lock of an
  account but never that of the client address, by a success that another spelling of
  the e-mail address took past it.
  `FailureNeverShortensLock`: doubling, its cap, its oblivion and the two lengths
  of voters and administrators never meet in a shorter lock.
* `RiskMatchesEvents`: the score, decayed a little whenever it is touched, is what
  a direct definition over the events says, and a block stands exactly for its
  duration. `GuessesRationed`: a guess is admitted only while the guesses recorded
  within a block's duration, less what the score has decayed from the first of them to
  the last record before the admission, weigh less than the critical threshold, whatever
  successes lie between them. A guesser slow enough for the decay is not stopped by it.

### The four disagreements

1. *A lock that does not hold across replicas or awaits.* `updateElection` checks
   that the election is not open on the document it read; the save names the
   document by identifier only. `SECURITY.md` says critical fields are locked
   after opening.
2. *The status travels in an update.* The validators of the PATCH check the
   fields they know and strip none, and `Object.assign` takes the whole body:
   `status` moves the election past the transition table.
3. *One failed append silences the log.* `appendQueue` becomes a rejected promise
   and `then` of a rejected promise does not run: no later append of that process
   is tried until it restarts.
4. *Two replicas fork the chain.* The queue orders the appends of one process. The
   manifests run two replicas, and then `verifyAuditLogIntegrity` reports a
   mismatch on a log nobody touched. `SECURITY.md` mentions the order, not this.

The same model shows two more consequences of stale snapshots, which no run
reports: two managers can make two moves each legal on its own that together are
not (with two managers `LifecycleLegal` is violated without any status in a body), and
two halves of a window or of array and limit merge into an election neither manager
checked (`StoredElectionsValid` is violated). And a third: if the append fails after a save the
client gets an error; the repetition meets the early return, is answered 200
"unchanged", and nothing is ever logged; so `AckedMoveAudited` speaks of changes
that were made, not of this answer. The hypotheses of the theorems below
(`SerialManagers`, `NoStatusInBodies`, `NoVersionInBodies`, `UniqueIndex`,
`OneReplica`) are conditions the code does not establish; each promise is proved under
those beside it in the table, and section 4 says which are known to fail without them. A ballot checked while the election
is open may also be inserted after it has closed; nothing in the code promises
otherwise.

### Bounds, and why they are enough

* *Elections*: one. No handler touches two documents. Three options: an array
  can shrink, change its content without changing its size, and be smaller than a
  limit. `MCPatches` holds each critical field alone, a pair, and a free field;
  `MCBodies` also two bodies the checks refuse. Clock 0..2: before, in and after
  the window.
* `MaxVersion` = 0: no edit starts on a document whose array was already replaced
  once; `RoomLeft`: no more documents are posted than there are identifiers. With
  two managers the second save that replaces the array meets a moved version.
* *Managers*: two concurrent ones in the runs about races, since every hazard of a
  stale snapshot needs one writer between the read and the save of another.
* *Elections with their log*: one administrator and one poll creator, two
  replacements of the options and archivings, three entries (`MaxJobs`, counted by
  `RoomInLog` before a request is let in), a clock 0..1. A chain of three is the
  shortest in which an entry waits behind one that waits, and in which an append
  fails, rejects the next, and a restart lets a third through.
* *Ballots and voters*: two of each, one key: two ballots of one voter (a
  retry, a race) or of two voters (a table). In `voting_retries` the poll is posted
  open, and may be closed or archived under the ballots. A third ballot adds another observer
  of the same insertions. In `voting_managed` one viewer, an administrator who may see
  results at any time, asks for them once: requests for results change nothing, so
  that two of them do not meet. `KeyTtl` = 1 lets a key expire between two ballots.
* *Audit log*: four appends, clock 0..1, a limit of three, two edits: entries of one
  millisecond and of two, a restart between them, a log longer than the limit, and two
  edits that cover each other up. `MaxEdits` = 0 in the two violated runs.
* *E-mail*: four requests: a registration, two overlapping messages and a visit,
  or two visits of one link. Lifetime 1 and a clock 0..1: links valid and expired.
* *Second factor*: three requests, two recovery codes of an enrolment, one failed
  attempt allowed, tokens of lifetime 1: two uses of one token or code and the enrolment
  or disabling that overlaps them, with a code left and with none.
* *Login defences*: three clients (two that overlap on an account and one that
  succeeds beside them), an administrator with a second factor and a voter, four
  requests. The limits are scaled down, not the rules: two failures lock a voter's
  key, one an administrator's, a window of one minute, locks of at most two, a
  block of two. The weights are the code's, the critical threshold 20 is two
  failures of weight 10; those of medium and high risk, 10 and 15, are below it as
  they are by default. The clock shows the minutes 1, 2 and 5: within a window
  and a lock, at their ends, and after everything is over.
* *Symmetry*: ballots and voters, clients of an address, and the requests of
  `EmailVerification` and `SecondFactor` are told apart by no definition. It is
  never used in a run with a liveness property.

Deadlock is checked in every run. `lifecycle_serial` and `voting_*` never stop
since a manager may always ask for something; the other models have a step
`Quiescent` (`Finished` in `AuditedLifecycle`), enabled only when all work of the
bound is done.

### Fairness

`AuditedFairSpec` is weak fairness of what the server does for a request already
submitted and of what the process does with its queue (`RunQueue`); in `AuditLog`,
of what a process does with the head of its queue. The code justifies it: the event
loop runs a handler whose await has settled, and the driver settles every
operation, by an answer or by a timeout. Nothing is assumed of managers, clients,
the clock, failures, restarts, edits or the TTL monitor. The two liveness
properties are `EveryRequestEnds` and `EveryAppendSettles`.

## 4. What is proved

For all values of the constants, by TLAPS:

| Theorem | Says | Assumes |
|---|---|---|
| `LifecycleTypeCorrect` | `LifecycleTypeOK` | |
| `OptionsNeverLost` | `NoLostOptions` | `NoVersionInBodies` |
| `SerialElectionsValid` | `StoredElectionsValid` | `SerialManagers` |
| `SerialCriticalFieldsLocked` | `CriticalFieldsLocked` | `SerialManagers` |
| `SerialLifecycleLegal` | `LifecycleLegal` | `SerialManagers`, `NoStatusInBodies` |
| `SerialTrailTruthful` | `TrailTruthful` | `SerialManagers` |
| `VotingTypeCorrect` | `VotingTypeOK` | finite `Ballots` and `Options` |
| `ReceiptsVerify` | `AcceptedReceiptVerifies` | |
| `DuplicatesAreTrue` | `DuplicateTruthful` | |
| `OneVotePerVoterHolds` | `OneVotePerVoter` | `UniqueIndex` |
| `SerialVotesConform` | `VotesConform` | `SerialManagers`, `NoStatusInBodies` |
| `ResultsAreConsistent` | `ResultsAddUp` | `SerialManagers`, `NoStatusInBodies`, `DistinctIds`, finite `Ballots` and `Options` |
| `VotingKeepsBallotBox` | `Voting` implements `BallotBox` (`KeepsBallotBox`) | `UniqueIndex` |
| `ReplaysAreTrue` | `ReplayTruthful` | |
| `AckedIsAudited`, `LoggedWasReached` | `AckedMoveAudited`, `LoggedStatusReached` | |
| `SingleAuditTypeCorrect`, `SingleLogVerifies`, `SingleOrderKept`, `SingleChainNeverForks` | `AuditTypeOK`, `UntouchedLogVerifies`, `RequestOrderKept`, `ChainNeverForks` | `OneReplica`, `NumericRanks` |
| `SinglePastIsSealed` | `PastIsSealed` | `OneReplica`, `NumericRanks` |
| `OneRegistrationHolds` | `OneRegistration` | `UniqueIndex` |
| `EmailTypeCorrect`, `UsedLinksVerified`, `UsedIsTrue`, `SomeLinkAlwaysWorks` | `EmailTypeOK`, `UsedLinkVerified`, `UsedTruthful`, `SomeLinkWorks` | |
| `OneUsePerTokenHolds` | `OneUsePerToken` | `UniqueIndex` |
| `OtpTypeCorrect`, `RecoveryCodesOnce`, `CodesBelongToSecret`, `ReplaysAreReplays`, `SecretsEnforced` | `OtpTypeOK`, `RecoveryCodeOnce`, `CodesMatchSecret`, `ReplayedTokenUsed`, `SecretEnforced` | |
| `DefencesTypeCorrect` | `DefencesTypeOK` | |
| `LocksEarned`, `LocksStand`, `LocksNeverShrink` | `LocksAreEarned`, `LocksHold`, `FailureNeverShortensLock` | |
| `RiskIsTold`, `GuessesAreRationed` | `RiskMatchesEvents`, `GuessesRationed` | |

The constants' own assumptions (what bodies the validators let through, that
bounds are numbers, that recovery codes and secrets have different names, that limits
and the critical threshold are positive) are named in the modules that declare them
and are evaluated by TLC in every run.

The arguments:

* *`PinInv`* strengthens the type invariant: an options array in the store equals
  that of any snapshot with the same version. A save of the array happens only
  under the version that was read, and each increments it; so `NoLostOptions`.
* *`SerialInv`*: while the one request of a manager is between its read and its
  save, the stored document still *is* the snapshot, and the checks passed on it
  (`CheckedInv`). The write then stores what was checked. Without `SerialManagers`
  the first half fails, and `race_locked_fields` shows it.
* *`TrailInv`*: a handler about to write its entry has made the move the entry is
  about, since it saved on a current snapshot (`SerialInv`); moves are never taken back.
* *`VotingInv`*: a ballot past the insertion has a vote of its own with the
  receipt it is about to answer, and a vote is never changed except for its digest.
* *`ConformInv`*: a snapshot that shows an open election agrees with the store on
  options and limit from then on, by `SerialCriticalFieldsLocked` and the legality
  of moves, so a stale check stays right.
* *`ResultsInv`*: the election a request for results has read, if it was past its
  opening, still has these options, by the stability `ConformInv` rests on. So when the
  votes are read:
* *The total and the rows.* The total counts the pairs of a vote and an option it
  selects; each row counts one column of these pairs. They agree if no pair lies
  outside the columns shown, that is, if no vote selects an option the document no
  longer has: `ConformInv` again. `ConformingVotesAddUp` is that step, for one
  state; it needs finitely many ballots, since nothing infinite has a count, and
  `DistinctIds`, since a row of an identifier that two options share is shown twice.
* The *ballot box*: initial states map to the empty box, and each step of a ballot to
  a step of the box or a stutter. The insertion is `Count`, and needs `UniqueIndex`
  for `Rivals(b) = {}`; an answer is `Tell`, and `VotingInv` says that what it
  claims of the stored votes is so.
* *`KeyInv`*: every key that is taken is explained, by a vote of its voter or by a
  ballot that got past the key. An explanation lasts: such a ballot goes on to a vote, or
  fails and stays failed. The ballot refused is not its own explanation, so there is
  another.
* *`AckedInv`*: `QueueInv` (every entry that is done is stored, every one requested
  has contents) and `AwaitInv` (what a handler awaits is the entry of its own
  change, and only that) turn the settling of a promise into a fact about the
  trail. *`ReachInv`*: an entry that was requested, stored or not, is about a move
  already made, and moves are never taken back.
* *`AuditInv`*: the head of the queue, once it has read, holds the hash of the
  last entry, if nobody has edited the log; until then entries form one chain in the
  order of `Before` (`UntouchedOK`); what is queued is requested later than what is
  stored, and the clock is not behind the last entry. Its part `SealOK` lasts over
  edits: what an entry seals is a sound chain, sorts before it, and ends in the hash the
  entry names. `SealHolds` concludes: if something sealed were missing from a log that
  verifies, take the last such entry; its successor in the seal, or the sealing entry,
  is there and names its hash, and nothing else intact has that hash (`NamedIsThere`).
* *`AccountInv`*, *`VisitInv`*, *`HopeInv`* (e-mail): with the index, at most one
  registration got past the insertion; a consumed link is verified, about to be, or its visit
  failed; once a message was posted a link works, or one is being created, or
  something failed.
* *`TokenInv`* (second factor): a token is presented only after it was handed out,
  its expiry never changes, and one that opened something stays consumed until
  then, since the TTL monitor removes no record before it expires; with the index a
  consumed token opens nothing more.
* *`CodeInv`*: a document in memory that has the version of the stored one has its
  codes. So the save that spends a code removes it from the codes in use, and an
  accepted code is never among them again: a later enrolment brings codes nobody
  can have presented yet.
* *`EnforceInv`*: unless all codes of an enrolment were presented, a handler that may
  save holds a document that agrees with the stored one on flag and secret, or an
  outdated version, and every save that touches them names the version. A login that
  still decides holds a document whose flag and secret agreed when it was read.

The login defences are told from the history, and their invariants say what the
maps have to do with it. All rest on *`BaseInv`*: times in the history never
decrease, and a client past the guard was let in after records that are still there.

* *`CountInv`*: the counter of a key holds only failures that neither a lock nor a
  success has followed, and all of those within the window. It may hold older ones,
  since the counter is pruned when it is next used. So the number compared with the
  threshold is that of the evidence, and *`ThresholdInv`* (the first half of
  `LocksAreEarned`) and *`LockInv`* (the second) follow.
* *`LengthInv`*: a lock ends at most `LockMax`, and at most the longest length of its
  count, after the failure that set it, or is long over. The next lock has twice the
  length; an administrator's lock followed by a voter's is just not shorter; and
  counts are forgotten only when the lock is over. So `FailureNeverShortensLock`.
* *`AdmittedInv`*: a lock that a client past the guard can meet was set after the
  guard let it pass, or another spelling took it past the lock of its account; the lock
  of the client address is looked up whatever is typed (`LocksHold`).
* *`ScoreInv`*: a stored score is the level of the events at the time it was stored.
  The level is a maximum of sums of tails of the history, each less what has decayed
  since its first event. `LevelStays`, `LevelDecays` and `LevelRises` say what a
  record of no weight, the passing of time and a new event do to such a maximum:
  decaying in two steps is decaying once, and a floor at zero forgets just the
  tails that have run out. *`BlockInv`*: a block was set by an event that filled the
  level, and outlasts it by its duration.
* *`LetInInv`*: what had filled the level of the address when the guard let a client
  in is a block ago. A tail of guesses heavier than the threshold, its decay subtracted,
  would have filled it at its last record (`FailuresWeigh`; no session clears the
  address), hence `GuessesRationed`.

`FiniteSums` has the facts about finite sets these need: what a sum over a set with
one element more or less is, when two sums agree, that a finite set of pairs is
counted by its columns, that a numbered set has as many elements as numbers, what
`Max` returns, and that powers of two are natural and double. The
library's induction theorems take an operator, which the installed provers cannot
instantiate; so these lemmas go by the smallest counterexample: among finite sets one
has the fewest elements (`SmallestSet`), and to take one away leaves a smaller one, of
which the claim holds.

The inductive invariants were checked by TLC on the instances of section 3 before
they were proved.

### Only model-checked

The two liveness properties, `EveryRequestEnds` and `EveryAppendSettles`: fairness is
stated with ENABLED, which is out of this prover's reach. Every other property of a
passing run is also a theorem.

What the hypotheses exclude does happen in the models. Two managers break
`CriticalFieldsLocked` (`race_locked_fields`), `LifecycleLegal` and
`StoredElectionsValid`; a status in a body breaks `LifecycleLegal`
(`status_in_update`), a `__v` in one `NoLostOptions`; two replicas break
`UntouchedLogVerifies` (`audit_two_replicas`). `UniqueIndex` = FALSE in the cfg of the
run breaks `OneVotePerVoter`, `OneRegistration` and `OneUsePerToken`, and nothing else
of the second factor. Where a run is not named, its cfg was changed to see this.

## 5. Not modelled

* The permission to create polls and the creation of the default administrator:
  single writes. Two replicas that both create the administrator meet the unique
  index of addresses as two registrations do, if it was built, and the loser is started
  again; if not there are two administrators of one address.
* A permission revoked while a request runs: `authMiddleware.js` reads the account
  once, and nothing promises that a request in flight notices.
* Sessions and their cookies: signed data without a state on the server.
* The transport of mail, and of notices of risky logins.
* Guesses of a code that pass the limit of attempts together
  (`otpService.js:153`): as many as are in flight, which no small instance bounds.
* Request filters, validation messages, logs, metrics: predicates on one request,
  or output only.
* Configuration and start-up: their one consequence modelled is `UniqueIndex`.
* Mongo's replication and write concerns: an acknowledged write is there.
* A clock that steps back, which would disorder the audit log.
* Collisions of hashes and forged signatures.

## 6. Plan

Built, in the order of importance: elections, voting in a managed election, audit
log, verification of e-mail, second factor, login defences, the composition of
elections with the audit log, the abstract ballot box and its refinement, and
proofs of every safety property. What is left:

1. **Proofs about what composes**: that elections with their log, and a single log,
   implement an abstract trail.
2. **Accounts**: the permission to create polls, granted and revoked while polls are
   created.

Runs about the same component are merged, a run being a question: new components
get a run each, and the runs of one component share their invariants.

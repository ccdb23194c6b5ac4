# Reality Authenticator: TLA+ models and proofs

Reality Authenticator turns one physical capture (buttons, sensors, an image, a
sound) into a signed Proof record. A device receives a challenge, captures,
uploads its media and hands in an Evidence Manifest; cloud functions validate
the manifest, sign a Proof and let anybody verify it. This directory models the
part of that where requests, devices, threads and crashes meet: what is stored
for one session, on which side, and in which order.

## 1. Inventory

| Component | Source | State | Operations | Module |
|---|---|---|---|---|
| Session store | `storage.py`, `storage_azure.py`, `storage_contract.py` | Session with etag, manifest, ingest result, Proofs and their table rows, QR images | load/create/replace/save_session, save/load of the other records | `SessionStore` |
| StartSession | `handlers.py:53-212`, `challenge.py`, `iot.py` | Session up to `waiting_device` | one handler and `_mark_failed`; sends the device command | `StartSession` |
| Telemetry | `telemetry.py`, `iot.py` | Session status | device statuses; a manifest message runs ingest and issue | `Telemetry` |
| IngestEvidence | `handlers.py:215-431`, `blob_verification.py` | manifest, ingest result, Session up to `evidence_uploaded`, or `failed` | one handler and `_mark_failed` | `IngestEvidence` |
| Manifest validation | `manifest.py` | none | `validate_manifest` | `ManifestCheck`, `ManifestAnswers` |
| IssueProof | `handlers.py:452-747`, `proof.py`, `signing*.py` | reservation in the Session, Proof, table row, QR image | one handler, retried and concurrent | `IssueProof`, `ProofLedger` |
| Cloud handlers together | `function_app.py`, `telemetry.py` | all of the above | the HTTP routes and the event trigger | `Cloud` |
| VerifyProof, public reads | `handlers.py:750-1060`, `verification.py`, `qr.py` | none (QR may be stored on demand) | readers | `VerifyProof` |
| Devices | `devices.py`, `register_device.sh` | Devices table, old and new partition | register on first use, mark seen, list | `Devices` |
| Edge agent | `iot_agent.py`, `blob_upload.py` | processed-command file, evidence directory | receive a command, capture, upload, send | `EdgeAgent`, `EvidenceFolder` |
| Real capture | `real_capture.py`, `evidence.py`, `hardware/` | evidence directory, LED | four concurrent tasks under a deadline | `RealCapture`, `EvidenceFolder` |
| Cloud sync | `main.py`, `cloud_client.py`, `cloud_sync.py` | none | a sequential HTTP client with timeouts | `CloudSync` |
| Device and cloud together | all of the above | the two channels | the whole way of a session | `System` |
| Audit log | `audit.py` | AuditLog records | append | not modelled |
| HTTP front end | `function_app.py`, `auth.py`, `config.py` | none; builds a repository per request | routes, keys | not modelled |
| Canonical JSON, web pages, firmware, provisioning | `reality-core`, `web/`, `firmware/`, `scripts/` | none | pure or presentation | not modelled |

How they interact. All cloud handlers share the Session record and nothing
else; they run concurrently, in any number of processes. A write is either
`replace_session(session, etag)`, which is meant to fail when the session
changed since it was read, or `save_session(session)`, which is not guarded. A
handler keeps its own copy of the session and its etag across all its calls.
With an IoT Hub the device gets the session by a command and answers with
telemetry, both delivered at least once; the trigger runs ingest and issue in
the same call. Without one the device's program is an HTTP client of the same
handlers. On the device the agent, the capture's threads and later deliveries of
the same command share the session's directory.

What is hard: two requests interleaved between any two storage calls; a request
that dies between two of them, and the retry that finds its half-done work; a
slow request that is taken for a dead one; a session copy that is old when it
is written; an update whose reply is lost; the local repository's lock that no
two requests share; a command or a message that comes again after it was dealt
with; a device that dies anywhere; four threads and one deadline. The
list with source lines and the properties about each is `hazards` in
`PROJECT.json`.

What makes each component correct:

- *IssueProof*: one Proof per session, under the profile reserved for it;
  announced and answered only when stored; never replaced; a reservation is
  eventually decided.
- *IngestEvidence*: what was answered "accepted" is what is stored; an uploaded
  session has a validated manifest.
- *Session*: the status only moves forward, whichever handlers interleave.
- *StartSession and Telemetry*: the answer of `start_session` stays true of the
  session; no report comes too early or gets lost in the retry loop.
- *VerifyProof*: no false alarm for a Proof that was announced, and VALID only of
  one that was issued.
- *Manifest validation*: the checks in their order accept exactly the window.
- *Edge agent*: what was handed in is what the blobs hold; a command is worked
  on until it is handed in, and never after.
- *Real capture*: a manifest that is written is one the cloud accepts; nothing
  of a call outlives it; a success is told only of a whole manifest.
- *Devices*: one row for each device, and the operator's edits are kept.
- *The whole*: a commanded session is decided, and a decision stands.

## 2. Modules

```
SessionStore <- IssueProof <- VerifyProof            ProofLedger  (refined by IssueProof)
             <- IngestEvidence                       EvidenceFolder (refined by EdgeAgent
             <- StartSession                                         and by RealCapture)
             <- Telemetry                            ManifestCheck <- ManifestAnswers
Cloud  = StartSession + Telemetry + IngestEvidence                 <- RealCapture
         + IssueProof over one SessionStore          Devices
CloudSync = Cloud + the HTTP client
System    = Cloud + EdgeAgent + two channels
```

`MC*` modules give finite sets and symmetries for TLC. The theorems, see section
4, are in `IssueProofProofs` (of `IssueProof` and `VerifyProof`), `IngestProofs`,
`CloudProofs` (of `Cloud` and `System`), `CloudSyncProofs`, `EdgeProofs`,
`RealCaptureProofs`, `ManifestProofs` and `DevicesProofs`. `EdgeAgent` needs no MC
module. Definitions
introduced by a comment `Mutant:` are deliberately wrong variants of the
definition below them. No specification uses them; each shows, when put in the
place of the right one, which property would notice.

### SessionStore

One session is enough: records are keyed by `session_id` and no handler relates
two sessions. `session` keeps the fields the properties tell apart; `key` stands
for everything a reservation pins at once (timestamps, algorithm, key id, public
key). On Azure an etag names a write (`stamp` counts writes); locally it is the
hash of the content, so a copy is current when it equals what is stored. Each
call holds one `StoredRecord` (`snap`, `etag`).

Every repository call is one step, with one exception. The local
`replace_session` is a load, a comparison and a write under a lock of the
repository object, and `function_app._dependencies` builds an object per
request. `SharedRepository = FALSE` therefore splits it: `CompareEtag` arms the
call, `ReplaceSession` writes later whatever has happened in between.

`LostReplies`: the table service applies an update and the reply does not
arrive. The SDK's retry policy sends the update again and is told 412, so the
repository raises `StorageConflict` for a write that was made
(`Unacknowledged`).

`armed` and `stamp` are not in the code: the first is the program counter
between comparison and write, the second the table service's version.

### StartSession, Telemetry, IngestEvidence, IssueProof

One action per repository, hub, signer or uuid call; `pc` names the call that
comes next. `Fail` ends a request before any of its steps: a crash, an
unavailable service or an audit record that could not be written, which the code
does not catch. A step followed by `Fail` is also a write whose reply was lost.

*StartSession* is one request, for a new request makes a new session. `Waiting`
writes `waiting_device` before `Dispatch` sends the command; a send that raises
may have arrived. `FailLoad` and `FailSave` are `_mark_failed`: Azure's
`save_session` fetches the *current* etag and writes the *old* session under it.
An IoT Hub implies Azure storage, because local files have no upload targets.

*Telemetry* has the loop of `_set_session_status` (`Load`, `Replace`,
`NextRound`, with `_STATUS_ORDER`'s gaps at `proof_issuing` and `failed`) and
the hand-over to the other two handlers. `Receive` may bring any message again.

*IngestEvidence* abstracts `validate_manifest` and the blob check to membership
in `Valid` and to `Expire`; `ManifestCheck` has the validation itself. In its
own run the other handlers are the actions `SessionAdvances`,
`DeviceReportsFailure` and `IssueAdvances`, each the successful end of a
compare-and-swap and so one step.

*IssueProof*: `Load` starts each of the `MaxAttempts` attempts (8 in the code).
`Find` is the branch where the session holds a reservation: it adopts a stored
Proof, polls, or on the last attempt takes over (`TakenOver`). `MarkValidating`,
`MarkVerified`, `Resolve` and `Reserve` are the branch without one. `Build`,
`Save`, `SaveIndex`, `Finish`, `Recheck` and `SaveQr` are the common end. A
request may be sent again after any end. `RotateKey` is a new key version. Two
actions fail the session from outside: `DeviceReportsFailure` is a telemetry
status, which keeps the reservation, and `MarkFailed` is the `_mark_failed` of
an ingest that was overtaken, which writes its old copy, without reservation and
proof_id, over whatever the session has become. It may come at any time and any
number of times.

### Cloud, CloudSync, System

*Cloud* instantiates the four handlers over one store and replaces the
environment actions of their own runs by each other. A manifest message's call
runs `CallIngest` .. `EndIngest` .. `CallIssue` .. `EndIssue`. `captured` is the
manifest of the session's one capture: the device sends that or nothing.

*CloudSync* is the edge program with `--cloud-sync`, which the README documents
for local HTTP development (README.md:109): local files and no hub, so no upload
targets are answered and nothing is uploaded. The client asks once for
everything and gives up after five seconds (`TimeOut`); the call goes on.

*System* joins `Cloud` and `EdgeAgent`: `Command` delivers the command as often
as the hub likes, `Trigger` processes any message that was ever sent, in any
order and number. The two sides share `expired`.

### EdgeAgent, EvidenceFolder, RealCapture

*EdgeAgent* is `process_command` for one command, with `_send`'s attempts, the
ProcessedCommandStore in memory (`known`) and on the disk (`processed`), and a
directory that survives crashes. A capture is named by the number of the
delivery that made it, so that blobs, manifest and messages can be compared.
Faults come as `"crash"` and as `"error"`: any operation may raise, and a send
or a PUT that raises may have been carried out. A crash is the death of the
process: the code syncs no file, and what a loss of power would do to files the
system had not flushed is not modelled.

*RealCapture* is `capture()` with its four tasks as processes. `Collect` leaves
the executor's block when all have ended. Time is in half milliseconds, because
the manifest's timestamps are cut to milliseconds and the comparisons on the
device are not. A driver's reading is a success or a failure. What is written is
judged by the cloud's own `Verdict`. The errors outside the `try` block are
there, unlogged as in the code: the directory cannot be made, `expires_at` cannot
be parsed, the LED cannot be opened. `WriteFailure` is `_write_failure`, which may
raise itself and then skips the LED. That switching off and closing the LED do not
raise is assumed.

*EvidenceFolder* is what both promise about the directory: made once, media
change only until there is a manifest, a whole manifest stays. Both specify it
as the property `KeepsFolder`.

### VerifyProof, ManifestCheck, ManifestAnswers, Devices

*VerifyProof* extends `IssueProof` by readers that read one record at a time
while Proofs are issued, by `get_proof_qr`, and by a world that disables the
device or alters the media. Readers ask for any proof_id the session holds or
whose Proof is stored, the session failed or not. Checks are three-valued as in the code.

*ManifestCheck* has the checks of `validate_manifest` in their order; checks of
one field against a constant are told apart by their error code. `Acceptable` is
the reference, said without order. *ManifestAnswers* hands one manifest in again
and again while the time passes.

*Devices* has each table operation as a step of the call that makes it. An old
row lies in the partition `device`, today's in `DEVICE`. The operator registers
with the script and edits the status in the table; `wish` and `raced` remember
what he wanted and whether a call was at work then.

## 3. Runs

Every run asks one question of one part; properties that need the same instance
share it.

| Run | Bounds | Shows |
|---|---|---|
| `issue_azure` | 2 requests, 3 attempts, 2 failures, 2 keys, 2 salts, 2 proof ids, lost replies, device failures and late `_mark_failed`s at any time, no symmetry | the inductive invariant and what it implies, the refinement of `ProofLedger`, a served Proof, and that a reservation is decided although its owners die |
| `issue_local` | 2 requests, 3 attempts, 2 failures, a repository per request | what survives without an atomic replace: no announcement without a stored Proof |
| `ingest_azure` | 2 requests, 3 manifests (one not valid), 2 failures, lost replies | the accepted manifest stays, an upload rests on validated evidence |
| `cloud_hub` | `start_session` and 2 workers, 2 attempts, 3 rounds, 1 failure, 2 manifests, lost replies | one Proof whichever handlers interleave, what start answered and what was accepted stays true, reports converge, the status moves forward |
| `cloud_sync` | one client, 2 of its calls at a time, 2 failures | the proof_id the program prints is that of the session's one issued Proof |
| `verify_azure` | 1 reader, 2 requests, 1 failure, 2 keys | no false alarm, VALID only of an issued Proof |
| `edge` | 4 deliveries, 4 faults, 3 attempts of `_send` | what was handed in stays, a remembered command is settled, an announced one is answered unless its capture never comes back |
| `system` | 1 worker beside the starter, 2 deliveries, 1 device fault, 1 cloud failure | a Proof's media stay, an issued session stays issued, a commanded one is decided unless its capture never comes back |
| `system_duplicate` | 2 workers, 1 delivery, no fault | **violation**: a second delivery of the manifest fails the issued session |
| `manifest` | 4 instants, 2 button counts, every manifest and session | the checks accept exactly the window, a refusal is final |
| `capture` | 2 calls, 7 half milliseconds, 2 presses | what is written is acceptable, nothing is left behind, edge.log is right about a success, a call ends or waits for the sensors only |
| `devices` | 2 devices (one allowed), 2 calls, a free operator | one row, a complete list, edits kept |

Why the bounds are enough. Every request may be sent again without limit, so two
calls already give every pairwise interleaving with retries; proof ids are one
more than the requests, so that uuid4 always has a fresh one while both hold
theirs (in `issue_azure` as many as the requests: a request that finds none free
waits for one, and the theorems are for any number). `MaxAttempts` is 2 or 3 instead of 8: the loop body is the same for
every attempt but the last, and 2 already has a first that is not the last.
`StatusAttempts` and `MaxSends` are the code's own 3. Two failures let both
owners of a reservation die; the runs with one worker have one. Four faults in
`edge` let three attempts of a send fail after a crash, and four deliveries let
a command be torn, retried, remembered and repeated. In `manifest` four instants
order creation, expiry, start, end and press in every way that the comparisons
can tell apart with one equality each. In `capture` the deadline is at the
fourth of six half milliseconds, so that captures end before, at, and less than
a millisecond after it.

`TypeOK` is checked of `IssueProof`; `SyncTypeOK`, `SystemTypeOK`, `ReaderTypeOK`,
the `TypeOK` of `Cloud`, `EdgeAgent`, `RealCapture`, `Devices` and
`IngestEvidence`, and the `IssuedIsStored` of `Cloud` hold under the cfg of their
run and can be added to its INVARIANTS line.

Symmetry is used for safety only: requests, proof ids and salts are
interchangeable, the good manifests are; keys are not where one is active and
liveness or answers depend on it. Runs with liveness use none.

Deadlock is checked where requests can always be sent again: `issue_*`,
`ingest_azure`, `verify_azure`, `manifest` (its clock stops, handing in does
not) and `devices`. The other runs have CHECK_DEADLOCK FALSE because their
system really ends: `start_session` is one request and its session may fail
before any command is sent (`cloud_hub`, `system`), the client's run is over
(`cloud_sync`), deliveries and calls are bounded (`edge`, `system`, `capture`).

### Fairness

- `issue_azure`: `ServerFairness`, a request that was received runs on a server
  thread until it answers (weak fairness per request, no branch preferred), and
  `ClientFairness`, somebody keeps asking until a Proof is named in an answer:
  without it nobody would take over. Nothing is assumed of failures, rotations
  or the device.
- `edge`: asyncio runs what it has begun, except that a capture need not come
  back (`WF_vars(Step /\ pc # "sense")`); nobody need deliver a command or restart
  the device. `AnnouncedIsAnswered` is about captures that do come back.
- `system`: both sides finish what they have begun, a capture excepted again, the
  hub delivers the command at least once (weak fairness of the first delivery),
  and each kind of message that has arrived is processed at least once (strong
  fairness, as the one worker may be busy with another).
- `capture`: threads run, time passes, and `wait_for_press`, `wait_for_release`,
  `rpicam-still` and `arecord` are given a `timeout=`. Nothing is assumed of the
  sensor read: pyserial's `timeout` is one of the single read (sensors.py:61), so
  a write that the bridge does not take, or a line that it does not end, keeps
  the task, and with it the executor's block, for ever. `CallEnds` says that
  nothing else does.

### Findings

`system_duplicate`. Two deliveries of one manifest are processed at the same
time, which the trigger may do. The second loads the session as capturing; the
first issues the Proof; the session expires; the second's validation raises
`ERR_SESSION_EXPIRED` and `_mark_failed` writes its old copy over the issued
session, which is now failed and names no Proof. `test_iot.py:350` says that a
duplicate keeps `proof_issued`; it delivers one after the other.
`IssuedStays` in `system` (one worker) shows that this order is indeed safe.

### What does not hold, and is not a run

Formulas that are false of the code where no document promises more, with the
shortest way to see it:

- `OneProof` under `issue_local.cfg`: without an atomic replace two requests both
  reserve. The concurrency test shares one repository object. `AcceptedStands`
  with `Backend = "local"`: the second of two ingests overwrites the manifest.
- An answer of `issue_proof` that names the session's proof_id for good: after a
  late `_mark_failed` the session names none. `AnswerIsFinal` without `Dropped`,
  and `ProofMatchesReservation` without it, are violated under `issue_azure.cfg`.
- A failure in edge.log for every failed capture: an error before the `try` block
  is not logged (mkdir, the deadline, the LED), and the log may be what fails.
- `pc = "make" ~> pc = "idle"` under `capture.cfg`: the sensor read may hang.
- A row in the Proofs table for every Proof answered 201 (`CreatedIsServed`
  without `failures = 0`, under `issue_azure.cfg`): after a crash between blob
  and row the takeover's PS256 signature differs, the stored Proof is adopted,
  and nobody writes the row.
- `AcceptedIsUploaded` under `ingest_azure.cfg`: the manifest is stored before the
  session moves; if a status report changes the session in between, the request
  ends in a conflict and all retries are answered from the manifest.
- `IssuedStays` without `failures = 0` under `system.cfg`: a send that timed out
  has arrived, and the late `_mark_failed` of `start_session` hits a session that
  is issued by then. Without `faults["error"] = 0`: a handed-in command that
  could not be remembered is reported failed.
- `HandInIsFinal` without `faults["error"] = 0`: edge-agent/README.md:59-62
  promises that the manifest of an unfinished command is reused after a
  temporary failure, and it is; but the failure was also reported, and the cloud
  has closed the session.
- `KeepsEdits` and `DisabledIsRefused` without `~raced`: `mark_device_seen` writes
  back the row it loaded, and an edit made in between is undone.
- Uploaded evidence is not decided when a request dies, or a reply is lost,
  between `validating` and `verified`: later requests poll and give up with
  `ERR_PROOF_CONFLICT`. `CommandedIsDecided` excepts a cloud call that died, and
  `ReservedIsDecided` starts from the reservation.

## 4. Proofs

Each theorem is for every value of the module's constants: any number of
requests, failures, redeliveries, any set of ids, keys, manifests and times, with
or without lost replies.

| Module | Theorem | States |
|---|---|---|
| `IssueProofProofs` | `TypeCorrect` | `Spec => []TypeOK`, on both backends, atomic or not |
| | `IInvHolds` | `Spec => []IInv` where `AtomicReplace` |
| | `OneProofHolds`, `ProofMatchesReservationHolds`, `AnswerIsFinalHolds` | state properties, from `IInv`; after a `_mark_failed` the Proof stays, and the session names no other |
| | `IssuedIsStoredHolds`, `CreatedIsServedHolds` | on both backends, atomic or not |
| | `ImplementsLedgerHolds` | on Azure, `IssueProof` implements `ProofLedger` |
| | `VerifyInvHolds`, `NoFalseAlarmHolds` | readers beside racing requests, where `AtomicReplace` |
| | `ReaderTypesCorrect`, `QrHasProofHolds`, `ValidIsIssuedHolds` | on both backends, atomic or not |
| `IngestProofs` | `TypeCorrect`, `UploadedIsValidatedHolds` | on both backends, atomic or not |
| | `AcceptedStandsHolds`, `RecordedIsUploadedHolds` | on Azure |
| `CloudProofs` | `CloudInvHolds`, `TypeCorrect` | the four handlers over one session, with an IoT Hub |
| | `StartAnswerStandsHolds`, `ReportsConvergeHolds`, `AcceptedIsDoneHolds` | what was answered, reported and accepted |
| | `SessionMovesForwardHolds` | an action property: no interleaving takes the status back |
| | `OneProofHolds`, `IssuedIsStoredHolds` | of all handlers together, although a failure may drop the reservation |
| | `SystemInvHolds`, `SystemTypeCorrect` | device, cloud and channels |
| | `SystemKeepsCloud`, `SystemKeepsAgent` | `System` implements `Cloud` and `EdgeAgent`, so that their theorems hold of it |
| | `ProvenIsUploadedHolds` | the media behind a Proof are in the blobs and stay |
| | `IssuedStaysHolds` | an action property, for one worker: an issued session stays issued |
| `CloudSyncProofs` | `SyncInvHolds`, `SyncTypeCorrect` | the HTTP client and the handlers over local files |
| | `ReportedIsIssuedHolds` | the printed proof_id is that of the session's one issued Proof |
| `EdgeProofs` | `HandedInIsUploadedHolds`, `ProcessedIsSettledHolds`, `HandInIsFinalHolds` | the agent's invariants |
| | `KeepsFolderHolds` | `EdgeAgent` implements `EvidenceFolder` |
| `RealCaptureProofs` | `CaptureInvHolds`, `TypeCorrect` | four tasks, a deadline, crashes and repeated calls |
| | `WrittenIsAcceptableHolds`, `NothingLeftBehindHolds`, `CompletedIsWholeHolds` | what a call leaves behind |
| | `KeepsFolderHolds` | `RealCapture` implements `EvidenceFolder` |
| `ManifestProofs` | `AcceptsTheWindowHolds`, `RefusalIsFinalHolds` | what `validate_manifest` accepts, and that a refusal stands |
| `DevicesProofs` | `DevInvHolds`, `TypeCorrect`, `OneRowHolds`, `ListIsCompleteHolds` | the device table |
| | `DisabledIsRefusedHolds`, `KeepsEditsHolds` | edits between the calls are kept |

Assumptions: the named `ASSUME`s of the constants (`StoreConstants`,
`IssueConstants`, `NoProofIsNoRecord`, `IngestConstants`, `CloudConstants`,
`AgentConstants`, `ManifestConstants`, `CaptureConstants`, `DeviceConstants`,
`NoneIsNoRow`, `SystemConstants`, `CloudSyncConstants`), each of which TLC evaluates in the runs of its module, and,
where the theorem says so,

- `AtomicReplace` (Azure, or one shared local repository) or `Backend = "azure"`.
  Neither can be dropped from `OneProofHolds` and `AcceptedStandsHolds`: see "What
  does not hold, and is not a run";
- in `CloudProofs`, `UseIotHub`, for without a hub the client starts the other
  handlers while `start_session` still runs, and `StatusAttempts > 1`, which is 3 in
  the code (`_set_session_status`): with a single round the first conflict would
  drop a report;
- in `IssuedStaysHolds`, `\A c, d \in Workers : c = d`: one call at a time processes
  the messages. With two it is false, see Findings.

### issue_proof

The argument. None of the properties is inductive: `OneProof` breaks one step
after a state in which two requests hold different Proofs. `IInv` adds

- `LocalsAssigned`: a step's locals were assigned before it;
- `Coherent`: a record whose etag is current is what is stored, so a guarded
  write changes only the fields the request meant to change. On Azure this needs
  `etag[c] <= stamp`: an etag not yet given to any write is held by nobody;
- `OneReservation`: there is one reservation `r`, the session's or, after a
  `_mark_failed` has dropped it, the one the session had. A request before it read
  an open session without one; every request after it, and every Proof, is of `r`
  (`FollowsReservation`).

From the two, `Reserve` can only succeed on an open session without a
reservation, which a session that lost its own is not: `failed` never opens
again (`SessionChange`). No other write changes `proof` or `key`, `MarkFailed`
excepted, and that one leaves no current record behind; hence whatever is saved is
saved under `r`. So the answer given for it stays true as far as the code makes it
true: the Proof stays, and the session names it or, once failed over, none.
`OneReservation` is an existential over `r`, and the step lemma fixes `r` before
the step (`Safe`, `StoredInv`). A lost reply is the same write with another
sequel: `LostAttempt` shows that the request goes on as one that lost, while the
session keeps the reservation it wrote and never learned of. The step lemma
`SafeInvStep` has a case per action. Most actions end in one of a few patterns,
which are lemmas: a request that ends or retries (`EndIsQuiet`,
`ContinueIsQuiet`), the requests that did not move (`Bystander`), a guarded write
(`ReplaceIsCurrent`, `HoldIsCoherent`, `PutKeepsStoredInv`) and one that
conflicts or whose reply is lost (`ConflictTypes`, `ConflictIsCurrent`,
`ConflictKeepsStoredInv`, `ReserveKeepsStoredInv`).

The refinement adds `LedgerInv` to `IInv`: a request that will write the session
holds one that is still open, the candidate it offers is whole, and a session
without a reservation has no signing profile. Then every write falls under one of
the five of `StepWrites`, and each is a step of the ledger or a stutter, whether
its reply arrives or not; a dropped reservation is the ledger's failure that costs
it its claim, after which the record may still be published. The theorem is for Azure: a local Proof file is
replaced whatever it held, and a PS256 signature made twice differs, so that
there the stored Proof may change after its publication.

`CreatedIsServed` and `IssuedIsStored` need no atomic replace, and each has an
invariant that gets along without `IInv`. `ServedInv` says what a request holds
as it goes on: past `Save` its Proof is stored, a QR image is stored only of a
stored Proof, and with no request ended before its time a stored Proof has its
row or its request is about to write it. No step loses a Proof, an image or a row
(`RecordsStay`). `IssuedInv` says that any copy of a session, stored or held, that
reads `proof_issued` names a stored Proof, and that a request about to announce one
(`Announces`) has found or stored it; so it does not matter whose write wins.

### verify_proof

`VerifyInv` is `IInv` and `LedgerInv` with two parts more. `DecidedInv`: once a
reservation is stored the session is written only to decide it, once
(`StepDecides`); so a request that then finds its record stale, or was told of an
issued Proof, knows that the session is decided. `ReaderInv`: what a reader has
read so far (Proof, session, manifest) was true and stays true, because a Proof,
the manifest and a decided session do not change (`NextMoves`); and what it holds
against a Proof is the operator's, the device's or the configuration's doing, or
that of a failure: once one is written over the session, the parts that name the
session's reservation hold of a dropped one (`Dropped`) instead.
`NoFalseAlarm` follows, for a reader that was told of a Proof begins with a
decided session.

On Azure `ValidIsIssued` comes from the same invariant. On local files it holds
atomic or not for another reason: the check of the media cannot be made there,
so VALID is not said at all.

### ingest_evidence

`ValidInv` says which status a request loaded (`StatusFits`) and that one past
the validation carries a manifest that passed it (`CarriesValid`); with it only
validated manifests reach `evidence_uploaded`, even where replacing is not
atomic. On Azure `AzureInv` adds that a request past the upload carries the
*stored* manifest (`Handed`), which the create-only blob preserves, and that a
current etag belongs to the session it was read with (`Holds`). `Holds` exempts
`_mark_failed`, which takes a new etag for an old value; that write is harmless
here because it only ever leads to `failed`. From `Holds` a request that writes
`waiting_device` or `capturing` finds the session where it loaded it, so that no
session ever goes back from `evidence_uploaded` (`StepAdvances`).

### The cloud handlers together

`Cloud` writes one session from four handlers, each with records of its own.
`CloudInv` has a conjunct per handler, which says what it loaded, and:

- `CallInv`: one handler at a time works for a message, ingest and issue only in
  a call that has set the session to capturing (`Stage(3)`);
- `Current`: a record whose etag is current is what is stored. `_mark_failed` is
  the exception, as in `IngestEvidence`: it takes a new etag for an old value;
- `StartInv`: nobody else writes before the command is out (`commanded`), and
  `start_session` sends it only after it has written `waiting_device`.

From these no write lowers the rank of the session's status, where `failed` ranks
highest, and so a copy that is not current can only be behind. `Stage(k)` is
therefore stable, and the three state properties are conjuncts of `CloudInv`. A
report that loses its write finds, in the next round, the session at least where
it wanted it, since whoever was faster moved it; only a failure can lose again.
The proof has a lemma per handler and step, over the two shapes a guarded write
has on Azure (`Writes`, `Rests`), and a lemma each for the handlers that did not
move.

*One Proof.* As in `IssueProof`, `_mark_failed` may write its old copy over the
reserved session, and requests go on to sign and save under a reservation that is
no longer stored. But here the copy is a handler's own, of any status before the
evidence, and the etag it is written under is of another step. `BoundInv` takes
the place of `OneReservation`. It names no request and no step: every reservation
there is, in the session, in a held copy, in a candidate worked under, in a Proof,
is one `id` (`Bound`), and there is none while the session reads as never reserved
(`Unclaimed`). A step only passes on reservations it found (`SnapFlow`,
`SessionFlow`, `IssueFlow`), or makes the first (`Claims`), which the etag allows
over an unreserved session only. And an unclaimed session was unclaimed ever
since, for the status cannot come back from `failed` (`UnclaimedBefore`). Nothing
is saved over a stored Proof, so there is one. `IssuedIsStored` needs no more than
`BoundInv` and that `proof_issued` is only ever written when a Proof is stored
(`Wrote`).

### Device and cloud together

`SystemInv` is `CloudInv`, `AgentInv` and `LinkInv`, which says what ties the two
sides together: nothing is sent before the command is out, a worker's message was
sent by the agent, a complaint names no capture, and a stored manifest was handed
in. Each step of the system is one of the cloud's, of the device's or of a channel,
and the channel's are `Deliver` of the one and `Receive` of the other
(`SystemKeepsCloud`, `SystemKeepsAgent`); so each side's invariant is kept by its
own lemma. A message may be processed again, late or out of order, but it was
sent, and `HandedInIsUploaded` says what its manifest names: hence
`ProvenIsUploaded`.

For `IssuedStays`, `Wrote` lists who writes `failed`: `start_session` giving up, a
report of failure, a rejected manifest. `IssuedInv` excludes each while no request
failed and no error befell the device. `start_session` gives up before its command
is out only (`GivesUpEarly`); a report of failure was sent only where no
manifest will be (`HandInIsFinal`); and with one worker no manifest is rejected
once one is stored (`RejectsAlone`), which is what two workers break.

### Cloud sync

Local files have no atomic replace, and the lock that no two requests share would
lose writes if two calls were at work. `AwaitedInv` says that this does not happen
to a client that gets its answers: as long as it waits, or has read a proof_id,
no call is at work but the one it waits for (`Alone`), so that call's copy is the
stored session (`Issues`), it reserves once, and what it answers is there.
Of a client that gave up before that, at whatever time, nothing need be claimed: it
has printed no proof_id, and only `BaseInv`, the types and the assigned locals,
remains.

### The edge agent

`AgentInv` says that the device captures only into the directory it has just made
(`CapturesOnce`), that blobs and hand-ins are of that capture
(`UploadsTheCapture`), that a command is remembered only after its hand-in
(`RemembersTheHandIn`), and that without an error only a directory left without
a manifest is complained of (`ComplainsOfNoManifest`): such a directory is never
captured into again, so no hand-in can follow. The refinement of
`EvidenceFolder` needs `CapturesOnce` alone.

### Real capture

`CaptureInv` has one idea, `OwnsFolder`: only the call that made the directory
starts tasks, and tasks run only in the step that waits for them. So the presses
and media a manifest is built from are of the call that writes it. `ClockInv` says
that the clock showed every instant up to now, so that each instant recorded is
one of `Times`; cutting to milliseconds is monotone (`CutToMilliseconds`), so that
presses within the capture and the capture within the session stay so when cut,
and the written manifest passes each of `ManifestCheck`'s checks but the expiry
(`BuiltIsTimely`). `LogInv` follows edge.log through the last steps: it is
completed after the manifest, only by the call that returns one, and a later call
does not get past the directory. The refinement of `EvidenceFolder` needs
`OwnsFolder` alone.

### validate_manifest

The verdict is the first failing check, so passing all is what accepts
(`VerdictIsAll`). That a press lies in the session follows from the range check
and its lying in the capture (`PassesIsAcceptable`). Only the expiry looks at the
clock, so that time can turn acceptance into refusal and never back.

### The device table

`DevInv` rests on two facts: the old partition never gains a row, and no row goes
away. So a call that found the old partition empty may write today's row
(`SaveInv`), and no interleaving makes a second one. For the operator's edits,
`UnracedInv` says that as long as they fall between the calls the row a call holds
is the stored one, or the missing row of an allowed device: a whole-row write then
puts back what is there, or makes that row.

### Left to TLC

Every invariant and action property that a run checks is stated by a theorem.
Left to TLC are the liveness properties (`ReservedIsDecided`,
`AnnouncedIsAnswered`, `CommandedIsDecided`, `CallEnds`): they rest on fairness and
ENABLED, which the prover cannot treat. `IssuedStays` with two workers is not a
theorem but a finding.

## 5. Not modelled, and the plan

Abstracted everywhere: JSON contents, URLs, hashes (a hash is what it covers),
message wording. Not modelled, and why:

- the audit log: records are only appended; that an append may fail is an outcome
  of the steps that make one;
- authentication, configuration, routing (`auth.py`, `config.py`, `web_app.py`,
  `errors.py`): stateless maps from requests to handler calls;
- page rendering (`presentation.py`), the dashboard and the QR encoder: pure
  functions of the records;
- canonical JSON and hashing: pure functions over unbounded data; the models only
  need that equal records have equal hashes;
- the offline dry run, the preflight and the diagnostics of `main.py`: sequential
  and without shared state;
- hardware drivers below success, failure and time limit; the Arduino firmware;
- the heartbeat and `duplicate_ignored` telemetry, which change no session.

What the plan has left would be wider models rather than more proofs: the
liveness of a session from `evidence_uploaded` on, should the code come to take
over a dead request there, and the audit log, should anything come to read it.

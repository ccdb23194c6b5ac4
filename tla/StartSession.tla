---------------------------- MODULE StartSession ----------------------------
(***************************************************************************)
(* handlers.start_session: the one request that creates the session, hands *)
(* its challenge to the device and leaves it waiting.                      *)
(*                                                                         *)
(* With an IoT Hub the request writes waiting_device BEFORE it sends the   *)
(* command, because the device's first report may overtake the answer of   *)
(* the send.  A send that times out may have reached the device: the       *)
(* request then marks the session failed while the device captures.        *)
(***************************************************************************)
EXTENDS SessionStore

CONSTANTS
    Starter,       \* the call that runs the request; a new request, a new session
    UseIotHub,     \* config.use_iot_hub
    MaxFailures    \* model bound: services that fail and requests that die

\* Assumed by Cloud, which runs the request among the other handlers.
StartConstants ==
    /\ Starter \in Calls
    /\ UseIotHub \in BOOLEAN
    /\ UseIotHub => Backend = "azure"   \* local files have no upload targets
    /\ MaxFailures \in Nat

VARIABLES
    pc,          \* the repository or hub call the request makes next
    answer,      \* HTTP answer of the request
    commanded,   \* the hub has taken the command for the device
    failures     \* failures so far

startVars == <<pc, answer, commanded, failures>>
vars == <<storeVars, clientVars, startVars>>

Steps == {"create", "targets", "challenge", "waiting", "dispatch", "dispatched",
          "fail_load", "fail_save", "done"}

Codes == {"none", "201", "ERR_STORAGE_UNAVAILABLE", "ERR_STORAGE_CONFLICT",
          "ERR_DEVICE_COMMAND", "ERR_INTERNAL", "lost"}

TypeOK ==
    /\ StoreTypeOK
    /\ pc \in Steps
    /\ answer \in Codes
    /\ commanded \in BOOLEAN
    /\ failures \in 0 .. MaxFailures

\* No session yet: nobody but this request knows the session_id, so a blank
\* record stands for none.
Init ==
    /\ StoreInit
    /\ session = BlankSession
    /\ manifest = NoManifest
    /\ pc = "create"
    /\ answer = "none"
    /\ commanded = FALSE
    /\ failures = 0

-----------------------------------------------------------------------------
\* Control of the request

\* The one call there is.
c == Starter

NoOtherRecord == UNCHANGED <<manifest, proofs, proofIndex, qr>>
WithStatus(status) == [snap[c] EXCEPT !.status = status]

End(code) ==
    /\ pc' = "done"
    /\ answer' = code
    /\ DropRecord(c)

\* A service the request needs does not answer.
Unavailable ==
    /\ failures < MaxFailures
    /\ failures' = failures + 1

ToMarkFailed == pc' = "fail_load"

\* Local files: replace_session compares, and has not written yet.
Compares ==
    /\ CompareEtag(c)
    /\ UNCHANGED <<session, stamp, pc, answer, failures>>

\* The process dies, or an exception nobody catches ends the request.
Fail ==
    /\ pc # "done"
    /\ Unavailable
    /\ End("lost")
    /\ UNCHANGED <<storeVars, commanded>>

-----------------------------------------------------------------------------
\* Creating

Create ==
    /\ pc = "create"
    /\ Put(BlankSession)
    /\ HoldReplaced(c, BlankSession)
    /\ pc' = IF UseIotHub THEN "targets" ELSE "challenge"
    /\ NoOtherRecord
    /\ UNCHANGED <<answer, commanded, failures>>

\* The session may be there although its creation was not confirmed.
CreateFails ==
    /\ pc = "create"
    /\ Unavailable
    /\ End("ERR_STORAGE_UNAVAILABLE")
    /\ UNCHANGED <<storeVars, commanded>>

\* create_upload_targets: without them the created session is marked failed.
Targets ==
    /\ pc = "targets"
    /\ \/ pc' = "challenge" /\ UNCHANGED failures
       \/ Unavailable /\ ToMarkFailed
    /\ UNCHANGED <<storeVars, clientVars, answer, commanded>>

Challenge ==
    /\ pc = "challenge"
    /\ NoOtherRecord
    /\ \/ /\ ReplaceSession(c, WithStatus("challenge_issued"))
          /\ HoldReplaced(c, WithStatus("challenge_issued"))
          /\ pc' = "waiting"
          /\ UNCHANGED answer
          /\ UNCHANGED failures
       \/ /\ ReplaceConflicts(c, WithStatus("challenge_issued"))
          /\ End("ERR_STORAGE_CONFLICT")
          /\ UNCHANGED failures
       \/ Compares
    /\ UNCHANGED commanded

-----------------------------------------------------------------------------
\* Waiting for the device

\* Mutant: the command is sent first.
WaitingLater ==
    /\ pc = "waiting"
    /\ pc' = "dispatch"
    /\ UNCHANGED <<storeVars, clientVars, answer, commanded, failures>>

\* The last status write; with an IoT Hub whatever goes wrong from here on
\* ends in _mark_failed.
Waiting ==
    /\ pc = "waiting"
    /\ NoOtherRecord
    /\ \/ /\ ReplaceSession(c, WithStatus("waiting_device"))
          /\ HoldReplaced(c, WithStatus("waiting_device"))
          /\ pc' = IF UseIotHub THEN "dispatch" ELSE "dispatched"
          /\ UNCHANGED <<answer, failures>>
       \/ /\ ~UseIotHub
          /\ ReplaceConflicts(c, WithStatus("waiting_device"))
          /\ End("ERR_STORAGE_CONFLICT")
          /\ UNCHANGED failures
       \/ /\ UseIotHub
          /\ ReplaceConflicts(c, WithStatus("waiting_device"))
          /\ ToMarkFailed
          /\ UNCHANGED <<clientVars, answer, failures>>
       \/ /\ UseIotHub
          /\ Unavailable
          /\ ToMarkFailed
          /\ UNCHANGED <<session, stamp, clientVars, answer>>
       \/ Compares
    /\ UNCHANGED commanded

\* The audit record, then the send; a send that raises may have arrived.
Dispatch ==
    /\ pc = "dispatch"
    /\ \/ /\ commanded' = TRUE
          /\ pc' = "dispatched"
          /\ UNCHANGED failures
       \/ /\ commanded' \in BOOLEAN
          /\ Unavailable
          /\ ToMarkFailed
    /\ UNCHANGED <<storeVars, clientVars, answer>>

\* A command that was sent is still called undispatched when the last audit
\* record cannot be written.
Dispatched ==
    /\ pc = "dispatched"
    /\ UNCHANGED <<storeVars, commanded>>
    /\ \/ /\ End("201")
          /\ UNCHANGED failures
       \/ /\ UseIotHub
          /\ Unavailable
          /\ ToMarkFailed
          /\ UNCHANGED <<clientVars, answer>>

-----------------------------------------------------------------------------
\* Giving up: _mark_failed, with an IoT Hub and so on Azure, whose
\* save_session fetches the etag and writes what this request holds

FailLoad ==
    /\ pc = "fail_load"
    /\ etag' = [etag EXCEPT ![c] = stamp]
    /\ pc' = "fail_save"
    /\ UNCHANGED <<storeVars, snap, armed, answer, commanded, failures>>

\* Upload targets were missing, or the command was not dispatched.
GiveUp == IF snap[c].status = "created" THEN "ERR_STORAGE_UNAVAILABLE"
                                        ELSE "ERR_DEVICE_COMMAND"

\* Mutant: the session is given up in memory only.
FailSaveForgotten ==
    /\ pc = "fail_save"
    /\ End(GiveUp)
    /\ UNCHANGED <<storeVars, commanded, failures>>

\* The missing targets' error is the answer whatever becomes of the write; a
\* failed dispatch lets a conflict escape.
FailSave ==
    /\ pc = "fail_save"
    /\ NoOtherRecord
    /\ \/ /\ ReplaceSession(c, WithStatus("failed"))
          /\ End(GiveUp)
       \/ /\ ReplaceConflicts(c, WithStatus("failed"))
          /\ End(IF snap[c].status = "created" THEN GiveUp ELSE "ERR_INTERNAL")
    /\ UNCHANGED <<commanded, failures>>

Step ==
    \/ Create \/ Targets \/ Challenge \/ Waiting \/ Dispatch \/ Dispatched
    \/ FailLoad \/ FailSave

-----------------------------------------------------------------------------
\* Properties, of the request among the other handlers: see Cloud

\* What the answer says of the session stays true: after a 201 the device has
\* its command and the session is waiting or further on; whoever was told that
\* the device could not be commanded finds the session failed for good,
\* although the device may have captured all the same.  A session that stays
\* halfway belongs to a request that died or met a storage error.
Halfway == {"created", "challenge_issued"}
StartAnswerStands ==
    pc = "done" =>
        /\ answer = "201" =>
             /\ Rank[session.status] >= Rank["waiting_device"]
             /\ UseIotHub => commanded
        /\ answer = "ERR_DEVICE_COMMAND" => session.status = "failed"
        /\ session.status \in Halfway =>
             answer \in {"lost", "ERR_STORAGE_UNAVAILABLE", "ERR_STORAGE_CONFLICT"}
=============================================================================

------------------------------- MODULE Devices -------------------------------
(***************************************************************************)
(* The registered devices: devices.require_active_device and               *)
(* mark_device_seen, handlers.list_devices, and the Devices table below    *)
(* them, where a row lies in the partition "DEVICE" or, an old one, in     *)
(* "device".                                                               *)
(*                                                                         *)
(* A call loads a row, checks it and may write it back whole; every table  *)
(* operation is a step of its own, none looks at an etag, and each may     *)
(* fail.  Meanwhile an operator registers devices (register_device.sh) and *)
(* edits the status in the table.                                          *)
(***************************************************************************)
EXTENDS FiniteSets

CONSTANTS
    DeviceIds,
    Allowed,      \* allowed_device_ids
    Calls,        \* calls at work at the same time
    None

ASSUME DeviceConstants == Allowed \subseteq DeviceIds

Partitions == {"DEVICE", "device"}

\* A row; last_seen_at, which a save for "seen" changes, is left out.
Rows == [status : {"active", "disabled"}, name : {"given", "id"}]

ASSUME NoneIsNoRow == None \notin Rows

VARIABLES
    rows,        \* the Devices table
    registered,  \* devices an operator has registered in today's partition
    wish,        \* the status the operator wants
    raced,       \* has the operator edited while a call was at work?
    call         \* what each call is doing

operatorVars == <<registered, wish, raced>>
vars == <<rows, operatorVars, call>>

Steps == {"idle", "load", "load_old", "find", "find_old", "upsert",
          "query_old", "query", "next"}

\* The calls: start_session requires an active device, telemetry marks it
\* seen, an administrator lists them.
Kinds == {"start", "telemetry", "list"}

Results == {"none", "ok", "ERR_DEVICE_NOT_ALLOWED", "ERR_DEVICE_DISABLED",
            "ERR_STORAGE_UNAVAILABLE"}

\* who: the device; row: what was loaded or made up; saving: why it is written
\* and to which partition; todo, listed, ensured: of a listing;
\* wanted: has the operator wanted the device active while the call was at work?
CallStates ==
    [kind : Kinds, at : Steps, who : DeviceIds \cup {None}, row : Rows \cup {None},
     saving : {"default", "seen"}, to : Partitions, todo : SUBSET Allowed,
     listed : SUBSET DeviceIds, ensured : BOOLEAN, wanted : BOOLEAN, result : Results]

TypeOK ==
    /\ rows \in [Partitions -> [DeviceIds -> Rows \cup {None}]]
    /\ registered \in SUBSET DeviceIds
    /\ wish \in [DeviceIds -> {"active", "disabled"}]
    /\ raced \in BOOLEAN
    /\ call \in [Calls -> CallStates]
    /\ \A c \in Calls : call[c].at \in {"upsert", "find", "find_old"} => call[c].row # None

Fresh == [kind |-> "start", at |-> "idle", who |-> None, row |-> None,
          saving |-> "seen", to |-> "DEVICE", todo |-> {}, listed |-> {},
          ensured |-> FALSE, wanted |-> FALSE, result |-> "none"]

\* default_device
Default == [status |-> "active", name |-> "id"]

Given == [status |-> "active", name |-> "given"]

\* Nothing, a registration of today's kind, or an old one.
Init ==
    /\ registered \in SUBSET DeviceIds
    /\ \E old \in SUBSET (DeviceIds \ registered) :
         rows = [p \in Partitions |-> [d \in DeviceIds |->
                   IF d \in (IF p = "DEVICE" THEN registered ELSE old)
                   THEN Given ELSE None]]
    /\ wish = [d \in DeviceIds |-> "active"]
    /\ raced = FALSE
    /\ call = [c \in Calls |-> Fresh]

-----------------------------------------------------------------------------
Becomes(c, state) == call' = [call EXCEPT ![c] = state]

\* The end of a call; what it knew is gone.
Ends(c, how) ==
    call' = [call EXCEPT ![c] = [Fresh EXCEPT
               !.kind = call[c].kind, !.wanted = call[c].wanted, !.result = how]]

Reads == UNCHANGED <<rows, operatorVars>>

Begin(c, kind, d) ==
    /\ call[c].at = "idle"
    /\ call' = [call EXCEPT ![c] = [Fresh EXCEPT
                  !.kind = kind,
                  !.who = IF kind = "list" THEN None ELSE d,
                  !.wanted = wish[d] = "active",
                  !.at = IF kind = "list" THEN "query_old" ELSE "load"]]
    /\ Reads

\* Any table operation may fail.
Fail(c) ==
    /\ call[c].at \notin {"idle", "next"}
    /\ Ends(c, "ERR_STORAGE_UNAVAILABLE")
    /\ Reads

-----------------------------------------------------------------------------
\* require_active_device and what follows it

Passed(c) ==
    IF call[c].kind = "list"
    THEN Becomes(c, [call[c] EXCEPT !.at = "next", !.todo = @ \ {call[c].who}])
    ELSE Ends(c, "ok")

\* Mutant: whatever is registered may act.
CheckNothing(c, row) ==
    IF call[c].kind = "telemetry"
    THEN Becomes(c, [call[c] EXCEPT !.at = "find", !.saving = "seen", !.row = row])
    ELSE Passed(c)

\* The status as it was when the row was loaded.
Check(c, row) ==
    IF row.status # "active" THEN Ends(c, "ERR_DEVICE_DISABLED")
    ELSE IF call[c].kind = "telemetry"
    THEN Becomes(c, [call[c] EXCEPT !.at = "find", !.saving = "seen", !.row = row])
    ELSE Passed(c)

Load(c) ==
    LET row == rows["DEVICE"][call[c].who] IN
    /\ call[c].at = "load"
    /\ IF row # None THEN Check(c, row) ELSE Becomes(c, [call[c] EXCEPT !.at = "load_old"])
    /\ Reads

\* Mutant: the old partition is not looked at.
LoadNoOld(c) ==
    /\ call[c].at = "load_old"
    /\ IF call[c].who \in Allowed
       THEN Becomes(c, [call[c] EXCEPT !.at = "find", !.saving = "default", !.row = Default])
       ELSE Ends(c, "ERR_DEVICE_NOT_ALLOWED")
    /\ Reads

LoadOld(c) ==
    LET row == rows["device"][call[c].who] IN
    /\ call[c].at = "load_old"
    /\ IF row # None THEN Check(c, row)
       ELSE IF call[c].who \in Allowed
       THEN Becomes(c, [call[c] EXCEPT !.at = "find", !.saving = "default", !.row = Default])
       ELSE Ends(c, "ERR_DEVICE_NOT_ALLOWED")
    /\ Reads

-----------------------------------------------------------------------------
\* save_device: which partition, then the whole row

Find(c) ==
    /\ call[c].at = "find"
    /\ IF rows["DEVICE"][call[c].who] # None
       THEN Becomes(c, [call[c] EXCEPT !.at = "upsert", !.to = "DEVICE"])
       ELSE Becomes(c, [call[c] EXCEPT !.at = "find_old"])
    /\ Reads

\* Mutant: rows are written to today's partition only.
FindNew(c) ==
    /\ call[c].at = "find_old"
    /\ Becomes(c, [call[c] EXCEPT !.at = "upsert", !.to = "DEVICE"])
    /\ Reads

FindOld(c) ==
    /\ call[c].at = "find_old"
    /\ Becomes(c, [call[c] EXCEPT !.at = "upsert",
                     !.to = IF rows["device"][call[c].who] # None THEN "device" ELSE "DEVICE"])
    /\ Reads

\* A default device is checked like a loaded one.
Upsert(c) ==
    /\ call[c].at = "upsert"
    /\ rows' = [rows EXCEPT ![call[c].to][call[c].who] = call[c].row]
    /\ IF call[c].saving = "default" THEN Check(c, call[c].row) ELSE Passed(c)
    /\ UNCHANGED operatorVars

-----------------------------------------------------------------------------
\* list_devices: list, make the rows that are missing, list again

In(p) == {d \in DeviceIds : rows[p][d] # None}

QueryOld(c) ==
    /\ call[c].at = "query_old"
    /\ Becomes(c, [call[c] EXCEPT !.at = "query", !.listed = In("device")])
    /\ Reads

\* Mutant: the list is answered before the missing rows are made.
QueryOnce(c) ==
    /\ call[c].at = "query"
    /\ Becomes(c, [call[c] EXCEPT !.at = "idle", !.result = "ok",
                     !.listed = @ \cup In("DEVICE")])
    /\ Reads

Query(c) ==
    LET listed == call[c].listed \cup In("DEVICE") IN
    /\ call[c].at = "query"
    /\ IF call[c].ensured
       THEN Becomes(c, [call[c] EXCEPT !.at = "idle", !.result = "ok", !.listed = listed])
       ELSE Becomes(c, [call[c] EXCEPT !.at = "next", !.listed = listed,
                                       !.todo = Allowed \ listed])
    /\ Reads

NextMissing(c) ==
    /\ call[c].at = "next"
    /\ IF call[c].todo = {}
       THEN Becomes(c, [call[c] EXCEPT !.at = "query_old", !.ensured = TRUE])
       ELSE \E d \in call[c].todo :
              Becomes(c, [call[c] EXCEPT !.at = "load", !.who = d])
    /\ Reads

-----------------------------------------------------------------------------
\* The operator

Wishes(d, status) ==
    /\ raced' = (raced \/ \E c \in Calls : call[c].at # "idle")
    /\ wish' = [wish EXCEPT ![d] = status]
    /\ call' = [c \in Calls |->
                 [call[c] EXCEPT !.wanted = @ \/ (call[c].who = d /\ status = "active")]]

\* register_device.sh inserts a row of today's kind where there is none.
Register(d) ==
    /\ rows["DEVICE"][d] = None
    /\ rows' = [rows EXCEPT !["DEVICE"][d] = Given]
    /\ registered' = registered \cup {d}
    /\ Wishes(d, "active")

\* The status is edited in the table.
Edit(d, status) ==
    /\ wish[d] # status
    /\ \E p \in Partitions : rows[p][d] # None
    /\ Wishes(d, status)
    /\ rows' = [p \in Partitions |->
                 IF rows[p][d] = None THEN rows[p]
                 ELSE [rows[p] EXCEPT ![d].status = status]]
    /\ UNCHANGED registered

-----------------------------------------------------------------------------
CallStep(c) ==
    \/ Load(c) \/ LoadOld(c) \/ Find(c) \/ FindOld(c) \/ Upsert(c)
    \/ QueryOld(c) \/ Query(c) \/ NextMissing(c) \/ Fail(c)

Next ==
    \/ \E c \in Calls :
         \/ \E kind \in Kinds, d \in DeviceIds : Begin(c, kind, d)
         \/ CallStep(c)
    \/ \E d \in DeviceIds :
         \/ Register(d)
         \/ \E status \in {"active", "disabled"} : Edit(d, status)

Spec == Init /\ [][Next]_vars

-----------------------------------------------------------------------------
\* Properties

\* The cloud itself gives no device a second row, and a stranger none, however
\* their calls interleave: two rows of a device would answer different readers.
OneRow ==
    /\ In("device") \cap In("DEVICE") \subseteq registered
    /\ In("DEVICE") \subseteq registered \cup Allowed

\* A listing that succeeds shows every device that may act.
ListIsComplete ==
    \A c \in Calls :
        call[c].kind = "list" /\ call[c].result = "ok" => Allowed \subseteq call[c].listed

\* The cloud's own writes keep what the operator has written, as long as he
\* edits between the calls only.
KeepsEdits ==
    [][~raced => \A c \in Calls : CallStep(c) =>
         \A p \in Partitions, d \in DeviceIds :
            rows[p][d] # None =>
                /\ rows'[p][d].status = rows[p][d].status
                /\ rows'[p][d].name = rows[p][d].name]_vars

\* A device that was disabled before the call began, and stayed so, is refused,
\* as long as the operator edits between the calls only.
DisabledIsRefused ==
    ~raced => \A c \in Calls :
        call[c].kind # "list" /\ call[c].result = "ok" => call[c].wanted
=============================================================================

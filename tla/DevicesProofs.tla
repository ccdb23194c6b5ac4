---------------------------- MODULE DevicesProofs ----------------------------
(***************************************************************************)
(* Theorems about Devices, for any number of devices and calls.            *)
(*                                                                         *)
(* A row of the old partition is never added and no row is ever removed,   *)
(* so a call that found the old partition empty may write to today's.  As  *)
(* long as the operator edits between the calls only, every row a call     *)
(* holds is the stored one: a save either writes what is there already or  *)
(* makes the missing row of an allowed device.                             *)
(***************************************************************************)
EXTENDS Devices, TLAPS

\* The row that answers a load, today's partition first.
TheRow(d) == IF rows["DEVICE"][d] # None THEN rows["DEVICE"][d] ELSE rows["device"][d]

Known == In("device") \cup In("DEVICE")

AtRow == {"load", "load_old", "find", "find_old", "upsert"}
Holding == {"find", "find_old", "upsert"}

-----------------------------------------------------------------------------
\* The inductive invariant, of a call in state s

\* What a call saves is an active row, of a device that may have it there.
SaveInv(s) ==
    /\ s.at \in AtRow \/ (s.at # "idle" /\ s.kind # "list") => s.who \in DeviceIds
    /\ s.at \in Holding =>
         /\ s.row \in Rows /\ s.row.status = "active"
         /\ s.who \in Allowed \cup Known
    /\ s.at = "upsert" =>
         s.who \in IF s.to = "device" THEN In("device")
                   ELSE In("DEVICE") \cup (Allowed \ In("device"))

\* What a listing has still to make, and what it lists.
ListInv(s) ==
    /\ s.at # "idle" => s.result = "none"
    /\ s.at \in {"query_old", "query", "next"} => s.kind = "list"
    /\ s.at = "query" => s.listed = In("device")
    /\ s.ensured => Allowed \subseteq Known
    /\ s.kind = "list" /\ s.at \in AtRow \cup {"next"} => Allowed \ s.todo \subseteq Known
    /\ s.kind = "list" /\ s.result = "ok" => Allowed \subseteq s.listed

\* While the operator keeps out, what a call holds is what is stored.
UnracedInv(s) ==
    /\ s.at \in Holding =>
         TheRow(s.who) = s.row \/ (TheRow(s.who) = None /\ s.row = Default)
    /\ s.at = "load_old" /\ s.who \notin In("device") =>
         rows["DEVICE"][s.who] \in {None, Default} /\ wish[s.who] = "active"
    /\ s.at \in {"load_old", "find_old"} \/ (s.at = "upsert" /\ s.to = "device") =>
         s.who \notin In("device") \cap In("DEVICE")
    /\ s.at # "idle" /\ s.kind # "list" /\ wish[s.who] = "active" => s.wanted
    /\ s.kind # "list" /\ s.result = "ok" => s.wanted

GoodCall(s) == SaveInv(s) /\ ListInv(s) /\ (~raced => UnracedInv(s))

\* A device without a row was never disabled; the operator's wish is the
\* status of the row that answers.
WishInv ==
    /\ \A d \in DeviceIds : TheRow(d) = None => wish[d] = "active"
    /\ ~raced => \A d \in DeviceIds : TheRow(d) # None => TheRow(d).status = wish[d]

DevInv ==
    /\ TypeOK
    /\ OneRow
    /\ WishInv
    /\ \A c \in Calls : GoodCall(call[c])

StoreTypes ==
    /\ rows \in [Partitions -> [DeviceIds -> Rows \cup {None}]]
    /\ registered \in SUBSET DeviceIds
    /\ wish \in [DeviceIds -> {"active", "disabled"}]
    /\ raced \in BOOLEAN

LEMMA RowParts ==
    /\ Default \in Rows /\ Given \in Rows /\ Default # None /\ Given # None
    /\ Default.status = "active" /\ Given.status = "active"
    /\ \A r \in Rows : r # None /\ r.status \in {"active", "disabled"}
BY NoneIsNoRow DEF Rows, Default, Given

\* A call that holds a row at all holds a whole one.
Typed ==
    /\ StoreTypes
    /\ call \in [Calls -> CallStates]
    /\ \A c \in Calls : SaveInv(call[c])

LEMMA TypeIs == Typed => TypeOK
BY RowParts DEF StoreTypes, Typed, TypeOK, SaveInv, Holding

LEMMA Stored ==
    ASSUME StoreTypes, NEW d \in DeviceIds
    PROVE  /\ rows["DEVICE"][d] \in Rows \cup {None} /\ rows["device"][d] \in Rows \cup {None}
           /\ d \in In("DEVICE") <=> rows["DEVICE"][d] \in Rows
           /\ d \in In("device") <=> rows["device"][d] \in Rows
           /\ TheRow(d) \in Rows \cup {None} /\ (d \in Known <=> TheRow(d) \in Rows)
           /\ wish[d] \in {"active", "disabled"}
BY NoneIsNoRow DEF StoreTypes, Partitions, In, TheRow, Known

LEMMA CallFields ==
    ASSUME NEW s \in CallStates
    PROVE  /\ s.kind \in Kinds /\ s.at \in Steps /\ s.who \in DeviceIds \cup {None}
           /\ s.row \in Rows \cup {None} /\ s.saving \in {"default", "seen"}
           /\ s.to \in Partitions /\ s.todo \subseteq Allowed /\ s.listed \subseteq DeviceIds
           /\ s.ensured \in BOOLEAN /\ s.wanted \in BOOLEAN /\ s.result \in Results
BY DEF CallStates

-----------------------------------------------------------------------------
\* Steps that read

\* A call that goes on to state t, the table as it was.
LEMMA ReadStep ==
    ASSUME DevInv, Reads, NEW c \in Calls, NEW t \in CallStates, Becomes(c, t), GoodCall(t)
    PROVE  DevInv'
<1>1. /\ StoreTypes /\ call \in [Calls -> CallStates] /\ OneRow /\ WishInv
      /\ \A e \in Calls : GoodCall(call[e])
  BY DEF DevInv, TypeOK, StoreTypes
<1>2. UNCHANGED <<rows, registered, wish, raced>>
  BY DEF Reads, operatorVars
<1>3. StoreTypes' /\ OneRow' /\ WishInv'
  BY <1>1, <1>2 DEF StoreTypes, OneRow, WishInv, In, TheRow
<1>4. call' \in [Calls -> CallStates]
  BY <1>1 DEF Becomes
<1>5. ASSUME NEW e \in Calls PROVE GoodCall(call[e])'
  <2>1. PICK s \in CallStates : s = call'[e] /\ GoodCall(s)
    BY <1>1 DEF Becomes
  <2>2. GoodCall(s)'
    BY <1>2, <2>1 DEF GoodCall, SaveInv, ListInv, UnracedInv, In, TheRow, Known
  <2>. QED
    BY <2>1, <2>2
<1>6. Typed'
  BY <1>3, <1>4, <1>5 DEF Typed, GoodCall
<1>7. TypeOK'
  BY <1>6, TypeIs, PTL
<1>. QED
  BY <1>3, <1>5, <1>7 DEF DevInv

\* What a call finds.
LEMMA CallFinds ==
    ASSUME DevInv, NEW c \in Calls
    PROVE  /\ call[c] \in CallStates /\ GoodCall(call[c]) /\ StoreTypes /\ WishInv /\ OneRow
           /\ call \in [Calls -> CallStates]
BY DEF DevInv, TypeOK, StoreTypes

LEMMA EndsGood ==
    ASSUME NEW s \in CallStates, NEW how \in Results,
           how = "ok" => s.kind # "list" /\ (~raced => s.wanted)
    PROVE  LET t == [Fresh EXCEPT !.kind = s.kind, !.wanted = s.wanted, !.result = how]
           IN  t \in CallStates /\ GoodCall(t)
<1>1. Fresh \in CallStates
  BY DEF Fresh, CallStates, Kinds, Steps, Partitions, Results
<1>. DEFINE t == [Fresh EXCEPT !.kind = s.kind, !.wanted = s.wanted, !.result = how]
<1>2. /\ t \in CallStates /\ t.at = "idle" /\ t.kind = s.kind /\ t.wanted = s.wanted
      /\ t.result = how /\ t.ensured = FALSE
  BY <1>1, CallFields DEF Fresh, CallStates
<1>. HIDE DEF t
<1>3. GoodCall(t)
  BY <1>2 DEF GoodCall, SaveInv, ListInv, UnracedInv, AtRow, Holding
<1>. QED
  BY <1>2, <1>3 DEF t

\* A call that ends without having passed.
LEMMA EndStep ==
    ASSUME DevInv, Reads, NEW c \in Calls, NEW how \in Results \ {"ok"}, Ends(c, how)
    PROVE  DevInv'
<1>1. call[c] \in CallStates
  BY CallFinds
<1>. QED
  BY <1>1, EndsGood, ReadStep DEF Ends, Becomes

\* A call whose device has passed, its row being known.
LEMMA PassedStep ==
    ASSUME DevInv, Reads, NEW c \in Calls, Passed(c), call[c].at \in AtRow,
           call[c].who \in Known,
           ~raced /\ call[c].kind # "list" => wish[call[c].who] = "active"
    PROVE  DevInv'
<1>. DEFINE s == call[c]
<1>1. s \in CallStates /\ GoodCall(s)
  BY CallFinds
<1>2. CASE s.kind = "list"
  <2>. DEFINE t == [s EXCEPT !.at = "next", !.todo = @ \ {s.who}]
  <2>1. Becomes(c, t)
    BY <1>2 DEF Passed
  <2>2. /\ t \in CallStates /\ t.at = "next" /\ t.todo = s.todo \ {s.who}
        /\ t.kind = s.kind /\ t.result = s.result /\ t.ensured = s.ensured
    BY <1>1 DEF CallStates, Steps
  <2>. HIDE DEF t
  <2>3. GoodCall(t)
    <3>1. SaveInv(t)
      BY <1>2, <2>2 DEF SaveInv, AtRow, Holding
    <3>2. ListInv(t)
      BY <1>1, <1>2, <2>2 DEF GoodCall, ListInv, AtRow
    <3>3. UnracedInv(t)
      BY <1>2, <2>2 DEF UnracedInv, Holding
    <3>. QED
      BY <3>1, <3>2, <3>3 DEF GoodCall
  <2>. QED
    BY <2>1, <2>2, <2>3, ReadStep
<1>3. CASE s.kind # "list"
  <2>1. ~raced => s.wanted
    BY <1>1, <1>3 DEF GoodCall, UnracedInv, AtRow
  <2>2. "ok" \in Results /\ Ends(c, "ok")
    BY <1>3 DEF Passed, Results
  <2>. QED
    BY <1>1, <1>3, <2>1, <2>2, EndsGood, ReadStep DEF Ends, Becomes
<1>. QED
  BY <1>2, <1>3

\* A call that has loaded its device's row and checks it.
LEMMA CheckStep ==
    ASSUME DevInv, Reads, NEW c \in Calls, NEW row \in Rows, Check(c, row),
           call[c].at \in {"load", "load_old"}, call[c].who \in Known,
           ~raced => TheRow(call[c].who) = row
    PROVE  DevInv'
<1>. DEFINE s == call[c]
<1>1. s \in CallStates /\ GoodCall(s) /\ s.who \in DeviceIds /\ WishInv
  BY CallFinds DEF GoodCall, SaveInv, AtRow
<1>2. CASE row.status # "active"
  BY <1>2, EndStep DEF Check, Results
<1>3. ~raced /\ row.status = "active" => wish[s.who] = "active"
  BY <1>1, RowParts DEF WishInv
<1>4. CASE row.status = "active" /\ s.kind = "telemetry"
  <2>. DEFINE t == [s EXCEPT !.at = "find", !.saving = "seen", !.row = row]
  <2>1. Becomes(c, t)
    BY <1>4 DEF Check
  <2>2. /\ t \in CallStates /\ t.at = "find" /\ t.row = row /\ t.who = s.who
        /\ t.kind = s.kind /\ t.result = s.result /\ t.ensured = s.ensured
        /\ t.wanted = s.wanted
    BY <1>1 DEF CallStates, Steps
  <2>. HIDE DEF t
  <2>3. GoodCall(t)
    BY <1>1, <1>4, <2>2 DEF GoodCall, SaveInv, ListInv, UnracedInv, AtRow, Holding
  <2>. QED
    BY <2>1, <2>2, <2>3, ReadStep
<1>5. CASE row.status = "active" /\ s.kind # "telemetry"
  BY <1>1, <1>3, <1>5, PassedStep DEF Check, AtRow
<1>. QED
  BY <1>2, <1>4, <1>5

LEMMA BeginStep ==
    ASSUME DevInv, NEW c \in Calls, NEW kind \in Kinds, NEW d \in DeviceIds, Begin(c, kind, d)
    PROVE  DevInv'
<1>. DEFINE t == [Fresh EXCEPT !.kind = kind, !.who = IF kind = "list" THEN None ELSE d,
                               !.wanted = wish[d] = "active",
                               !.at = IF kind = "list" THEN "query_old" ELSE "load"]
<1>1. Becomes(c, t) /\ Reads
  BY DEF Begin, Becomes
<1>2. /\ t \in CallStates /\ t.kind = kind /\ t.wanted = (wish[d] = "active")
      /\ t.at = (IF kind = "list" THEN "query_old" ELSE "load")
      /\ t.who = (IF kind = "list" THEN None ELSE d)
      /\ t.result = "none" /\ t.ensured = FALSE /\ t.todo = {}
  BY DEF Fresh, CallStates, Kinds, Steps, Partitions, Results
<1>. HIDE DEF t
<1>3. GoodCall(t)
  BY <1>2 DEF GoodCall, SaveInv, ListInv, UnracedInv, AtRow, Holding
<1>. QED
  BY <1>1, <1>2, <1>3, ReadStep

LEMMA FailStep == ASSUME DevInv, NEW c \in Calls, Fail(c) PROVE DevInv'
BY EndStep DEF Fail, Results

LEMMA LoadStep == ASSUME DevInv, NEW c \in Calls, Load(c) PROVE DevInv'
<1>. DEFINE s == call[c]
<1>1. /\ s \in CallStates /\ GoodCall(s) /\ s.who \in DeviceIds /\ WishInv /\ StoreTypes
      /\ s.at = "load" /\ Reads
  BY CallFinds DEF GoodCall, SaveInv, AtRow, Load
<1>2. CASE rows["DEVICE"][s.who] # None /\ Check(c, rows["DEVICE"][s.who])
  BY <1>1, <1>2, Stored, CheckStep DEF TheRow
<1>3. CASE rows["DEVICE"][s.who] = None /\ Becomes(c, [s EXCEPT !.at = "load_old"])
  <2>. DEFINE t == [s EXCEPT !.at = "load_old"]
  <2>1. /\ t \in CallStates /\ t.at = "load_old" /\ t.who = s.who /\ t.kind = s.kind
        /\ t.result = s.result /\ t.ensured = s.ensured /\ t.wanted = s.wanted
        /\ t.todo = s.todo
    BY <1>1 DEF CallStates, Steps
  <2>. HIDE DEF t
  <2>2. SaveInv(t) /\ ListInv(t)
    BY <1>1, <2>1 DEF GoodCall, SaveInv, ListInv, AtRow, Holding
  <2>3. ASSUME ~raced PROVE UnracedInv(t)
    <3>1. s.who \notin In("DEVICE")
      BY <1>3 DEF In
    <3>2. s.who \notin In("device") => wish[s.who] = "active"
      BY <1>1, <1>3 DEF WishInv, TheRow, In
    <3>. QED
      BY <1>1, <1>3, <2>1, <2>3, <3>1, <3>2 DEF UnracedInv, GoodCall, Holding, ListInv
  <2>4. GoodCall(t) /\ Becomes(c, t)
    BY <1>3, <2>2, <2>3 DEF GoodCall, t
  <2>. QED
    BY <1>1, <2>1, <2>4, ReadStep
<1>. QED
  BY <1>2, <1>3 DEF Load

LEMMA LoadOldStep == ASSUME DevInv, NEW c \in Calls, LoadOld(c) PROVE DevInv'
<1>. DEFINE s == call[c]
<1>1. /\ s \in CallStates /\ GoodCall(s) /\ s.who \in DeviceIds /\ WishInv /\ StoreTypes
      /\ s.at = "load_old" /\ Reads
  BY CallFinds DEF GoodCall, SaveInv, AtRow, LoadOld
<1>2. CASE rows["device"][s.who] # None /\ Check(c, rows["device"][s.who])
  <2>1. rows["device"][s.who] \in Rows /\ s.who \in In("device")
    BY <1>1, <1>2, Stored
  <2>2. ~raced => TheRow(s.who) = rows["device"][s.who]
    BY <1>1, <2>1 DEF GoodCall, UnracedInv, TheRow, In
  <2>. QED
    BY <1>1, <1>2, <2>1, <2>2, CheckStep DEF Known
<1>3. CASE /\ rows["device"][s.who] = None /\ s.who \in Allowed
           /\ Becomes(c, [s EXCEPT !.at = "find", !.saving = "default", !.row = Default])
  <2>. DEFINE t == [s EXCEPT !.at = "find", !.saving = "default", !.row = Default]
  <2>1. /\ t \in CallStates /\ t.at = "find" /\ t.row = Default /\ t.who = s.who
        /\ t.kind = s.kind /\ t.result = s.result /\ t.ensured = s.ensured
        /\ t.wanted = s.wanted /\ t.todo = s.todo
    BY <1>1, RowParts DEF CallStates, Steps
  <2>. HIDE DEF t
  <2>2. SaveInv(t) /\ ListInv(t)
    BY <1>1, <1>3, <2>1, RowParts DEF GoodCall, SaveInv, ListInv, AtRow, Holding
  <2>3. ASSUME ~raced PROVE UnracedInv(t)
    <3>1. TheRow(s.who) \in {None, Default}
      BY <1>1, <1>3, <2>3 DEF GoodCall, UnracedInv, In, TheRow
    <3>. QED
      BY <1>1, <2>1, <2>3, <3>1 DEF UnracedInv, GoodCall, ListInv
  <2>4. GoodCall(t) /\ Becomes(c, t)
    BY <1>3, <2>2, <2>3 DEF GoodCall, t
  <2>. QED
    BY <1>1, <2>1, <2>4, ReadStep
<1>4. CASE Ends(c, "ERR_DEVICE_NOT_ALLOWED")
  BY <1>1, <1>4, EndStep DEF Results
<1>. QED
  BY <1>2, <1>3, <1>4 DEF LoadOld

\* save_device looks for the partition the row lies in.
LEMMA FindStep == ASSUME DevInv, NEW c \in Calls, Find(c) \/ FindOld(c) PROVE DevInv'
<1>. DEFINE s == call[c]
<1>1. /\ s \in CallStates /\ GoodCall(s) /\ s.who \in DeviceIds /\ StoreTypes /\ Reads
      /\ s.at \in {"find", "find_old"}
  BY CallFinds DEF GoodCall, SaveInv, AtRow, Find, FindOld
<1>2. PICK at \in {"upsert", "find_old"}, to \in Partitions :
        /\ Becomes(c, [s EXCEPT !.at = at, !.to = to])
        /\ at = "find_old" => s.who \notin In("DEVICE")
        /\ at = "upsert" /\ to = "device" => s.at = "find_old" /\ s.who \in In("device")
        /\ at = "upsert" /\ to = "DEVICE" => s.who \in In("DEVICE") \/ s.who \notin In("device")
  <2>1. CASE FindOld(c)
    BY <1>1, <2>1 DEF FindOld, In, Partitions
  <2>2. CASE Find(c) /\ rows["DEVICE"][s.who] # None
    BY <1>1, <2>2 DEF Find, In, Partitions
  <2>3. CASE Find(c) /\ rows["DEVICE"][s.who] = None
    <3>1. [s EXCEPT !.at = "find_old", !.to = s.to] = [s EXCEPT !.at = "find_old"]
      BY <1>1 DEF CallStates
    <3>2. s.to \in Partitions
      BY <1>1, CallFields
    <3>. QED
      BY <1>1, <2>3, <3>1, <3>2 DEF Find, In
  <2>. QED
    BY <2>1, <2>2, <2>3
<1>. DEFINE t == [s EXCEPT !.at = at, !.to = to]
<1>3. /\ t \in CallStates /\ t.at = at /\ t.to = to /\ t.row = s.row /\ t.who = s.who
      /\ t.kind = s.kind /\ t.result = s.result /\ t.ensured = s.ensured
      /\ t.wanted = s.wanted /\ t.todo = s.todo
  BY <1>1 DEF CallStates, Steps
<1>. HIDE DEF t
<1>4. SaveInv(t)
  BY <1>1, <1>2, <1>3 DEF GoodCall, SaveInv, AtRow, Holding, Known, Partitions
<1>5. ListInv(t)
  BY <1>1, <1>3 DEF GoodCall, ListInv, AtRow
<1>6. ~raced => UnracedInv(t)
  BY <1>1, <1>2, <1>3 DEF GoodCall, UnracedInv, Holding, Partitions, ListInv
<1>. QED
  BY <1>1, <1>2, <1>3, <1>4, <1>5, <1>6, ReadStep DEF GoodCall, t

LEMMA ListStep ==
    ASSUME DevInv, NEW c \in Calls, QueryOld(c) \/ Query(c) \/ NextMissing(c)
    PROVE  DevInv'
<1>. DEFINE s == call[c]
<1>1. /\ s \in CallStates /\ GoodCall(s) /\ Reads /\ s.kind = "list" /\ s.result = "none"
      /\ s.at \in {"query_old", "query", "next"} /\ s.todo \subseteq Allowed
  BY CallFinds, CallFields DEF GoodCall, ListInv, QueryOld, Query, NextMissing
<1>2. Known \subseteq DeviceIds /\ In("device") \subseteq DeviceIds
      /\ In("DEVICE") \subseteq DeviceIds
  BY DEF Known, In
<1>3. ASSUME NEW t \in CallStates, Becomes(c, t), t.kind = "list", SaveInv(t), ListInv(t),
             t.at \in {"idle", "query_old", "query", "next", "load"}
      PROVE  DevInv'
  <2>1. UnracedInv(t)
    BY <1>3 DEF UnracedInv, Holding
  <2>. QED
    BY <1>1, <1>3, <2>1, ReadStep DEF GoodCall
<1>4. CASE QueryOld(c)
  <2>. DEFINE t == [s EXCEPT !.at = "query", !.listed = In("device")]
  <2>1. /\ t \in CallStates /\ t.at = "query" /\ t.listed = In("device")
        /\ t.kind = s.kind /\ t.result = s.result /\ t.ensured = s.ensured
    BY <1>1, <1>2 DEF CallStates, Steps
  <2>2. Becomes(c, t)
    BY <1>4 DEF QueryOld
  <2>. HIDE DEF t
  <2>3. SaveInv(t) /\ ListInv(t)
    BY <1>1, <2>1 DEF GoodCall, SaveInv, ListInv, AtRow, Holding
  <2>. QED
    BY <1>1, <1>3, <2>1, <2>2, <2>3
<1>5. CASE Query(c) /\ s.ensured
  <2>. DEFINE t == [s EXCEPT !.at = "idle", !.result = "ok",
                             !.listed = s.listed \cup In("DEVICE")]
  <2>1. /\ t \in CallStates /\ t.at = "idle" /\ t.listed = s.listed \cup In("DEVICE")
        /\ t.kind = s.kind /\ t.result = "ok" /\ t.ensured = s.ensured
    BY <1>1, <1>2 DEF CallStates, Steps, Results
  <2>2. Becomes(c, t)
    BY <1>5 DEF Query
  <2>. HIDE DEF t
  <2>3. s.listed = In("device") /\ Allowed \subseteq Known
    BY <1>1, <1>5 DEF Query, GoodCall, ListInv
  <2>4. SaveInv(t) /\ ListInv(t)
    BY <1>1, <2>1, <2>3 DEF SaveInv, ListInv, AtRow, Holding, Known
  <2>. QED
    BY <1>1, <1>3, <2>1, <2>2, <2>4
<1>6. CASE Query(c) /\ ~s.ensured
  <2>. DEFINE l == s.listed \cup In("DEVICE")
              t == [s EXCEPT !.at = "next", !.listed = l, !.todo = Allowed \ l]
  <2>1. /\ t \in CallStates /\ t.at = "next" /\ t.todo = Allowed \ l
        /\ t.kind = s.kind /\ t.result = s.result /\ t.ensured = s.ensured
    BY <1>1, <1>2 DEF CallStates, Steps
  <2>2. Becomes(c, t)
    BY <1>6 DEF Query
  <2>3. l = Known
    BY <1>1, <1>6 DEF Query, GoodCall, ListInv, Known
  <2>. HIDE DEF t, l
  <2>4. SaveInv(t) /\ ListInv(t)
    BY <1>1, <1>6, <2>1, <2>3 DEF SaveInv, ListInv, AtRow, Holding
  <2>. QED
    BY <1>1, <1>3, <2>1, <2>2, <2>4
<1>7. CASE NextMissing(c) /\ s.todo = {}
  <2>. DEFINE t == [s EXCEPT !.at = "query_old", !.ensured = TRUE]
  <2>1. /\ t \in CallStates /\ t.at = "query_old"
        /\ t.kind = s.kind /\ t.result = s.result
    BY <1>1 DEF CallStates, Steps
  <2>2. Becomes(c, t)
    BY <1>7 DEF NextMissing
  <2>. HIDE DEF t
  <2>3. Allowed \subseteq Known
    BY <1>1, <1>7 DEF NextMissing, GoodCall, ListInv
  <2>4. SaveInv(t) /\ ListInv(t)
    BY <1>1, <2>1, <2>3 DEF SaveInv, ListInv, AtRow, Holding
  <2>. QED
    BY <1>1, <1>3, <2>1, <2>2, <2>4
<1>8. CASE NextMissing(c) /\ s.todo # {}
  <2>1. PICK d \in s.todo : Becomes(c, [s EXCEPT !.at = "load", !.who = d])
    BY <1>8 DEF NextMissing
  <2>. DEFINE t == [s EXCEPT !.at = "load", !.who = d]
  <2>2. d \in DeviceIds
    BY <1>1, DeviceConstants
  <2>3. /\ t \in CallStates /\ t.at = "load" /\ t.who = d /\ t.todo = s.todo
        /\ t.kind = s.kind /\ t.result = s.result /\ t.ensured = s.ensured
    BY <1>1, <2>2 DEF CallStates, Steps
  <2>4. Becomes(c, t) /\ s.at = "next"
    BY <1>8, <2>1 DEF NextMissing
  <2>. HIDE DEF t
  <2>5. SaveInv(t) /\ ListInv(t)
    BY <1>1, <2>2, <2>3, <2>4 DEF SaveInv, ListInv, AtRow, Holding, GoodCall
  <2>. QED
    BY <1>1, <1>3, <2>3, <2>4, <2>5
<1>. QED
  BY <1>4, <1>5, <1>6, <1>7, <1>8

-----------------------------------------------------------------------------
\* Steps that write

\* The cloud makes the missing row of device d.
Makes(d) == TheRow(d) = None /\ rows' = [rows EXCEPT !["DEVICE"] = [@ EXCEPT ![d] = Default]]

\* No row is ever removed, and the old partition gets none.
Grows == StoreTypes' /\ In("device")' = In("device") /\ In("DEVICE") \subseteq In("DEVICE")'

\* What the cloud writes: while the operator keeps out, at most a missing row.
Saves ==
    /\ Grows
    /\ UNCHANGED operatorVars
    /\ ~raced => rows' = rows \/ \E d \in DeviceIds : Makes(d)

\* What a save leaves of the rows that were there.
LEMMA MakesKeeps ==
    ASSUME StoreTypes, NEW d \in DeviceIds, Makes(d)
    PROVE  /\ rows["DEVICE"][d] = None /\ rows["device"][d] = None
           /\ rows'["DEVICE"][d] = Default /\ rows'["device"] = rows["device"]
           /\ \A e \in DeviceIds \ {d} : rows'["DEVICE"][e] = rows["DEVICE"][e]
           /\ TheRow(d)' = Default
           /\ \A e \in DeviceIds \ {d} : TheRow(e)' = TheRow(e)
<1>1. rows["DEVICE"][d] = None /\ rows["device"][d] = None
  BY DEF Makes, TheRow
<1>2. /\ rows'["DEVICE"][d] = Default /\ rows'["device"] = rows["device"]
      /\ \A e \in DeviceIds \ {d} : rows'["DEVICE"][e] = rows["DEVICE"][e]
  BY DEF Makes, StoreTypes, Partitions
<1>. QED
  BY <1>1, <1>2, RowParts DEF TheRow

\* What every call knows still holds after a save.
LEMMA GrowsKeeps ==
    ASSUME Grows, NEW s, SaveInv(s), ListInv(s)
    PROVE  SaveInv(s)' /\ ListInv(s)'
<1>1. Known \subseteq Known'
  BY DEF Grows, Known
<1>2. SaveInv(s)'
  BY <1>1 DEF Grows, SaveInv
<1>3. ListInv(s)'
  BY <1>1 DEF Grows, ListInv
<1>. QED
  BY <1>2, <1>3

LEMMA SavesKeeps ==
    ASSUME DevInv, Saves, NEW s, GoodCall(s)
    PROVE  GoodCall(s)'
<1>1. SaveInv(s)' /\ ListInv(s)'
  BY GrowsKeeps DEF GoodCall, Saves
<1>2. StoreTypes /\ UNCHANGED <<registered, wish, raced>>
  BY DEF DevInv, TypeOK, StoreTypes, Saves, operatorVars
<1>3. ASSUME ~raced PROVE UnracedInv(s)'
  <2>1. UnracedInv(s) /\ SaveInv(s)
    BY <1>3 DEF GoodCall
  <2>2. CASE rows' = rows
    BY <1>2, <2>1, <2>2 DEF UnracedInv, In, TheRow
  <2>3. CASE \E d \in DeviceIds : Makes(d)
    <3>1. PICK d \in DeviceIds : Makes(d)
      BY <2>3
    <3>2. /\ rows["device"][d] = None /\ rows["DEVICE"][d] = None
          /\ rows'["DEVICE"][d] = Default /\ rows'["device"] = rows["device"]
          /\ \A e \in DeviceIds \ {d} : rows'["DEVICE"][e] = rows["DEVICE"][e]
          /\ TheRow(d) = None /\ TheRow(d)' = Default
          /\ \A e \in DeviceIds \ {d} : TheRow(e)' = TheRow(e)
      BY <1>2, <3>1, MakesKeeps DEF Makes
    <3>3. In("device")' = In("device")
      BY DEF Saves, Grows
    <3>4. d \notin In("device") /\ In("DEVICE")' \subseteq In("DEVICE") \cup {d}
      BY <3>2 DEF In
    <3>5. s.at \in AtRow => s.who \in DeviceIds
      BY <2>1 DEF SaveInv
    <3>6. s.at \in Holding =>
             TheRow(s.who)' = s.row \/ (TheRow(s.who)' = None /\ s.row = Default)
      <4>1. CASE s.who = d
        BY <2>1, <3>2, <4>1, RowParts DEF UnracedInv, SaveInv
      <4>2. CASE s.who # d
        BY <2>1, <3>2, <3>5, <4>2 DEF UnracedInv, AtRow, Holding
      <4>. QED
        BY <4>1, <4>2
    <3>7. s.at = "load_old" /\ s.who \notin In("device")' =>
             rows'["DEVICE"][s.who] \in {None, Default} /\ wish'[s.who] = "active"
      BY <1>2, <2>1, <3>2, <3>3, <3>5 DEF UnracedInv, AtRow
    <3>8. s.at \in {"load_old", "find_old"} \/ (s.at = "upsert" /\ s.to = "device") =>
             s.who \notin In("device")' \cap In("DEVICE")'
      BY <2>1, <3>3, <3>4 DEF UnracedInv
    <3>. QED
      BY <1>2, <2>1, <3>6, <3>7, <3>8 DEF UnracedInv
  <2>. QED
    BY <1>3, <2>2, <2>3 DEF Saves
<1>. QED
  BY <1>1, <1>2, <1>3 DEF GoodCall

\* A save that keeps the table in order, its call going on to state t.
LEMMA SaveStep ==
    ASSUME DevInv, Saves, OneRow', WishInv', NEW c \in Calls, NEW t \in CallStates,
           Becomes(c, t), GoodCall(t)'
    PROVE  DevInv'
<1>1. call \in [Calls -> CallStates] /\ \A e \in Calls : GoodCall(call[e])
  BY DEF DevInv, TypeOK
<1>2. call' \in [Calls -> CallStates]
  BY <1>1 DEF Becomes
<1>3. ASSUME NEW e \in Calls PROVE GoodCall(call[e])'
  <2>1. CASE e = c
    BY <1>1, <2>1 DEF Becomes
  <2>2. CASE e # c
    <3>1. PICK s \in CallStates : s = call[e] /\ s = call'[e] /\ GoodCall(s)
      BY <1>1, <2>2 DEF Becomes
    <3>2. GoodCall(s)'
      BY <3>1, SavesKeeps
    <3>. QED
      BY <3>1, <3>2
  <2>. QED
    BY <2>1, <2>2
<1>4. Typed'
  BY <1>2, <1>3 DEF Typed, GoodCall, Saves, Grows
<1>5. TypeOK'
  BY <1>4, TypeIs, PTL
<1>. QED
  BY <1>3, <1>5 DEF DevInv

\* What the last step of save_device does to the table.
LEMMA UpsertSaves ==
    ASSUME DevInv, NEW c \in Calls, Upsert(c), NEW s, s = call[c]
    PROVE  /\ Saves /\ OneRow' /\ WishInv'
           /\ s.who \in Known'
           /\ ~raced => TheRow(s.who)' = s.row
<1>. DEFINE d == s.who
            p == s.to
<1>1. /\ s \in CallStates /\ GoodCall(s) /\ StoreTypes /\ WishInv /\ OneRow
      /\ s.at = "upsert" /\ p \in Partitions
  BY CallFinds, CallFields DEF Upsert
<1>2. /\ d \in DeviceIds /\ s.row \in Rows /\ s.row.status = "active"
      /\ d \in IF p = "device" THEN In("device") ELSE In("DEVICE") \cup (Allowed \ In("device"))
      /\ ~raced => UnracedInv(s)
  BY <1>1 DEF GoodCall, SaveInv, AtRow, Holding
<1>3. rows' = [rows EXCEPT ![p][d] = s.row] /\ UNCHANGED <<registered, wish, raced>>
  BY DEF Upsert, operatorVars
<1>4. StoreTypes'
  BY <1>1, <1>2, <1>3 DEF StoreTypes
<1>5. \A q \in Partitions, e \in DeviceIds :
         rows'[q][e] = IF q = p /\ e = d THEN s.row ELSE rows[q][e]
  BY <1>1, <1>2, <1>3 DEF StoreTypes
<1>6. s.row # None
  BY <1>2, RowParts
<1>7. In("device")' = In("device")
  BY <1>2, <1>5, <1>6 DEF In, Partitions
<1>8. /\ In("DEVICE") \subseteq In("DEVICE")' /\ In("DEVICE")' \subseteq In("DEVICE") \cup {d}
      /\ In("DEVICE")' = In("DEVICE") \/ d \in Allowed \ In("device")
      /\ d \in Known'
  <2>1. In("DEVICE") \subseteq In("DEVICE")' /\ In("DEVICE")' \subseteq In("DEVICE") \cup {d}
    BY <1>2, <1>5, <1>6 DEF In, Partitions
  <2>2. CASE p = "device"
    <3>1. In("DEVICE")' = In("DEVICE")
      BY <1>5, <2>2 DEF In, Partitions
    <3>. QED
      BY <1>2, <1>7, <2>1, <2>2, <3>1 DEF Known
  <2>3. CASE p = "DEVICE"
    <3>1. d \in In("DEVICE")'
      BY <1>2, <1>5, <1>6, <2>3 DEF In, Partitions
    <3>. QED
      BY <1>2, <2>1, <2>3, <3>1 DEF Known
  <2>. QED
    BY <1>1, <2>2, <2>3 DEF Partitions
<1>9. OneRow'
  BY <1>1, <1>3, <1>7, <1>8 DEF OneRow
<1>10. ASSUME ~raced PROVE (rows' = rows \/ Makes(d)) /\ TheRow(d)' = s.row
  <2>1. CASE TheRow(d) = None /\ s.row = Default
    <3>1. p = "DEVICE"
      BY <1>1, <1>2, <2>1 DEF Partitions, TheRow, In
    <3>2. Makes(d)
      BY <1>3, <2>1, <3>1 DEF Makes
    <3>. QED
      BY <1>1, <1>2, <2>1, <3>2, MakesKeeps
  <2>2. CASE TheRow(d) = s.row
    <3>1. rows[p][d] = s.row
      <4>1. CASE p = "device"
        BY <1>1, <1>2, <1>10, <2>2, <4>1 DEF UnracedInv, TheRow, In
      <4>2. CASE p = "DEVICE"
        BY <1>1, <1>2, <1>6, <2>2, <4>2 DEF TheRow, In
      <4>. QED
        BY <1>1, <4>1, <4>2 DEF Partitions
    <3>2. rows' = rows
      BY <1>1, <1>2, <1>3, <3>1 DEF StoreTypes
    <3>. QED
      BY <2>2, <3>2 DEF TheRow
  <2>. QED
    BY <1>1, <1>2, <1>10, <2>1, <2>2 DEF UnracedInv, Holding
<1>11. Saves
  BY <1>2, <1>3, <1>4, <1>7, <1>8, <1>10 DEF Saves, Grows, operatorVars
<1>12. WishInv'
  <2>1. ASSUME NEW e \in DeviceIds, TheRow(e)' = None PROVE wish'[e] = "active"
    <3>1. TheRow(e) = None
      BY <1>1, <1>5, <1>6, <2>1 DEF TheRow, Partitions
    <3>. QED
      BY <1>1, <1>3, <3>1 DEF WishInv
  <2>2. ASSUME ~raced, NEW e \in DeviceIds, TheRow(e)' # None
        PROVE  TheRow(e)'.status = wish'[e]
    <3>1. CASE rows' = rows
      BY <1>1, <1>3, <2>2, <3>1 DEF WishInv, TheRow
    <3>2. CASE Makes(d)
      <4>1. TheRow(d)' = Default /\ \A f \in DeviceIds \ {d} : TheRow(f)' = TheRow(f)
        BY <1>1, <1>2, <3>2, MakesKeeps
      <4>2. wish[d] = "active"
        BY <1>1, <1>2, <3>2 DEF WishInv, Makes
      <4>3. CASE e = d
        BY <1>3, <4>1, <4>2, <4>3, RowParts
      <4>4. CASE e # d
        BY <1>1, <1>3, <2>2, <4>1, <4>4 DEF WishInv
      <4>. QED
        BY <4>3, <4>4
    <3>. QED
      BY <1>10, <2>2, <3>1, <3>2
  <2>. QED
    BY <1>3, <2>1, <2>2 DEF WishInv
<1>. QED
  BY <1>8, <1>9, <1>10, <1>11, <1>12

LEMMA UpsertStep == ASSUME DevInv, NEW c \in Calls, Upsert(c) PROVE DevInv'
<1>0. PICK s \in CallStates : s = call[c]
  BY CallFinds
<1>1. /\ s \in CallStates /\ GoodCall(s) /\ s.at = "upsert"
      /\ StoreTypes /\ WishInv /\ s.result = "none"
  BY <1>0, CallFinds DEF Upsert, GoodCall, ListInv
<1>2. s.who \in DeviceIds /\ s.row \in Rows /\ s.row.status = "active"
  BY <1>1 DEF GoodCall, SaveInv, AtRow, Holding
<1>3. /\ Saves /\ OneRow' /\ WishInv' /\ s.who \in Known'
      /\ ~raced => TheRow(s.who)' = s.row
  BY <1>0, UpsertSaves
<1>4. UNCHANGED <<registered, wish, raced>>
  BY <1>3 DEF Saves, operatorVars
<1>5. Known \subseteq Known'
  BY <1>3 DEF Saves, Grows, Known
<1>6. \/ s.kind = "telemetry" /\ Becomes(c, [s EXCEPT !.at = "find", !.saving = "seen", !.row = s.row])
      \/ Passed(c)
  BY <1>0, <1>2 DEF Upsert, Check
<1>7. CASE s.kind = "telemetry" /\ Becomes(c, [s EXCEPT !.at = "find", !.saving = "seen", !.row = s.row])
  <2>. DEFINE t == [s EXCEPT !.at = "find", !.saving = "seen", !.row = s.row]
  <2>1. /\ t \in CallStates /\ t.at = "find" /\ t.row = s.row /\ t.who = s.who
        /\ t.kind = "telemetry" /\ t.result = "none" /\ t.ensured = s.ensured
        /\ t.wanted = s.wanted
    BY <1>1, <1>7 DEF CallStates, Steps
  <2>2. Becomes(c, t)
    BY <1>7
  <2>. HIDE DEF t
  <2>3. SaveInv(t)'
    BY <1>2, <1>3, <2>1 DEF SaveInv, AtRow, Holding
  <2>4. ListInv(t)'
    BY <1>1, <1>5, <2>1 DEF GoodCall, ListInv
  <2>5. ~raced => UnracedInv(t)'
    <3>1. ~raced /\ wish[s.who] = "active" => s.wanted
      BY <1>1, <1>7 DEF GoodCall, UnracedInv
    <3>. QED
      BY <1>3, <1>4, <2>1, <3>1 DEF UnracedInv
  <2>. QED
    BY <1>3, <1>4, <2>1, <2>2, <2>3, <2>4, <2>5, SaveStep DEF GoodCall
<1>8. CASE Passed(c) /\ s.kind = "list"
  <2>. DEFINE t == [s EXCEPT !.at = "next", !.todo = @ \ {s.who}]
  <2>1. Becomes(c, t)
    BY <1>0, <1>8 DEF Passed
  <2>2. /\ t \in CallStates /\ t.at = "next" /\ t.todo = s.todo \ {s.who}
        /\ t.kind = "list" /\ t.result = "none" /\ t.ensured = s.ensured
    BY <1>1, <1>8 DEF CallStates, Steps
  <2>. HIDE DEF t
  <2>3. SaveInv(t)' /\ UnracedInv(t)'
    BY <2>2 DEF SaveInv, UnracedInv, AtRow, Holding
  <2>4. ListInv(t)'
    BY <1>1, <1>3, <1>5, <1>8, <2>2 DEF GoodCall, ListInv, AtRow
  <2>. QED
    BY <1>3, <2>1, <2>2, <2>3, <2>4, SaveStep DEF GoodCall
<1>9. CASE Passed(c) /\ s.kind # "list"
  <2>. DEFINE t == [Fresh EXCEPT !.kind = s.kind, !.wanted = s.wanted, !.result = "ok"]
  <2>1. Becomes(c, t)
    BY <1>0, <1>9 DEF Passed, Ends, Becomes
  <2>2. ~raced => s.wanted
    <3>1. ~raced => wish[s.who] = "active"
      BY <1>1, <1>2, <1>3, <1>4, RowParts DEF WishInv
    <3>. QED
      BY <1>1, <1>9, <3>1 DEF GoodCall, UnracedInv
  <2>3. t \in CallStates /\ GoodCall(t)
    BY <1>1, <1>9, <2>2, EndsGood DEF Results
  <2>. HIDE DEF t
  <2>4. GoodCall(t)'
    BY <1>3, <2>3, SavesKeeps
  <2>. QED
    BY <1>3, <2>1, <2>3, <2>4, SaveStep
<1>. QED
  BY <1>6, <1>7, <1>8, <1>9

-----------------------------------------------------------------------------
\* The operator's steps

\* Whatever he does, the calls at work have been overtaken, and the others keep
\* what they have answered.
LEMMA WishStep ==
    ASSUME DevInv, NEW d \in DeviceIds, NEW status \in {"active", "disabled"},
           Wishes(d, status), Grows, OneRow', WishInv'
    PROVE  DevInv'
<1>1. /\ StoreTypes /\ call \in [Calls -> CallStates] /\ \A e \in Calls : GoodCall(call[e])
  BY DEF DevInv, TypeOK, StoreTypes
<1>2. ASSUME NEW c \in Calls PROVE call'[c] \in CallStates /\ GoodCall(call[c])'
  <2>1. PICK s \in CallStates : s = call[c] /\ GoodCall(s)
    BY <1>1
  <2>2. PICK t : t = [s EXCEPT !.wanted = s.wanted \/ (s.who = d /\ status = "active")]
    OBVIOUS
  <2>3. call'[c] = t
    BY <2>1, <2>2 DEF Wishes
  <2>4. /\ t \in CallStates /\ t.at = s.at /\ t.who = s.who /\ t.row = s.row /\ t.to = s.to
        /\ t.kind = s.kind /\ t.result = s.result /\ t.ensured = s.ensured
        /\ t.todo = s.todo /\ t.listed = s.listed /\ (s.wanted => t.wanted)
    BY <2>1, <2>2 DEF CallStates
  <2>5. SaveInv(s)' /\ ListInv(s)'
    BY <2>1, GrowsKeeps DEF GoodCall
  <2>6. SaveInv(t)' /\ ListInv(t)'
    BY <2>4, <2>5 DEF SaveInv, ListInv
  <2>7. ASSUME ~raced' PROVE UnracedInv(t)'
    <3>1. ~raced /\ s.at = "idle"
      BY <2>1, <2>7 DEF Wishes
    <3>. QED
      BY <2>1, <2>4, <3>1 DEF GoodCall, UnracedInv, Holding
  <2>. QED
    BY <2>3, <2>4, <2>6, <2>7 DEF GoodCall
<1>3. call' \in [Calls -> CallStates]
  <2>1. call' = [c \in Calls |-> call'[c]]
    BY DEF Wishes
  <2>. QED
    BY <1>2, <2>1
<1>4. Typed'
  BY <1>2, <1>3 DEF Typed, GoodCall, Grows
<1>5. TypeOK'
  BY <1>4, TypeIs, PTL
<1>. QED
  BY <1>2, <1>5 DEF DevInv

LEMMA RegisterStep == ASSUME DevInv, NEW d \in DeviceIds, Register(d) PROVE DevInv'
<1>1. StoreTypes /\ OneRow /\ WishInv
  BY DEF DevInv, TypeOK, StoreTypes
<1>2. /\ Wishes(d, "active") /\ registered' = registered \cup {d}
      /\ wish' = [wish EXCEPT ![d] = "active"] /\ (raced => raced')
      /\ rows["DEVICE"][d] = None
  BY DEF Register, Wishes
<1>3. /\ rows'["DEVICE"][d] = Given /\ rows'["device"] = rows["device"]
      /\ \A e \in DeviceIds \ {d} : rows'["DEVICE"][e] = rows["DEVICE"][e]
  BY <1>1 DEF Register, StoreTypes, Partitions
<1>4. /\ In("device")' = In("device") /\ In("DEVICE") \subseteq In("DEVICE")'
      /\ In("DEVICE")' \subseteq In("DEVICE") \cup {d}
  BY <1>2, <1>3 DEF In
<1>5. /\ rows' \in [Partitions -> [DeviceIds -> Rows \cup {None}]]
      /\ wish' \in [DeviceIds -> {"active", "disabled"}]
      /\ registered' \in SUBSET DeviceIds
  BY <1>1, <1>2, RowParts DEF Register, StoreTypes, Partitions
<1>6. raced' \in BOOLEAN
  BY <1>1 DEF Register, Wishes, StoreTypes
<1>7. Grows
  BY <1>4, <1>5, <1>6 DEF Grows, StoreTypes
<1>8. OneRow'
  BY <1>1, <1>2, <1>4 DEF OneRow
<1>9. WishInv'
  <2>1. TheRow(d)' = Given /\ wish'[d] = "active"
    BY <1>1, <1>2, <1>3, RowParts DEF TheRow, StoreTypes
  <2>2. \A e \in DeviceIds \ {d} : TheRow(e)' = TheRow(e) /\ wish'[e] = wish[e]
    BY <1>1, <1>2, <1>3 DEF TheRow, StoreTypes
  <2>. QED
    BY <1>1, <1>2, <2>1, <2>2, RowParts DEF WishInv
<1>. QED
  BY <1>2, <1>7, <1>8, <1>9, WishStep

LEMMA EditStep ==
    ASSUME DevInv, NEW d \in DeviceIds, NEW status \in {"active", "disabled"}, Edit(d, status)
    PROVE  DevInv'
<1>1. StoreTypes /\ OneRow /\ WishInv
  BY DEF DevInv, TypeOK, StoreTypes
<1>2. /\ Wishes(d, status) /\ registered' = registered
      /\ wish' = [wish EXCEPT ![d] = status] /\ (raced => raced') /\ raced' \in BOOLEAN
      /\ \E p \in Partitions : rows[p][d] # None
  BY <1>1 DEF Edit, Wishes, StoreTypes
<1>3. ASSUME NEW p \in Partitions
      PROVE  /\ rows'[p] \in [DeviceIds -> Rows \cup {None}]
             /\ \A e \in DeviceIds \ {d} : rows'[p][e] = rows[p][e]
             /\ rows'[p][d] = None <=> rows[p][d] = None
             /\ rows'[p][d] # None => rows'[p][d].status = status
  <2>1. rows[p] \in [DeviceIds -> Rows \cup {None}]
    BY <1>1 DEF StoreTypes
  <2>2. CASE rows[p][d] = None
    <3>1. rows'[p] = rows[p]
      BY <2>2 DEF Edit
    <3>. QED
      BY <2>1, <2>2, <3>1
  <2>3. CASE rows[p][d] # None
    <3>1. rows'[p] = [rows[p] EXCEPT ![d] = [rows[p][d] EXCEPT !.status = status]]
      BY <2>3 DEF Edit
    <3>2. rows[p][d] \in Rows
      BY <2>1, <2>3
    <3>3. /\ [rows[p][d] EXCEPT !.status = status] \in Rows
          /\ [rows[p][d] EXCEPT !.status = status].status = status
      BY <3>2 DEF Rows
    <3>. QED
      BY <2>1, <2>3, <3>1, <3>3, RowParts
  <2>. QED
    BY <2>2, <2>3
<1>4. \A p \in Partitions : In(p)' = In(p)
  BY <1>3 DEF In
<1>5. Grows
  <2>1. rows' \in [Partitions -> [DeviceIds -> Rows \cup {None}]]
    <3>1. rows' = [p \in Partitions |-> rows'[p]]
      BY DEF Edit
    <3>. QED
      BY <1>3, <3>1
  <2>. QED
    BY <1>1, <1>2, <1>4, <2>1 DEF Grows, StoreTypes, Partitions
<1>6. OneRow'
  BY <1>1, <1>2, <1>4 DEF OneRow, Partitions
<1>7. WishInv'
  <2>1. TheRow(d)' # None /\ TheRow(d)'.status = status /\ wish'[d] = status
    BY <1>1, <1>2, <1>3 DEF TheRow, StoreTypes, Partitions
  <2>2. \A e \in DeviceIds \ {d} : TheRow(e)' = TheRow(e) /\ wish'[e] = wish[e]
    BY <1>1, <1>2, <1>3 DEF TheRow, StoreTypes, Partitions
  <2>. QED
    BY <1>1, <1>2, <2>1, <2>2 DEF WishInv
<1>. QED
  BY <1>2, <1>5, <1>6, <1>7, WishStep

-----------------------------------------------------------------------------
\* The invariant holds

LEMMA DevInvInit == Init => DevInv
<1>. SUFFICES ASSUME Init PROVE DevInv
  OBVIOUS
<1>1. PICK old \in SUBSET (DeviceIds \ registered) :
         rows = [p \in Partitions |-> [d \in DeviceIds |->
                   IF d \in (IF p = "DEVICE" THEN registered ELSE old) THEN Given ELSE None]]
  BY DEF Init
<1>2. /\ registered \in SUBSET DeviceIds /\ wish = [d \in DeviceIds |-> "active"]
      /\ raced = FALSE /\ call = [c \in Calls |-> Fresh]
  BY DEF Init
<1>3. \A d \in DeviceIds :
         /\ rows["DEVICE"][d] = (IF d \in registered THEN Given ELSE None)
         /\ rows["device"][d] = (IF d \in old THEN Given ELSE None)
  BY <1>1 DEF Partitions
<1>4. StoreTypes
  BY <1>1, <1>2, RowParts DEF StoreTypes, Partitions
<1>5. In("DEVICE") = registered /\ In("device") = old
  BY <1>1, <1>2, <1>3, RowParts DEF In
<1>6. OneRow
  BY <1>5 DEF OneRow
<1>7. WishInv
  BY <1>2, <1>3, RowParts DEF WishInv, TheRow
<1>8. Fresh \in CallStates /\ Fresh.at = "idle" /\ Fresh.result = "none" /\ Fresh.ensured = FALSE
  BY DEF Fresh, CallStates, Kinds, Steps, Partitions, Results
<1>9. GoodCall(Fresh)
  BY <1>8 DEF GoodCall, SaveInv, ListInv, UnracedInv, AtRow, Holding
<1>10. Typed
  BY <1>2, <1>4, <1>8, <1>9 DEF Typed, GoodCall
<1>. QED
  BY <1>2, <1>6, <1>7, <1>9, <1>10, TypeIs DEF DevInv

LEMMA DevInvStep == DevInv /\ [Next]_vars => DevInv'
<1>. SUFFICES ASSUME DevInv, [Next]_vars PROVE DevInv'
  OBVIOUS
<1>1. CASE UNCHANGED vars
  <2>1. UNCHANGED <<rows, registered, wish, raced, call>>
    BY <1>1 DEF vars, operatorVars
  <2>2. TypeOK' /\ OneRow' /\ WishInv'
    BY <2>1 DEF DevInv, TypeOK, OneRow, WishInv, In, TheRow
  <2>3. ASSUME NEW c \in Calls PROVE GoodCall(call[c])'
    <3>1. PICK s : s = call[c]
      OBVIOUS
    <3>2. GoodCall(s)'
      BY <2>1, <3>1 DEF DevInv, GoodCall, SaveInv, ListInv, UnracedInv, In, TheRow, Known
    <3>. QED
      BY <2>1, <3>1, <3>2
  <2>. QED
    BY <2>2, <2>3 DEF DevInv
<1>2. ASSUME NEW c \in Calls, NEW kind \in Kinds, NEW d \in DeviceIds, Begin(c, kind, d)
      PROVE  DevInv'
  BY <1>2, BeginStep
<1>3. ASSUME NEW c \in Calls, CallStep(c) PROVE DevInv'
  <2>1. CASE Load(c)
    BY <2>1, LoadStep
  <2>2. CASE LoadOld(c)
    BY <2>2, LoadOldStep
  <2>3. CASE Find(c) \/ FindOld(c)
    BY <2>3, FindStep
  <2>4. CASE Upsert(c)
    BY <2>4, UpsertStep
  <2>5. CASE QueryOld(c) \/ Query(c) \/ NextMissing(c)
    BY <2>5, ListStep
  <2>6. CASE Fail(c)
    BY <2>6, FailStep
  <2>. QED
    BY <1>3, <2>1, <2>2, <2>3, <2>4, <2>5, <2>6 DEF CallStep
<1>4. ASSUME NEW d \in DeviceIds, Register(d) PROVE DevInv'
  BY <1>4, RegisterStep
<1>5. ASSUME NEW d \in DeviceIds, NEW status \in {"active", "disabled"}, Edit(d, status)
      PROVE  DevInv'
  BY <1>5, EditStep
<1>. QED
  BY <1>1, <1>2, <1>3, <1>4, <1>5 DEF Next

\* The invariant the other theorems follow from.
THEOREM DevInvHolds == Spec => []DevInv
<1>1. Init => DevInv
  BY DevInvInit
<1>2. DevInv /\ [Next]_vars => DevInv'
  BY DevInvStep
<1>. QED
  BY <1>1, <1>2, PTL DEF Spec

-----------------------------------------------------------------------------
\* The theorems

\* Every variable has its type, and a call that is about to look for the
\* partition or to write holds a row.
THEOREM TypeCorrect == Spec => []TypeOK
<1>1. DevInv => TypeOK
  BY DEF DevInv
<1>. QED
  BY <1>1, DevInvHolds, PTL

\* However many calls make default devices and save rows at the same time, none
\* gives a device a second row in the other partition, and no device that the
\* operator did not register and the allow list does not name gets a row.
THEOREM OneRowHolds == Spec => []OneRow
<1>1. DevInv => OneRow
  BY DEF DevInv
<1>. QED
  BY <1>1, DevInvHolds, PTL

\* A listing that succeeds shows every device of the allow list, the ones it had
\* to make included, whatever the calls beside it and the operator do meanwhile.
THEOREM ListIsCompleteHolds == Spec => []ListIsComplete
<1>1. DevInv => ListIsComplete
  BY DEF DevInv, ListIsComplete, GoodCall, ListInv
<1>. QED
  BY <1>1, DevInvHolds, PTL

\* As long as the operator edits between the calls only, a call that passed
\* require_active_device is one of a device he has wanted active.
THEOREM DisabledIsRefusedHolds == Spec => []DisabledIsRefused
<1>1. DevInv => DisabledIsRefused
  BY DEF DevInv, DisabledIsRefused, GoodCall, UnracedInv
<1>. QED
  BY <1>1, DevInvHolds, PTL

\* Under the same condition no save undoes what the operator wrote in a row, the
\* whole row being written though no etag is looked at.
THEOREM KeepsEditsHolds == Spec => KeepsEdits
<1>. DEFINE Stays == \A p \in Partitions, d \in DeviceIds :
                        rows[p][d] # None =>
                            /\ rows'[p][d].status = rows[p][d].status
                            /\ rows'[p][d].name = rows[p][d].name
<1>1. ASSUME DevInv, ~raced, NEW c \in Calls, CallStep(c) PROVE Stays
  <2>1. rows' = rows \/ \E d \in DeviceIds : Makes(d)
    <3>1. CASE Upsert(c)
      BY <1>1, <3>1, UpsertSaves DEF Saves
    <3>2. CASE ~Upsert(c)
      BY <1>1, <3>2 DEF CallStep, Load, LoadOld, Find, FindOld, QueryOld, Query,
                        NextMissing, Fail, Reads
    <3>. QED
      BY <3>1, <3>2
  <2>2. StoreTypes
    BY <1>1, CallFinds
  <2>3. ASSUME NEW d \in DeviceIds, Makes(d) PROVE Stays
    <3>1. /\ rows["DEVICE"][d] = None /\ rows["device"][d] = None
          /\ rows'["device"] = rows["device"]
          /\ \A e \in DeviceIds \ {d} : rows'["DEVICE"][e] = rows["DEVICE"][e]
      BY <2>2, <2>3, MakesKeeps
    <3>. QED
      BY <3>1 DEF Partitions
  <2>. QED
    BY <2>1, <2>3
<1>2. DevInv /\ [Next]_vars =>
         [~raced => \A c \in Calls : CallStep(c) => Stays]_vars
  BY <1>1
<1>. QED
  BY <1>2, DevInvHolds, PTL DEF Spec, KeepsEdits
=============================================================================

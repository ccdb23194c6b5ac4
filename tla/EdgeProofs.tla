------------------------------ MODULE EdgeProofs ------------------------------
(***************************************************************************)
(* Theorems about EdgeAgent, for any number of deliveries, faults and      *)
(* attempts to send.                                                       *)
(***************************************************************************)
EXTENDS EdgeAgent, TLAPS

\* The agent holds a manifest it has written or found whole.
Uploading == {"finish", "image", "audio", "hand_in", "remember"}
Blank == [name \in {"image", "audio"} |-> 0]
Both == [name \in {"image", "audio"} |-> media]

\* The device captures only into the directory it has just made, once.
CapturesOnce ==
    /\ pc \notin {"down", "receive"} => commands # 0
    /\ pc = "shoot" => folder \in {"none", "made"}
    /\ pc \in {"sense", "note"} => folder = "made"
    /\ pc = "note" => media # 0
    /\ pc \in Uploading => folder = "whole"
    /\ folder = "whole" => media # 0 /\ noted = media

\* What has left the device is what the manifest names.
UploadsTheCapture ==
    /\ folder # "whole" => blobs = Blank
    /\ \A name \in {"image", "audio"} : blobs[name] \in {0, media}
    /\ pc = "audio" => blobs["image"] = media
    /\ pc \in {"hand_in", "remember"} => blobs = Both
    /\ \A m \in HandedIn : folder = "whole" /\ m.capture = media /\ blobs = Both

\* The command is remembered, and in memory too, only after the hand-in.
RemembersTheHandIn ==
    /\ pc = "remember" => HandedIn # {}
    /\ processed => known /\ ProcessedIsSettled

\* Without an error it is a directory that was left without a manifest that
\* leads to a complaint, and that directory gets none any more.
ComplainsOfNoManifest ==
    faults["error"] = 0 /\ (pc = "complain" \/ StatusMessage("failed") \in sent) =>
        folder \in {"made", "torn"} /\ pc \notin {"sense", "note"}

AgentInv ==
    /\ TypeOK
    /\ CapturesOnce
    /\ UploadsTheCapture
    /\ RemembersTheHandIn
    /\ ComplainsOfNoManifest

LEMMA ReportsAreMessages ==
    ASSUME NEW kind \in {"challenge_received", "capturing", "duplicate_ignored", "failed"}
    PROVE  StatusMessage(kind) \in Message
<1>1. 0 \in Captures
  BY AgentConstants DEF Captures
<1>. QED
  BY <1>1 DEF StatusMessage, Message

LEMMA AgentInvInit == Init => AgentInv
<1>. SUFFICES ASSUME Init PROVE AgentInv
  OBVIOUS
<1>1. 0 \in Captures /\ 0 \in 0 .. MaxCommands /\ 0 \in 0 .. MaxFaults
      /\ 0 \in 0 .. MaxSends - 1
  BY AgentConstants DEF Captures
<1>2. TypeOK
  BY <1>1 DEF Init, TypeOK, Steps
<1>3. CapturesOnce
  BY DEF Init, CapturesOnce, Uploading
<1>4. UploadsTheCapture
  BY DEF Init, UploadsTheCapture, HandedIn, Blank
<1>5. RemembersTheHandIn /\ ComplainsOfNoManifest
  BY DEF Init, RemembersTheHandIn, ComplainsOfNoManifest
<1>. QED
  BY <1>2, <1>3, <1>4, <1>5 DEF AgentInv

-----------------------------------------------------------------------------
\* Steps

LEMMA FaultTypes ==
    ASSUME TypeOK, NEW kind \in {"crash", "error"}, Fault(kind)
    PROVE  /\ faults' \in [{"crash", "error"} -> 0 .. MaxFaults]
           /\ kind = "error" => faults'["error"] # 0
           /\ kind = "crash" => faults'["error"] = faults["error"]
BY AgentConstants DEF TypeOK, Fault

\* One attempt to send: where it ends, and what may have arrived.
LEMMA SendDoes ==
    ASSUME TypeOK, NEW step, NEW message, NEW next, NEW failed,
           Send(step, message, next, failed)
    PROVE  /\ pc = step
           /\ sent' \in {sent, sent \cup {message}}
           /\ sends' \in 0 .. MaxSends - 1
           /\ faults' \in [{"crash", "error"} -> 0 .. MaxFaults]
           /\ \/ pc' = next /\ message \in sent' /\ UNCHANGED faults
              \/ pc' \in {step, failed} /\ faults'["error"] # 0
           /\ UNCHANGED <<known, processed, folder, media, noted, blobs, expired, commands>>
<1>1. sends + 1 < MaxSends => sends + 1 \in 0 .. MaxSends - 1
  BY AgentConstants DEF TypeOK
<1>2. 0 \in 0 .. MaxSends - 1
  BY AgentConstants
<1>3. CASE Fault("error")
  BY <1>1, <1>2, <1>3, FaultTypes DEF Send, TypeOK
<1>4. CASE UNCHANGED faults
  BY <1>1, <1>2, <1>4, FaultTypes DEF Send, TypeOK
<1>. QED
  BY <1>3, <1>4 DEF Send

\* Sending a status report disturbs nothing the invariant is about but the
\* step, unless it is the report of a failure.
LEMMA StatusKeepsInv ==
    ASSUME AgentInv,
           NEW step \in Steps, NEW next \in Steps, NEW failed \in Steps,
           NEW kind \in {"challenge_received", "capturing", "duplicate_ignored", "failed"},
           Send(step, StatusMessage(kind), next, failed),
           step \notin {"down", "receive", "shoot", "sense", "note"} \cup Uploading,
           {next, failed} \cap ({"shoot", "sense", "note"} \cup Uploading) = {},
           processed => {next, failed} \subseteq {"receive"} /\ step = "duplicate",
           next # "complain",
           kind = "failed" => step = "complain"
    PROVE  AgentInv'
<1>1. TypeOK
  BY DEF AgentInv
<1>2. TypeOK'
  <2>1. StatusMessage(kind) \in Message
    BY ReportsAreMessages
  <2>. QED
    BY <1>1, <2>1, SendDoes DEF TypeOK
<1>3. HandedIn' = HandedIn
  BY <1>1, SendDoes DEF HandedIn, StatusMessage
<1>4. /\ UNCHANGED <<known, processed, folder, media, noted, blobs, commands>>
      /\ pc = step /\ pc' \in {step, next, failed}
  BY <1>1, SendDoes
<1>5. CapturesOnce'
  BY <1>4 DEF AgentInv, CapturesOnce, Uploading
<1>6. UploadsTheCapture'
  BY <1>3, <1>4 DEF AgentInv, UploadsTheCapture, Uploading, Both
<1>7. RemembersTheHandIn'
  BY <1>3, <1>4 DEF AgentInv, RemembersTheHandIn, ProcessedIsSettled, Uploading
<1>8. ComplainsOfNoManifest'
  <2>1. CASE faults'["error"] # 0
    BY <2>1 DEF ComplainsOfNoManifest
  <2>2. CASE faults'["error"] = 0
    <3>1. pc' = next /\ UNCHANGED faults
      BY <1>1, <2>2, SendDoes
    <3>2. StatusMessage("failed") \in sent' =>
            StatusMessage("failed") \in sent \/ pc = "complain"
      BY <1>1, SendDoes DEF StatusMessage
    <3>. QED
      BY <1>4, <2>2, <3>1, <3>2 DEF AgentInv, ComplainsOfNoManifest
  <2>. QED
    BY <2>1, <2>2
<1>. QED
  BY <1>2, <1>5, <1>6, <1>7, <1>8 DEF AgentInv

\* Handing in: the manifest is of the capture that both blobs hold.
LEMMA HandInKeepsInv ==
    ASSUME AgentInv, SendManifest
    PROVE  AgentInv'
<1>1. /\ TypeOK /\ pc = "hand_in" /\ folder = "whole" /\ blobs = Both
      /\ noted = media /\ ~processed
  BY SendDoes DEF AgentInv, SendManifest, CapturesOnce, UploadsTheCapture, Uploading,
     RemembersTheHandIn, ProcessedIsSettled
<1>2. /\ UNCHANGED <<known, processed, folder, media, noted, blobs, expired, commands>>
      /\ sent' \in {sent, sent \cup {HandIn}}
      /\ sends' \in 0 .. MaxSends - 1
      /\ faults' \in [{"crash", "error"} -> 0 .. MaxFaults]
      /\ \/ pc' = "remember" /\ HandIn \in sent'
         \/ pc' \in {"hand_in", "complain"} /\ faults'["error"] # 0
  BY <1>1, SendDoes DEF SendManifest
<1>3. TypeOK'
  <2>1. HandIn \in Message
    BY <1>1 DEF HandIn, Message, TypeOK
  <2>. QED
    BY <1>1, <1>2, <2>1 DEF TypeOK, Steps
<1>4. CapturesOnce'
  BY <1>1, <1>2 DEF AgentInv, CapturesOnce, Uploading
<1>5. \A m \in HandedIn' : m \in HandedIn \/ m.capture = media
  BY <1>1, <1>2 DEF HandedIn, HandIn
<1>6. UploadsTheCapture'
  BY <1>1, <1>2, <1>5 DEF AgentInv, UploadsTheCapture, Both
<1>7. RemembersTheHandIn'
  BY <1>1, <1>2 DEF RemembersTheHandIn, HandedIn, HandIn
<1>8. ComplainsOfNoManifest'
  <2>1. CASE faults'["error"] # 0
    BY <2>1 DEF ComplainsOfNoManifest
  <2>2. CASE faults'["error"] = 0
    <3>1. pc' = "remember" /\ UNCHANGED faults
      BY <1>1, <1>2, <2>2, SendDoes DEF SendManifest
    <3>2. StatusMessage("failed") \in sent' => StatusMessage("failed") \in sent
      BY <1>2 DEF StatusMessage, HandIn
    <3>. QED
      BY <1>1, <2>2, <3>1, <3>2 DEF AgentInv, ComplainsOfNoManifest
  <2>. QED
    BY <2>1, <2>2
<1>. QED
  BY <1>3, <1>4, <1>6, <1>7, <1>8 DEF AgentInv

\* Receiving, capturing and uploading: nothing is sent or remembered.
Silent == UNCHANGED <<sends, known, processed, sent, expired>>

LEMMA SilentKeepsInv ==
    ASSUME AgentInv, Silent, TypeOK', CapturesOnce', UploadsTheCapture',
           pc' # "remember",
           processed => pc' \in {"receive", "duplicate"},
           UNCHANGED faults \/ faults'["error"] # 0,
           pc' = "complain" => pc = "complain" \/ folder' \in {"made", "torn"}
                               \/ faults'["error"] # 0,
           folder' = folder \/ folder = "none" \/ pc = "note",
           pc' \in {"sense", "note"} => folder = "none" \/ pc = "sense"
    PROVE  AgentInv'
<1>1. HandedIn' = HandedIn
  BY DEF Silent, HandedIn
<1>2. RemembersTheHandIn'
  BY <1>1 DEF AgentInv, RemembersTheHandIn, ProcessedIsSettled, Silent
<1>3. ComplainsOfNoManifest'
  <2>1. CASE faults'["error"] # 0
    BY <2>1 DEF ComplainsOfNoManifest
  <2>2. CASE UNCHANGED faults
    BY <2>2 DEF AgentInv, ComplainsOfNoManifest, Silent, CapturesOnce
  <2>. QED
    BY <2>1, <2>2
<1>. QED
  BY <1>2, <1>3 DEF AgentInv

LEMMA ReceiveKeepsInv ==
    ASSUME AgentInv, Receive
    PROVE  AgentInv'
<1>1. commands + 1 \in 0 .. MaxCommands /\ commands + 1 # 0
  BY AgentConstants DEF AgentInv, TypeOK, Receive
<1>2. TypeOK'
  BY <1>1 DEF AgentInv, TypeOK, Steps, Receive
<1>3. CapturesOnce'
  BY <1>1 DEF AgentInv, CapturesOnce, Uploading, Receive
<1>4. UploadsTheCapture'
  BY DEF AgentInv, UploadsTheCapture, Both, HandedIn, Receive
<1>. QED
  BY <1>2, <1>3, <1>4, SilentKeepsInv
     DEF Receive, Silent, AgentInv, RemembersTheHandIn

LEMMA LookKeepsInv ==
    ASSUME AgentInv, Look
    PROVE  AgentInv'
<1>. USE DEF Look
<1>1. folder \in {"none", "made", "torn", "whole"}
  BY DEF AgentInv, TypeOK
<1>2. /\ folder \in {"none", "made"} => pc' = "shoot"
      /\ folder = "torn" => pc' = "complain"
      /\ folder = "whole" => pc' = "image"
  OBVIOUS
<1>3. TypeOK'
  BY <1>1, <1>2 DEF AgentInv, TypeOK, Steps
<1>4. CapturesOnce'
  BY <1>1, <1>2 DEF AgentInv, CapturesOnce, Uploading
<1>5. UploadsTheCapture'
  BY <1>1, <1>2 DEF AgentInv, UploadsTheCapture, Both, HandedIn
<1>6. ~processed
  BY DEF AgentInv, RemembersTheHandIn, ProcessedIsSettled
<1>. QED
  BY <1>1, <1>2, <1>3, <1>4, <1>5, <1>6, SilentKeepsInv DEF Silent

LEMMA ShootKeepsInv ==
    ASSUME AgentInv, Shoot
    PROVE  AgentInv'
<1>. USE DEF Shoot, Complain
<1>1. TypeOK'
  BY FaultTypes DEF AgentInv, TypeOK, Steps
<1>2. CapturesOnce'
  BY DEF AgentInv, CapturesOnce, Uploading
<1>3. UploadsTheCapture'
  BY DEF AgentInv, UploadsTheCapture, Both, HandedIn
<1>4. ~processed
  BY DEF AgentInv, RemembersTheHandIn, ProcessedIsSettled
<1>5. folder \in {"none", "made"}
  BY DEF AgentInv, CapturesOnce
<1>6. \/ UNCHANGED faults /\ (pc' = "sense" \/ folder' = "made")
      \/ faults'["error"] # 0 /\ pc' = "complain"
  BY <1>5, FaultTypes DEF AgentInv
<1>. QED
  BY <1>1, <1>2, <1>3, <1>4, <1>5, <1>6, SilentKeepsInv DEF Silent

LEMMA SenseKeepsInv ==
    ASSUME AgentInv, Sense
    PROVE  AgentInv'
<1>. USE DEF Sense, Complain
<1>1. folder = "made" /\ blobs = Blank /\ HandedIn = {} /\ commands # 0
  BY DEF AgentInv, CapturesOnce, UploadsTheCapture
<1>2. TypeOK'
  BY FaultTypes DEF AgentInv, TypeOK, Steps, Captures
<1>3. CapturesOnce'
  BY <1>1 DEF CapturesOnce, Uploading
<1>4. UploadsTheCapture'
  BY <1>1 DEF UploadsTheCapture, Blank, HandedIn
<1>5. ~processed
  BY DEF AgentInv, RemembersTheHandIn, ProcessedIsSettled
<1>6. UNCHANGED faults \/ faults'["error"] # 0
  BY FaultTypes DEF AgentInv
<1>. QED
  BY <1>1, <1>2, <1>3, <1>4, <1>5, <1>6, SilentKeepsInv DEF Silent

LEMMA NoteKeepsInv ==
    ASSUME AgentInv, Note
    PROVE  AgentInv'
<1>. USE DEF Note, Complain
<1>1. /\ folder = "made" /\ blobs = Blank /\ HandedIn = {}
      /\ commands # 0 /\ media # 0
  BY DEF AgentInv, CapturesOnce, UploadsTheCapture
<1>2. TypeOK'
  BY FaultTypes DEF AgentInv, TypeOK, Steps
<1>3. CapturesOnce'
  BY <1>1 DEF CapturesOnce, Uploading
<1>4. UploadsTheCapture'
  BY <1>1 DEF UploadsTheCapture, Blank, HandedIn
<1>5. ~processed
  BY DEF AgentInv, RemembersTheHandIn, ProcessedIsSettled
<1>6. UNCHANGED faults \/ faults'["error"] # 0
  BY FaultTypes DEF AgentInv
<1>. QED
  BY <1>1, <1>2, <1>3, <1>4, <1>5, <1>6, SilentKeepsInv DEF Silent

LEMMA FinishKeepsInv ==
    ASSUME AgentInv, Finish
    PROVE  AgentInv'
<1>. USE DEF Finish, Complain
<1>1. TypeOK'
  BY FaultTypes DEF AgentInv, TypeOK, Steps
<1>2. CapturesOnce'
  BY DEF AgentInv, CapturesOnce, Uploading
<1>3. UploadsTheCapture'
  BY DEF AgentInv, UploadsTheCapture, Both, HandedIn
<1>4. ~processed
  BY DEF AgentInv, RemembersTheHandIn, ProcessedIsSettled
<1>5. (pc' # "complain" /\ UNCHANGED faults) \/ faults'["error"] # 0
  BY FaultTypes DEF AgentInv
<1>. QED
  BY <1>1, <1>2, <1>3, <1>4, <1>5, SilentKeepsInv DEF Silent

\* A blob that is uploaded again gets the bytes it holds.
LEMMA UploadKeepsInv ==
    ASSUME AgentInv, UploadImage \/ UploadAudio
    PROVE  AgentInv'
<1>. USE DEF UploadImage, UploadAudio, Upload, Complain
<1>1. PICK name \in {"image", "audio"} :
          /\ pc = name
          /\ \/ /\ blobs' = [blobs EXCEPT ![name] = media]
                /\ pc' = (IF name = "image" THEN "audio" ELSE "hand_in")
                /\ UNCHANGED faults
             \/ /\ Fault("error") /\ pc' = "complain"
                /\ blobs' \in {blobs, [blobs EXCEPT ![name] = media]}
  OBVIOUS
<1>2. UNCHANGED <<sends, known, processed, folder, media, noted, sent, expired, commands>>
  OBVIOUS
<1>3. folder = "whole" /\ media # 0 /\ noted = media /\ commands # 0
  BY <1>1 DEF AgentInv, CapturesOnce, Uploading
<1>4. TypeOK'
  BY <1>1, <1>2, FaultTypes DEF AgentInv, TypeOK, Steps
<1>5. CapturesOnce'
  BY <1>1, <1>2, <1>3 DEF CapturesOnce
<1>6. UploadsTheCapture'
  <2>1. blobs \in [{"image", "audio"} -> Captures]
    BY DEF AgentInv, TypeOK
  <2>2. \A n \in {"image", "audio"} : blobs'[n] \in {blobs[n], media}
    BY <1>1, <2>1
  <2>3. HandedIn # {} => blobs' = blobs
    BY <1>1, <2>1 DEF AgentInv, UploadsTheCapture, Both
  <2>4. pc' = "audio" => blobs'["image"] = media
    BY <1>1, <2>1
  <2>5. pc' \in {"hand_in", "remember"} => blobs' = Both
    BY <1>1, <2>1 DEF AgentInv, UploadsTheCapture, Both
  <2>. QED
    BY <1>2, <1>3, <2>2, <2>3, <2>4, <2>5
       DEF AgentInv, UploadsTheCapture, Both, HandedIn
<1>7. ~processed
  BY <1>1 DEF AgentInv, RemembersTheHandIn, ProcessedIsSettled
<1>8. (pc' # "complain" /\ UNCHANGED faults) \/ faults'["error"] # 0
  BY <1>1, FaultTypes DEF AgentInv
<1>. QED
  BY <1>1, <1>2, <1>3, <1>4, <1>5, <1>6, <1>7, <1>8, SilentKeepsInv DEF Silent

LEMMA RememberKeepsInv ==
    ASSUME AgentInv, Remember
    PROVE  AgentInv'
<1>. USE DEF Remember, Complain
<1>1. /\ folder = "whole" /\ HandedIn # {} /\ ~processed /\ commands # 0
      /\ media # 0 /\ noted = media
  BY DEF AgentInv, CapturesOnce, RemembersTheHandIn, ProcessedIsSettled, Uploading
<1>2. TypeOK'
  BY FaultTypes DEF AgentInv, TypeOK, Steps
<1>3. CapturesOnce'
  BY <1>1 DEF CapturesOnce, Uploading
<1>4. UploadsTheCapture'
  BY <1>1 DEF AgentInv, UploadsTheCapture, Both, HandedIn
<1>5. RemembersTheHandIn'
  BY <1>1 DEF RemembersTheHandIn, ProcessedIsSettled, HandedIn
<1>6. ComplainsOfNoManifest'
  <2>1. (pc' # "complain" /\ UNCHANGED faults) \/ faults'["error"] # 0
    BY FaultTypes DEF AgentInv
  <2>. QED
    BY <1>1, <2>1 DEF AgentInv, ComplainsOfNoManifest
<1>. QED
  BY <1>2, <1>3, <1>4, <1>5, <1>6 DEF AgentInv

LEMMA PowerKeepsInv ==
    ASSUME AgentInv, Crash \/ Restart
    PROVE  AgentInv'
<1>. USE DEF Crash, Restart
<1>1. 0 \in 0 .. MaxSends - 1
  BY AgentConstants
<1>2. /\ UNCHANGED <<processed, media, noted, blobs, sent, expired, commands>>
      /\ pc' \in {"down", "receive"}
      /\ pc' = "receive" => known' = processed
      /\ pc' = "down" => UNCHANGED known
      /\ folder' = folder \/ (pc = "note" /\ folder' = "torn")
      /\ faults'["error"] = faults["error"]
  BY FaultTypes DEF AgentInv
<1>3. TypeOK'
  BY <1>1, FaultTypes DEF AgentInv, TypeOK, Steps
<1>4. CapturesOnce'
  BY <1>2 DEF AgentInv, CapturesOnce, Uploading
<1>5. UploadsTheCapture'
  BY <1>2 DEF AgentInv, UploadsTheCapture, CapturesOnce, Both, HandedIn
<1>6. RemembersTheHandIn'
  BY <1>2 DEF AgentInv, RemembersTheHandIn, ProcessedIsSettled, HandedIn
<1>7. ComplainsOfNoManifest'
  BY <1>2 DEF AgentInv, ComplainsOfNoManifest
<1>. QED
  BY <1>3, <1>4, <1>5, <1>6, <1>7 DEF AgentInv

LEMMA IdleKeepsInv ==
    ASSUME AgentInv, Expire \/ UNCHANGED vars
    PROVE  AgentInv'
<1>1. /\ UNCHANGED <<pc, sends, known, processed, folder, media, noted, blobs, sent,
                     commands, faults>>
      /\ expired' \in {expired, TRUE}
  BY DEF Expire, vars
<1>2. TypeOK'
  BY <1>1 DEF AgentInv, TypeOK
<1>3. CapturesOnce' /\ ComplainsOfNoManifest'
  BY <1>1 DEF AgentInv, CapturesOnce, ComplainsOfNoManifest
<1>4. UploadsTheCapture'
  BY <1>1 DEF AgentInv, UploadsTheCapture, Both, HandedIn
<1>5. RemembersTheHandIn'
  BY <1>1 DEF AgentInv, RemembersTheHandIn, ProcessedIsSettled, HandedIn
<1>. QED
  BY <1>2, <1>3, <1>4, <1>5 DEF AgentInv

LEMMA AgentInvStep == AgentInv /\ [Next]_vars => AgentInv'
<1>. SUFFICES ASSUME AgentInv, [Next]_vars PROVE AgentInv'
  OBVIOUS
<1>1. CASE SendDuplicate
  BY <1>1, StatusKeepsInv DEF SendDuplicate, Steps, Uploading
<1>2. ASSUME Announce \/ SendCapturing \/ SendFailed PROVE ~processed
  BY <1>2, SendDoes DEF AgentInv, RemembersTheHandIn, ProcessedIsSettled, Announce,
     SendCapturing, SendFailed
<1>3. CASE Announce
  BY <1>2, <1>3, StatusKeepsInv DEF Announce, Steps, Uploading
<1>4. CASE SendCapturing
  BY <1>2, <1>4, StatusKeepsInv DEF SendCapturing, Steps, Uploading
<1>5. CASE SendFailed
  BY <1>2, <1>5, StatusKeepsInv DEF SendFailed, Steps, Uploading
<1>. QED
  BY <1>1, <1>3, <1>4, <1>5, HandInKeepsInv, ReceiveKeepsInv, LookKeepsInv,
     ShootKeepsInv, SenseKeepsInv, NoteKeepsInv, FinishKeepsInv, UploadKeepsInv,
     RememberKeepsInv, PowerKeepsInv, IdleKeepsInv
     DEF Next, Step

-----------------------------------------------------------------------------
\* Theorems

\* Whatever is delivered again, cut off or fails, the device's invariant
\* holds.
THEOREM AgentInvHolds == Spec => []AgentInv
<1>. QED
  BY AgentInvInit, AgentInvStep, PTL DEF Spec

\* iot_agent._upload_and_send_manifest: the blobs hold for good what a
\* manifest that was handed in is made of.
THEOREM HandedInIsUploadedHolds == Spec => []HandedInIsUploaded
<1>1. AgentInv => HandedInIsUploaded
  BY DEF AgentInv, CapturesOnce, UploadsTheCapture, HandedInIsUploaded, Both
<1>. QED
  BY <1>1, AgentInvHolds, PTL

\* ProcessedCommandStore: a command on the disk was handed in and is never
\* worked on again.
THEOREM ProcessedIsSettledHolds == Spec => []ProcessedIsSettled
<1>1. AgentInv => ProcessedIsSettled
  BY DEF AgentInv, RemembersTheHandIn, ProcessedIsSettled
<1>. QED
  BY <1>1, AgentInvHolds, PTL

\* process_command: crashes alone never lead to both a hand-in and a report
\* of failure.
THEOREM HandInIsFinalHolds == Spec => []HandInIsFinal
<1>1. AgentInv => HandInIsFinal
  BY DEF AgentInv, UploadsTheCapture, ComplainsOfNoManifest, HandInIsFinal
<1>. QED
  BY <1>1, AgentInvHolds, PTL

\* The agent implements the evidence directory: real_capture makes it once,
\* and a whole manifest and its media are never written again.
THEOREM KeepsFolderHolds == Spec => KeepsFolder
<1>1. Init => Folder!Init
  BY DEF Init, Folder!Init
<1>2. AgentInv /\ [Next]_vars => [Folder!Next]_<<folder, media>>
  <2>. SUFFICES ASSUME AgentInv, [Next]_vars, ~UNCHANGED <<folder, media>>
                PROVE  Folder!Next
    OBVIOUS
  <2>. USE DEF AgentInv, CapturesOnce, Folder!Next, Folder!Make, Folder!Record, Folder!Write
  <2>1. CASE Shoot
    BY <2>1 DEF Shoot
  <2>2. CASE Sense
    BY <2>2 DEF Sense
  <2>3. CASE Note
    BY <2>3 DEF Note
  <2>4. CASE Crash
    BY <2>4 DEF Crash
  <2>5. CASE SendDuplicate \/ Announce \/ SendCapturing \/ SendManifest \/ SendFailed
    BY <2>5 DEF SendDuplicate, Announce, SendCapturing, SendManifest, SendFailed, Send
  <2>6. CASE \/ Receive \/ Look \/ Finish \/ UploadImage \/ UploadAudio \/ Remember
             \/ Restart \/ Expire \/ UNCHANGED vars
    BY <2>6 DEF Receive, Look, Finish, UploadImage, UploadAudio, Upload, Remember,
       Restart, Expire, vars
  <2>. QED
    BY <2>1, <2>2, <2>3, <2>4, <2>5, <2>6 DEF Next, Step
<1>. QED
  BY <1>1, <1>2, AgentInvHolds, PTL DEF Spec, KeepsFolder, Folder!Spec
=============================================================================

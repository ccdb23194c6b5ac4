---------------------------- MODULE ProofLedger -----------------------------
(***************************************************************************)
(* What issuing promises about one session, without requests, etags,       *)
(* polling or crashes: the session is claimed once for a proof_id and a    *)
(* signing profile, one record is published under that claim, and only     *)
(* then is the session announced as issued.  A failure may close the       *)
(* session at any time, and may cost it its claim.                         *)
(***************************************************************************)
CONSTANTS ProofIds, Keys, Manifests, Salts, NoId, NoKey

VARIABLES
    claim,      \* the proof_id and signing profile the session is bound to
    published,  \* Proof records readers can fetch
    phase       \* "open", "issued" or "failed"

ledgerVars == <<claim, published, phase>>

NoClaim == [id |-> NoId, key |-> NoKey]

Init ==
    /\ claim = NoClaim
    /\ published = {}
    /\ phase = "open"

Claim ==
    /\ phase = "open"
    /\ claim = NoClaim
    /\ \E id \in ProofIds, k \in Keys : claim' = [id |-> id, key |-> k]
    /\ UNCHANGED <<published, phase>>

\* The record may still appear after a failure, under the claim or after its
\* loss: readers must look at the phase too.
Publish ==
    /\ published = {}
    /\ \E id \in ProofIds, k \in Keys \cup {NoKey}, m \in Manifests, s \in Salts :
         /\ claim = [id |-> id, key |-> k] \/ (claim = NoClaim /\ phase = "failed")
         /\ published' = {[id |-> id, key |-> k, manifest |-> m, salt |-> s]}
    /\ UNCHANGED <<claim, phase>>

Announce ==
    /\ phase = "open"
    /\ published # {}
    /\ phase' = "issued"
    /\ UNCHANGED <<claim, published>>

\* A failure closes the session, and may cost it its claim, then or later.
Close ==
    /\ phase' = "failed"
    /\ claim' \in {claim, NoClaim}
    /\ UNCHANGED published

Next == Claim \/ Publish \/ Announce \/ Close

Spec == Init /\ [][Next]_ledgerVars
=============================================================================

----------------------------- MODULE DemoClient ------------------------------
(***************************************************************************)
(* The demonstration client (bin/client.rs) against the running sequencer:  *)
(* it submits a root for each issuer at once, waits for every answer, then  *)
(* updates the first of the accepted ones at once, each with the number it  *)
(* was told, and waits again.  Roots are random, so all of them differ.     *)
(* Sequencer supplies the server; the client gives nothing up.              *)
(***************************************************************************)
EXTENDS Sequencer

CONSTANTS
  Issuers,     \* how many key pairs it makes (twenty), the numbers 1..Issuers
  MaxUpdates,  \* how many of them it updates (ten)
  submitOf, updateOf,  \* issuer |-> the request of its submission, of its update
  rootOfIssuer, newRootOfIssuer

(* What it sends for issuer i: its root, and later the replacement of that  *)
(* root in batch n.                                                        *)
Submission(i) == [kind |-> "submit", root |-> rootOfIssuer[i], verdict |-> "valid"]
Update(i, n) ==
  [kind |-> "update", old |-> rootOfIssuer[i], new |-> newRootOfIssuer[i], seq |-> n]

DemoCalls ==
  {Submission(i) : i \in 1..Issuers} \cup {Update(i, n) : i \in 1..Issuers, n \in 0..LastSeq}

ASSUME DemoAssumption ==
  /\ Issuers \in Nat \ {0} /\ MaxUpdates \in Nat
  /\ {submitOf, updateOf} \subseteq [1..Issuers -> Requests]
  /\ {rootOfIssuer, newRootOfIssuer} \subseteq [1..Issuers -> Leaves]
  /\ DemoCalls \subseteq Calls
  /\ \A i, j \in 1..Issuers :
       /\ submitOf[i] # updateOf[j] /\ rootOfIssuer[i] # newRootOfIssuer[j]
       /\ i # j => /\ submitOf[i] # submitOf[j] /\ updateOf[i] # updateOf[j]
                   /\ rootOfIssuer[i] # rootOfIssuer[j]

VARIABLES
  step,      \* "submitting", "updating", "done" or "aborted"
  accepted,  \* issuer |-> the number its submission was answered with
  signature  \* issuer |-> what the signature of its update is over

clientVars == <<step, accepted, signature>>
demoVars == <<vars, clientVars>>

DemoInit ==
  /\ Init
  /\ step = "submitting"
  /\ accepted = Store!Empty
  /\ signature = Store!Empty

(* Step 1, one task for each issuer. *)
SubmitRoot(i) ==
  /\ step = "submitting"
  /\ UNCHANGED clientVars
  /\ Make(submitOf[i], Submission(i))

(* A response or a gRPC error has arrived. *)
Over(r) == stage[r] \in {"done", "lost"}
AcceptedOver(r) == stage[r] = "done" /\ reply[r].status = "Accepted"

(* All submissions are collected; nothing is left to do if none succeeded.  *)
CollectSubmissions ==
  /\ step = "submitting"
  /\ \A i \in 1..Issuers : Over(submitOf[i])
  /\ accepted' = [i \in {j \in 1..Issuers : AcceptedOver(submitOf[j])} |->
                    reply[submitOf[i]].seq]
  /\ step' = IF DOMAIN accepted' = {} THEN "aborted" ELSE "updating"
  /\ UNCHANGED <<vars, signature>>

(* The first MaxUpdates of the accepted issuers. *)
ToUpdate == {i \in DOMAIN accepted : Cardinality({j \in DOMAIN accepted : j < i}) < MaxUpdates}

(* Mutation of NumberFor: every update names the batch of the first one. *)
NumberOfFirst(i) == accepted[CHOOSE j \in DOMAIN accepted : \A k \in DOMAIN accepted : j <= k]

NumberFor(i) == accepted[i]

(* Step 3, one task for each update.  The signature is over the new root.   *)
UpdateRoot(i) ==
  /\ step = "updating"
  /\ i \in ToUpdate
  /\ signature' = Store!Put(i, <<newRootOfIssuer[i]>>, signature)
  /\ UNCHANGED <<step, accepted>>
  /\ Make(updateOf[i], Update(i, NumberFor(i)))

CollectUpdates ==
  /\ step = "updating"
  /\ \A i \in ToUpdate : Over(updateOf[i])
  /\ step' = "done"
  /\ UNCHANGED <<vars, accepted, signature>>

Server ==
  /\ UNCHANGED clientVars
  /\ (\E r \in Requests : Handler(r)) \/ SubEngine \/ UpdEngine \/ SubWorker \/ UpdWorker \/ Crash

DemoNext ==
  \/ \E i \in 1..Issuers : SubmitRoot(i) \/ UpdateRoot(i)
  \/ CollectSubmissions
  \/ CollectUpdates
  \/ Server

DemoSpec == DemoInit /\ [][DemoNext]_demoVars

-----------------------------------------------------------------------------
(* What the client prints as done is so and stays so: the issuer's slot of  *)
(* the batch it was told holds the new root, with other updates of the same *)
(* and of other batches beside it, failing writes and a crash in between    *)
(* (client.rs:126-128, 162-172, 231-237).                                   *)
ReportedUpdatesHold ==
  \A i \in DOMAIN signature : Answered(updateOf[i], "Accepted") =>
    \A k \in DOMAIN committed[accepted[i]] :
      committed[accepted[i]][k] = submitOf[i] => leavesOf[accepted[i]][k] = newRootOfIssuer[i]

(* "signature on current_credential_root+updated_credential_root"           *)
(* (provers/common/src/lib.rs:23): the message the update guest verifies.   *)
SignedPair ==
  \A i \in DOMAIN signature : signature[i] = <<rootOfIssuer[i], newRootOfIssuer[i]>>
=============================================================================

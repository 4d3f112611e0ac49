---------------------------- MODULE ValidiumRoots ----------------------------
(***************************************************************************)
(* The contract ValidiumRoots (contracts/StateVerifier.sol): the list of    *)
(* global roots, extended and changed by whoever presents a proof that the  *)
(* RISC Zero verifier accepts for the image that the owner has set.  A      *)
(* transaction runs as a whole or is reverted; transactions come in any     *)
(* order.  Indices count from one here.                                    *)
(***************************************************************************)
EXTENDS Integers, Sequences

CONSTANTS
  RootValues,  \* bytes32
  Images,      \* image ids
  Receipts,    \* pairs <<image, journal>> for which some seal is accepted;
               \* a journal is a sequence of words
  MaxEvents    \* bound on the transactions that are explored

ASSUME RootsAssumption ==
  /\ Receipts \subseteq Images \X Seq(RootValues)
  /\ MaxEvents \in Nat

VARIABLES
  appendImageId, updateImageId,
  globalRoots,
  log          \* the events RootAppended and RootUpdated, oldest first

rootsVars == <<appendImageId, updateImageId, globalRoots, log>>

RootsInit ==
  /\ appendImageId \in Images /\ updateImageId \in Images
  /\ globalRoots = <<>>
  /\ log = <<>>

Appended(i, new) == [event |-> "appended", index |-> i, old |-> new, new |-> new]
Updated(i, old, new) == [event |-> "updated", index |-> i, old |-> old, new |-> new]

(* The owner follows a new build of a guest: proofs made with the old one   *)
(* are refused from now on.                                                *)
SetAppendImageId(image) ==
  /\ appendImageId' = image
  /\ UNCHANGED <<updateImageId, globalRoots, log>>
SetUpdateImageId(image) ==
  /\ updateImageId' = image
  /\ UNCHANGED <<appendImageId, globalRoots, log>>

(* Mutation of AppendRoot: the event carries the length. *)
AppendRootLogsLength(journal) ==
  /\ Len(log) < MaxEvents
  /\ <<appendImageId, journal>> \in Receipts
  /\ Len(journal) >= 1
  /\ globalRoots' = Append(globalRoots, journal[1])
  /\ log' = Append(log, Appended(Len(globalRoots), journal[1]))
  /\ UNCHANGED <<appendImageId, updateImageId>>

AppendRoot(journal) ==
  /\ Len(log) < MaxEvents
  /\ <<appendImageId, journal>> \in Receipts
  /\ Len(journal) >= 1
  /\ globalRoots' = Append(globalRoots, journal[1])
  /\ log' = Append(log, Appended(Len(globalRoots) + 1, journal[1]))
  /\ UNCHANGED <<appendImageId, updateImageId>>

(* Mutation of UpdateRoot: the state is not compared. *)
UpdateRootBlindly(i, journal) ==
  /\ Len(log) < MaxEvents
  /\ <<updateImageId, journal>> \in Receipts
  /\ Len(journal) >= 2
  /\ i \in DOMAIN globalRoots
  /\ globalRoots' = [globalRoots EXCEPT ![i] = journal[2]]
  /\ log' = Append(log, Updated(i, journal[1], journal[2]))
  /\ UNCHANGED <<appendImageId, updateImageId>>

(* Compare and set: a proof about a root that has been replaced meanwhile   *)
(* is reverted with "State mismatch".                                      *)
UpdateRoot(i, journal) ==
  /\ Len(log) < MaxEvents
  /\ <<updateImageId, journal>> \in Receipts
  /\ Len(journal) >= 2
  /\ i \in DOMAIN globalRoots
  /\ globalRoots[i] = journal[1]
  /\ globalRoots' = [globalRoots EXCEPT ![i] = journal[2]]
  /\ log' = Append(log, Updated(i, journal[1], journal[2]))
  /\ UNCHANGED <<appendImageId, updateImageId>>

RootsNext ==
  \/ \E image \in Images : SetAppendImageId(image) \/ SetUpdateImageId(image)
  \/ \E receipt \in Receipts :
       \/ AppendRoot(receipt[2])
       \/ \E i \in 1..Len(globalRoots) : UpdateRoot(i, receipt[2])

RootsSpec == RootsInit /\ [][RootsNext]_rootsVars

-----------------------------------------------------------------------------
(* The last event about index i among the first n left it with this root.   *)
LastRoot(i, root, n) ==
  \E j \in 1..n : /\ log[j].index = i /\ log[j].new = root
                  /\ \A k \in (j + 1)..n : log[k].index # i

(* Who only follows the events knows the list of roots, and sees each index *)
(* go from proven state to proven state: an update starts from the root     *)
(* that the event before it left, although many provers work on the same    *)
(* index at once (StateVerifier.sol:56-74).                                *)
EventsTellRoots ==
  /\ \A i \in DOMAIN globalRoots : LastRoot(i, globalRoots[i], Len(log))
  /\ \A k \in DOMAIN log :
       log[k].event = "updated" => LastRoot(log[k].index, log[k].old, k - 1)
=============================================================================

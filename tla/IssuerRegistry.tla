---------------------------- MODULE IssuerRegistry ----------------------------
(***************************************************************************)
(* The contract IssuerRegistry (contracts/issuer.sol): a mapping and a list *)
(* of addresses that are kept beside each other, and the paged view of the  *)
(* list, read by someone who asks for page after page while others register.*)
(***************************************************************************)
EXTENDS Integers, Sequences

CONSTANTS
  Addresses,   \* the accounts, the zero address among them
  ZeroAddress,
  Names,
  Limits,      \* page sizes that are asked for
  MaxWord      \* the largest uint256

ASSUME RegistryAssumption ==
  /\ MaxWord \in Nat
  /\ Limits \subseteq 0..MaxWord

VARIABLES
  issuers,          \* address |-> [name, isApproved, isActive]
  issuerAddresses,
  collected,        \* the pages a reader has put together
  complete          \* its last page was the last one

registryVars == <<issuers, issuerAddresses, collected, complete>>

NoIssuer == [name |-> "", isApproved |-> FALSE, isActive |-> FALSE]

RegistryInit ==
  /\ issuers = [a \in Addresses |-> NoIssuer]
  /\ issuerAddresses = <<>>
  /\ collected = <<>> /\ complete = FALSE

(* Mutation of RegisterIssuer: who is registered may register again. *)
RegisterIssuerAgain(a, name) ==
  /\ a # ZeroAddress
  /\ Len(issuerAddresses) < MaxWord
  /\ issuers' = [issuers EXCEPT ![a] =
                   [name |-> name, isApproved |-> FALSE, isActive |-> TRUE]]
  /\ issuerAddresses' = Append(issuerAddresses, a)
  /\ complete' = FALSE /\ UNCHANGED collected

(* Anybody registers anybody, once. *)
RegisterIssuer(a, name) ==
  /\ a # ZeroAddress
  /\ ~issuers[a].isActive
  /\ issuers' = [issuers EXCEPT ![a] =
                   [name |-> name, isApproved |-> FALSE, isActive |-> TRUE]]
  /\ issuerAddresses' = Append(issuerAddresses, a)
  /\ complete' = FALSE /\ UNCHANGED collected

(* Mutation of ApproveIssuer: who is not registered is made an issuer. *)
ApproveAnyone(a) ==
  /\ issuers' = [issuers EXCEPT ![a].isApproved = TRUE, ![a].isActive = TRUE]
  /\ UNCHANGED <<issuerAddresses, collected, complete>>

(* The owner approves. *)
ApproveIssuer(a) ==
  /\ issuers[a].isActive
  /\ issuers' = [issuers EXCEPT ![a].isApproved = TRUE]
  /\ UNCHANGED <<issuerAddresses, collected, complete>>

(* Mutation of PageSize: one short at the end of the list. *)
PageSizeShort(offset, limit) ==
  LET total == Len(issuerAddresses)
  IN IF offset + limit > total THEN total - offset - 1 ELSE limit

PageSize(offset, limit) ==
  LET total == Len(issuerAddresses)
  IN IF offset + limit > total THEN total - offset ELSE limit

(* getAllIssuerAddresses: nothing beyond the end, a cut page at the end; a  *)
(* sum that does not fit into a word reverts.                              *)
Reverts(offset, limit) ==
  offset < Len(issuerAddresses) /\ limit # 0 /\ offset + limit > MaxWord
Page(offset, limit) ==
  IF offset >= Len(issuerAddresses) \/ limit = 0 THEN <<>>
  ELSE SubSeq(issuerAddresses, offset + 1, offset + PageSize(offset, limit))

(* A reader asks for the page behind what it has; a page that is not full   *)
(* is its last.                                                            *)
ReadPage(limit) ==
  LET offset == Len(collected)
  IN /\ limit # 0 /\ ~Reverts(offset, limit)
     /\ collected' = collected \o Page(offset, limit)
     /\ complete' = (Len(Page(offset, limit)) < limit)
     /\ UNCHANGED <<issuers, issuerAddresses>>

RegistryNext ==
  \/ \E a \in Addresses : (\E name \in Names : RegisterIssuer(a, name)) \/ ApproveIssuer(a)
  \/ \E limit \in Limits : ReadPage(limit)

RegistrySpec == RegistryInit /\ [][RegistryNext]_registryVars

-----------------------------------------------------------------------------
(* The list and the mapping agree: the list holds each registered address   *)
(* once and no other, so that paging through it enumerates the mapping      *)
(* (issuer.sol:24-42).                                                     *)
ListIsMapping ==
  /\ \A a \in Addresses :
       issuers[a].isActive <=> \E k \in DOMAIN issuerAddresses : issuerAddresses[k] = a
  /\ \A j, k \in DOMAIN issuerAddresses : issuerAddresses[j] = issuerAddresses[k] => j = k

(* A later registration takes away neither an approval nor a name, although *)
(* it writes the whole record and anybody may make it (issuer.sol:24-42).   *)
IssuersKeep ==
  [][ \A a \in Addresses : issuers[a].isActive =>
        /\ issuers'[a].isActive /\ issuers'[a].name = issuers[a].name
        /\ issuers[a].isApproved => issuers'[a].isApproved ]_registryVars

(* Pages read while others register fit together without gap or duplicate,  *)
(* and a page that is not full means that nothing is missing               *)
(* (issuer.sol:44-62).                                                     *)
PagesComplete ==
  /\ Len(collected) <= Len(issuerAddresses)
  /\ collected = SubSeq(issuerAddresses, 1, Len(collected))
  /\ complete => collected = issuerAddresses
=============================================================================

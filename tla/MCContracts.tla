----------------------------- MODULE MCContracts -----------------------------
(* Both contracts on one chain, a transaction or a view at a time.          *)
EXTENDS ValidiumRoots, IssuerRegistry

CONSTANTS rootA, rootB, rootC, imageOld, imageNew

MCRootValues == {rootA, rootB, rootC}

(* Two provers that start from the same root, one step back, one proof made *)
(* with the image to come, and roots to append.                            *)
MCReceipts ==
  { <<imageOld, <<rootA>>>>, <<imageOld, <<rootB>>>>,
    <<imageOld, <<rootA, rootB>>>>, <<imageOld, <<rootA, rootC>>>>,
    <<imageOld, <<rootB, rootA>>>>, <<imageNew, <<rootB, rootC>>>> }

MCNames == {"one", "two"}

ContractsInit == RootsInit /\ RegistryInit
ContractsNext ==
  \/ RootsNext /\ UNCHANGED registryVars
  \/ RegistryNext /\ UNCHANGED rootsVars
ContractsSpec == ContractsInit /\ [][ContractsNext]_<<rootsVars, registryVars>>
=============================================================================

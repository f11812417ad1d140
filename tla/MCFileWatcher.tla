--------------------------- MODULE MCFileWatcher ----------------------------
(***************************************************************************)
(* Instance of FileWatcher for TLC: the files of a manager that            *)
(* unregisters first and of one that frees its state first (TokenManager), *)
(* which is the last to be destroyed, as in DialogManager.                 *)
(***************************************************************************)
EXTENDS FileWatcher

CONSTANTS services, tokens

MCFile == {services, tokens}
MCInitOrder == <<services, tokens>>
MCDestroyOrder == <<services, tokens>>
MCReleasesFirst == {tokens}
=============================================================================

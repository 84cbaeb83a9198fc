---------------------------- MODULE MCFolderSync ----------------------------
(***************************************************************************)
(* FolderSync with both kinds of store, an atomic one that holds the vault *)
(* and a folder to which the devices have just turned. Devices that race   *)
(* in a folder merge, after a lost race, onto a file that is not the       *)
(* head's, again and again, so that the number of generations has to be    *)
(* bounded: there a push starts only while fewer than MaxSealed are        *)
(* sealed. Processes die only beside a folder; what a torn pull does to a  *)
(* shared vault is KeyVault's.                                             *)
(***************************************************************************)
EXTENDS FolderSync

CONSTANT MaxSealed

StoreInit == Init /\ atomic /\ head # None

FolderInit == Init /\ ~atomic /\ head = None

BoundedNext ==
  \E d \in Device :
    \/ \E k \in Key : Import(d, k)
    \/ Pull(d)
    \/ (atomic \/ Len(sealed) < MaxSealed) /\ Push(d)
    \/ Continue(d)
    \/ StoreFails(d) \/ PutUnanswered(d) \/ SwapUnanswered(d)
    \/ ~atomic /\ Crash(d)

BothSpec ==
  (StoreInit \/ FolderInit) /\ [][BoundedNext]_vars /\ Fairness

StoreSpec == StoreInit /\ [][Next]_vars /\ Fairness
=============================================================================

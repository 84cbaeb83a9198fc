---------------------------- MODULE SharedVault ----------------------------
(***************************************************************************)
(* What the devices of one vault and the host that stores it promise each  *)
(* other, with generations, hashes and messages left out: the host holds   *)
(* one growing set of facts about keys, every device holds its own, and    *)
(* facts travel between them without any of them being dropped.            *)
(*                                                                         *)
(* KeyVault.tla implements it with sealed generations and a compare-and-   *)
(* append host record, FolderSync.tla with files and a head that is        *)
(* swapped where the store tests and writes in one step.                   *)
(***************************************************************************)
CONSTANTS Device,   \* the devices that hold, or may come to hold, the vault
          Fact      \* what an edit can add: a key, its retirement, ...

VARIABLES shared,   \* the facts in the generation the host serves
          held      \* held[d]: the facts in the container device d stores

vars == <<shared, held>>

Init == /\ shared = {}
        /\ held = [d \in Device |-> {}]

\* A device changes its own copy: facts are only ever added.
Edit(d) == /\ \E F \in SUBSET Fact : held' = [held EXCEPT ![d] = @ \cup F]
           /\ UNCHANGED shared

\* A device's copy becomes the shared one. It may do so only when it already
\* holds everything that was shared.
Publish(d) == /\ shared \subseteq held[d]
              /\ shared' = held[d]
              /\ UNCHANGED held

\* A device takes in facts that were shared, and keeps all of its own.
Receive(d) == /\ \E F \in SUBSET shared : held' = [held EXCEPT ![d] = @ \cup F]
              /\ UNCHANGED shared

\* A device gives its copy up, with whatever was never published.
Leave(d) == /\ held' = [held EXCEPT ![d] = {}]
            /\ UNCHANGED shared

Next == \E d \in Device : Edit(d) \/ Publish(d) \/ Receive(d) \/ Leave(d)

Spec == Init /\ [][Next]_vars
============================================================================

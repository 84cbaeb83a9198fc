----------------------------- MODULE MCKeyVault -----------------------------
(***************************************************************************)
(* Instances of KeyVault for TLC. Spec with all its inputs grows fast, so  *)
(* the runs with faults take every call, but not every combination of its  *)
(* inputs (EditNext), or only the calls that meet in a conflict: the       *)
(* import of an active key without metadata, pushed or not, a change that  *)
(* fails, the removal of the device's own slot, sync and clear (SyncNext). *)
(***************************************************************************)
EXTENDS KeyVault

\* Every call on every device. An import is of an active key without metadata,
\* pushed or not, or of a revoked one with metadata, which seals three
\* generations that stay on the device.
EditNext ==
  \E d \in Device :
    \/ Open(d) \/ CommitFails(d) \/ AdoptRead(d) \/ Push(d) \/ Clear(d)
    \/ \E k \in Key : \/ \E push \in BOOLEAN : Import(d, k, "active", FALSE, push)
                      \/ Import(d, k, "retired", FALSE, FALSE)
                      \/ Import(d, k, "revoked", TRUE, FALSE)
                      \/ SetKeyMeta(d, k)
                      \/ \E kind \in {"retired", "revoked", "tombstone"} :
                           ChangeKey(d, k, kind)
    \/ \E slot \in Hashes : RemoveDevice(d, slot)
    \/ \E sync \in BOOLEAN : PullRead(d, sync)
    \/ Continue(d)
    \/ Disturb(d)

EditSpec == Init /\ [][EditNext]_vars

\* Imports, syncs, clears and the removal of its own slot on every device, and
\* the given faults.
SyncNext ==
  \E d \in Device :
    \/ Open(d) \/ CommitFails(d) \/ AdoptRead(d) \/ Push(d) \/ Clear(d)
    \/ \E k \in Key, push \in BOOLEAN : Import(d, k, "active", FALSE, push)
    \/ RemoveDevice(d, store[d].slot)
    \/ PullRead(d, TRUE)
    \/ Continue(d)
    \/ Disturb(d)

SyncSpec == Init /\ [][SyncNext]_vars

FairSyncSpec == SyncSpec /\ Fairness
=============================================================================

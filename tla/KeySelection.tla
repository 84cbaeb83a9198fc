---------------------------- MODULE KeySelection ----------------------------
(***************************************************************************)
(* Which of a mailbox's published keys a sender encrypts to: the keys of a *)
(* discovery document (document.rs) and the choice among them by what the  *)
(* sender's client supports and prefers (select.rs).                       *)
(*                                                                         *)
(* A list is a function of the places in the document: what a filter       *)
(* leaves out has no place in the next list, the others keep their order.  *)
(***************************************************************************)
EXTENDS Integers, Sequences, FiniteSets

CONSTANTS
  Algorithm,      \* names of algorithms
  PqAlgorithm     \* those is_pq_algorithm takes for post-quantum ones

ASSUME AlgorithmAssumption == PqAlgorithm \subseteq Algorithm

None == "none"

\* A key of capabilities.crypto.encryption.keys: its algorithms in order,
\* and whether it has a public key at all.
Family      == {"openpgp", "pgp", "smime", "other"}
WireFamily  == {"pgp", "smime"}

is_wire_family(family) == family \in WireFamily

algorithm_preference_rank(algorithm) ==
  IF algorithm \in PqAlgorithm THEN 1 ELSE 0

family_preference_rank(family) == CASE family = "smime" -> 1
                                    [] family = "pgp"   -> 0
                                    [] OTHER            -> -1

-----------------------------------------------------------------------------
WireName(family) == IF family = "openpgp" THEN "pgp" ELSE family

\* The places of the keys that become artifacts.
Usable(keys) ==
  {i \in DOMAIN keys : /\ is_wire_family(WireName(keys[i].family))
                       /\ keys[i].algorithms # <<>>
                       /\ keys[i].material}

\* How many come before place i.
Index(places, i) == Cardinality({j \in places : j < i})

\* Only the first of a key's algorithms counts.
encryption_artifacts_for_selection(keys) ==
  [i \in Usable(keys) |->
     [family |-> WireName(keys[i].family),
      algorithm |-> keys[i].algorithms[1],
      status |-> "active", purpose |-> "encryption", material |-> "key",
      key_id |-> Index(Usable(keys), i), published_key_id |-> keys[i].keyId]]

\* The filters of select_best_artifact. What an artifact lacks ("none") is
\* let through; supported is the set of family and algorithm pairs.
Suits(artifact, supported, purpose) ==
  /\ artifact.status \in {None, "active"}
  /\ artifact.material # "empty"
  /\ is_wire_family(artifact.family)
  /\ None \in {purpose, artifact.purpose} \/ artifact.purpose = purpose
  /\ <<artifact.family, artifact.algorithm>> \in supported

\* Mutant: the preferred family may have any algorithm.
PreferredFamily(artifact, prefs) == artifact.family = prefs.family

Preferred(artifact, prefs) ==
  /\ is_wire_family(prefs.family)
  /\ artifact.family = prefs.family
  /\ prefs.algorithm \in {None, artifact.algorithm}

\* The comparator of sort_by: a comes before b.
Before(a, b) ==
  LET pq(x)  == algorithm_preference_rank(x.algorithm)
      fam(x) == family_preference_rank(x.family)
  IN  \/ pq(a) > pq(b)
      \/ pq(a) = pq(b) /\ fam(a) > fam(b)
      \/ pq(a) = pq(b) /\ fam(a) = fam(b) /\ a.key_id > b.key_id

\* Where sort_by puts the first: it is stable, so that of two that the
\* comparator does not tell apart the earlier one stays before the other.
FirstSorted(artifacts, candidates) ==
  {i \in candidates : \A j \in candidates :
    /\ ~Before(artifacts[j], artifacts[i])
    /\ j < i => Before(artifacts[i], artifacts[j])}

select_best_artifact(artifacts, supported, prefs, purpose) ==
  LET candidates == {i \in DOMAIN artifacts :
                       Suits(artifacts[i], supported, purpose)}
      preferred  == {i \in candidates : Preferred(artifacts[i], prefs)}
      chosen == IF preferred # {}
                  THEN {i \in preferred : \A j \in preferred : i <= j}
                  ELSE FirstSorted(artifacts, candidates)
  IN  {artifacts[i] : i \in chosen}

select_best_encryption_key(keys, supported, prefs) ==
  select_best_artifact(encryption_artifacts_for_selection(keys), supported,
                       prefs, "encryption")
=============================================================================

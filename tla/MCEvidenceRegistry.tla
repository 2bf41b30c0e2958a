------------------------- MODULE MCEvidenceRegistry -------------------------
(* Instances of EvidenceRegistry for TLC.  Producers, contents, timestamps *)
(* and the ids of a table are only ever compared for equality, so each of  *)
(* these sets of model values is a symmetry set.                           *)
EXTENDS EvidenceRegistry, Naturals, FiniteSets, TLC

Symmetry ==
  UNION {Permutations(S) : S \in
    {Producers, Contents, Stamps, RunIds, EvidenceIds, ExperimentIds}}

Kinds == {"experiment", "run", "evidence", "artifact"}

MaxAnswers == 3

(* The bound of the run: three different 201s of any kinds, or the whole   *)
(* chain, one of each kind, of which the evidence alone has a key.         *)
(* Replays, closes, attaches and refused calls are not counted.            *)
FewAnswers ==
  \/ Cardinality(acks) <= MaxAnswers
  \/ /\ Cardinality(acks) = Cardinality(Kinds)
     /\ {a[1] : a \in acks} = Kinds
     /\ \A a \in acks : a[1] # "evidence" => a[3] = None

(* Spec, as far as FewAnswers goes.                                        *)
FewNext == Next /\ FewAnswers'
FewSpec == Init /\ [][FewNext]_vars
=============================================================================

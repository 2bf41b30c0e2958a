--------------------------- MODULE MCRegistryApi ---------------------------
(* Instances of RegistryApi for TLC: plain names, and names with a colon.  *)
EXTENDS RegistryApi, Naturals, FiniteSets, TLC

PlainProducers == {<<"a">>, <<"b">>}

(* A key, and the empty one, which is a key for the store only.            *)
PlainKeys == {<<"k">>, <<>>}

(* ("a:b", "c") and ("a", "b:c") read the same once joined with a colon.   *)
ColonProducers == {<<"a">>, <<"a", ":", "b">>}
ColonKeys      == {<<"c">>, <<"b", ":", "c">>}

DerivedIds ==
  {DerivedId(p, k) : p \in Producers, k \in {l \in Keys : l \notin Blank}}
DerivedOrDrawn == DerivedIds \cup RandomIds
OneDerived == {DerivedId(<<"a">>, <<"k">>)}

Symmetry == Permutations(Contents) \cup Permutations(Stamps)
              \cup Permutations(RandomIds)

MaxAnswers == 3

(* The bound of the run: three different 201s of any kinds and producers,  *)
(* or the whole chain under one producer's key.  Replays, closes, attaches *)
(* and refused calls are not counted.                                      *)
FewAnswers ==
  \/ Cardinality(acks) <= MaxAnswers
  \/ /\ Cardinality(acks) = 4
     /\ {a[1] : a \in acks} = {"experiment", "run", "evidence", "artifact"}
     /\ \A a \in acks : a[2] = <<"a">> /\ a[3] = <<"k">>

(* ApiSpec, as far as FewAnswers goes.                                     *)
FewApiNext == ApiNext /\ FewAnswers'
FewApiSpec == Init /\ [][FewApiNext]_vars
=============================================================================

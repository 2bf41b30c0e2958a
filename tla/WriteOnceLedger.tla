--------------------------- MODULE WriteOnceLedger ---------------------------
(***************************************************************************)
(* What an idempotency key promises a producer, in one page                *)
(* (src/docs/PRODUCER-GUIDE.md section 5; src/src/cer/contract/stores.py,  *)
(* "Idempotency"): a name is written at most once, and whoever is answered *)
(* about a name is answered with what is written there.                    *)
(*                                                                         *)
(* How ids are chosen, what is compared, which threads, transactions and   *)
(* connections carry a submission is left to the specifications that       *)
(* implement this one: EvidenceRegistry, RegistryApi, DurableBacking.      *)
(***************************************************************************)
VARIABLES
  entries,   (* what is written: a set of [name, body]                     *)
  answered   (* the entries some caller was told are written               *)

ledger == <<entries, answered>>

(* May this entry stand beside those written?                              *)
Agrees(e) == \A f \in entries : f.name = e.name => f = e

Init == entries = {} /\ answered = {}

(* One submission.  It writes its entry unless it is there, and tells the  *)
(* caller at once, later or never; a submission that would contradict an   *)
(* entry is refused, which is a stuttering step.                           *)
Submit(e) ==
  /\ Agrees(e)
  /\ entries' = entries \cup {e}
  /\ answered' \in {answered, answered \cup {e}}

(* Every step that is not a stutter writes or answers one entry.           *)
Next ==
  \E e \in (entries' \ entries) \cup (answered' \ answered) : Submit(e)

Spec == Init /\ [][Next]_ledger
=============================================================================

--------------------------- MODULE StrategyHistory ---------------------------
(***************************************************************************)
(* Strategies, their versions, and the two histories kept of them,         *)
(* promotions and health records, from the HTTP route                      *)
(* (src/src/cer/api/routes.py) to the write method of SQLiteMetadataStore  *)
(* (src/src/cer/metadata/sqlite_store.py), with a reader who pages through *)
(* a history while it grows.                                               *)
(*                                                                         *)
(* As in EvidenceRegistry a write method is one transaction and so one     *)
(* action.  The two histories are written and read by methods of one       *)
(* shape.  Their references to strategies and evidence are free text that  *)
(* nothing resolves, a part of `content'.  Timestamps and ids are numbers, *)
(* because pages are ordered by them.                                      *)
(***************************************************************************)
EXTENDS Naturals, FiniteSets

CONSTANTS
  Producers, Keys, Contents, Stamps, Strategies, Versions,
  AuthoredStamps, (* the timestamps a caller supplies itself; the others   *)
                  (* the route stamps                                      *)
  RandomIds,      (* what uuid4 can draw                                   *)
  DerivedId,      (* uuid5 of a producer and a key                         *)
  Limit,          (* the page size of the reader                           *)
  None

DerivedIds == {DerivedId[<<p, k>>] : p \in Producers, k \in Keys}
Ids == RandomIds \cup DerivedIds

ASSUME OrderedByNumbers == Stamps \subseteq Nat /\ Ids \subseteq Nat
ASSUME DerivedIdIsInjective ==
  /\ DerivedIds \cap RandomIds = {}
  /\ \A p1, p2 \in Producers, k1, k2 \in Keys :
       DerivedId[<<p1, k1>>] = DerivedId[<<p2, k2>>] => p1 = p2 /\ k1 = k2
ASSUME PagesHaveRows == Limit \in Nat \ {0}
ASSUME NoneIsNoKey == None \notin Keys
ASSUME AuthoredAreStamps == AuthoredStamps \subseteq Stamps

Kinds == {"promotion", "health"}

StrategyRows == [id : Strategies, content : Contents, at : Stamps]
VersionRows == [strategy : Strategies, version : Versions,
                content : Contents, at : Stamps]
HistoryRows == [id : Ids, producer : Producers, key : Keys \cup {None},
                content : Contents, at : Stamps]

VARIABLES
  strategies, versions,   (* the tables                                    *)
  history,                (* the tables promotions and health_records      *)
  reader,                 (* a client that pages: [kind, offset, missing,  *)
                          (* done]; missing, the ids it has yet to get     *)
  acks    (* history variable: the answers 201 of keyed records,           *)
          (* <<kind, producer, key, content, timestamp, id>>, and of       *)
          (* registrations, <<kind, name, content>>                        *)

tables == <<strategies, versions, history>>
vars   == <<strategies, versions, history, reader, acks>>

-----------------------------------------------------------------------------
(* Strategies and versions are registered under the caller's own names,    *)
(* idempotently: created_at is left out of the comparison.                 *)

StrategyNamed(q) == {r \in strategies : r.id = q.id}

VersionNamed(q) ==
  {r \in versions : r.strategy = q.strategy /\ r.version = q.version}

(* Fault: created_at takes part.                                           *)
SameRegistrationAndTime(r, q) == r.content = q.content /\ r.at = q.at

SameRegistration(r, q) == r.content = q.content

Refuse == UNCHANGED vars

RegisterStrategy(q) ==
  \/ /\ \A r \in StrategyNamed(q) : SameRegistration(r, q)
     /\ strategies' = IF StrategyNamed(q) = {} THEN strategies \cup {q}
                      ELSE strategies
     /\ acks' = acks \cup {<<"strategy", q.id, q.content>>}
     /\ UNCHANGED <<versions, history, reader>>
  \/ /\ \E r \in StrategyNamed(q) : ~SameRegistration(r, q)
     /\ Refuse

StrategyExists(id) == \E r \in strategies : r.id = id

(* Fault: the strategy is not required.                                    *)
RegisterOrphanVersion(q) ==
  \/ /\ \A r \in VersionNamed(q) : SameRegistration(r, q)
     /\ versions' = IF VersionNamed(q) = {} THEN versions \cup {q}
                    ELSE versions
     /\ acks' = acks \cup {<<"version", <<q.strategy, q.version>>, q.content>>}
     /\ UNCHANGED <<strategies, history, reader>>
  \/ /\ \E r \in VersionNamed(q) : ~SameRegistration(r, q)
     /\ Refuse

RegisterStrategyVersion(q) ==
  \/ /\ StrategyExists(q.strategy)
     /\ \A r \in VersionNamed(q) : SameRegistration(r, q)
     /\ versions' = IF VersionNamed(q) = {} THEN versions \cup {q}
                    ELSE versions
     /\ acks' = acks \cup {<<"version", <<q.strategy, q.version>>, q.content>>}
     /\ UNCHANGED <<strategies, history, reader>>
  \/ /\ \/ ~StrategyExists(q.strategy)
        \/ \E r \in VersionNamed(q) : ~SameRegistration(r, q)
     /\ Refuse

-----------------------------------------------------------------------------
(* The histories.                                                          *)

Keyed(kind, q) ==
  {r \in history[kind] : /\ q.key # None
                         /\ r.key = q.key
                         /\ r.producer = q.producer}

WithId(kind, q) == {r \in history[kind] : r.id = q.id}

(* _generate_id; uuid4 never repeats an id.                                *)
HasGeneratedId(kind, q) ==
  IF q.key # None THEN q.id = DerivedId[<<q.producer, q.key>>]
  ELSE q.id \in RandomIds /\ WithId(kind, q) = {}

(* Fault: the timestamp takes part in the fingerprint.                     *)
SameIntentAndTime(r, q) == r.content = q.content /\ r.at = q.at

(* The fingerprint of a keyed row leaves out the id and the timestamp.     *)
SameIntent(r, q) == r.content = q.content

(* A row found by its id is compared in full, timestamp included.          *)
SameRecord(r, q) ==
  r.producer = q.producer /\ r.content = q.content /\ r.at = q.at

IsNew(kind, q) == Keyed(kind, q) = {} /\ WithId(kind, q) = {}

(* The stored row that answers a call, if the call is a replay.            *)
Replayed(kind, q) ==
  IF Keyed(kind, q) # {}
  THEN {r \in Keyed(kind, q) : SameIntent(r, q)}
  ELSE {r \in WithId(kind, q) : SameRecord(r, q)}

Authored(q) == IF q.at \in AuthoredStamps THEN q.at ELSE None

Answer(kind, q, id) ==
  <<kind, q.producer, q.key, q.content, Authored(q), id>>

Acknowledge(kind, q, id) ==
  acks' = IF q.key = None THEN acks ELSE acks \cup {Answer(kind, q, id)}

(* Fault: a replay stamps the row anew.                                    *)
ReplayRestamped(kind, q) ==
  \E r \in Replayed(kind, q) :
    /\ history' = [history EXCEPT ![kind] =
                     (@ \ {r}) \cup {[r EXCEPT !.at = q.at]}]
    /\ Acknowledge(kind, q, r.id)

(* The stored row is handed back.                                          *)
Replay(kind, q) ==
  \E r \in Replayed(kind, q) :
    /\ UNCHANGED history
    /\ Acknowledge(kind, q, r.id)

(* Fault: the key is not looked up, as before schema/003.                  *)
RecordWithoutKey(kind, q) ==
  /\ history' = [history EXCEPT ![kind] = @ \cup {q}]
  /\ Acknowledge(kind, q, q.id)
  /\ UNCHANGED <<strategies, versions, reader>>

(* record_promotion and record_health.                                     *)
Record(kind, q) ==
  \/ /\ IsNew(kind, q)
     /\ history' = [history EXCEPT ![kind] = @ \cup {q}]
     /\ Acknowledge(kind, q, q.id)
     /\ UNCHANGED <<strategies, versions, reader>>
  \/ Replay(kind, q) /\ UNCHANGED <<strategies, versions, reader>>
  \/ /\ ~IsNew(kind, q)
     /\ Replayed(kind, q) = {}
     /\ Refuse

PostPromotion(q) == HasGeneratedId("promotion", q) /\ Record("promotion", q)

PostHealthRecord(q) == HasGeneratedId("health", q) /\ Record("health", q)

-----------------------------------------------------------------------------
(* query_promotions and query_health: newest first, ties broken by the id, *)
(* LIMIT and OFFSET.                                                       *)

Precedes(s, r) == s.at > r.at \/ (s.at = r.at /\ s.id > r.id)

Rank(kind, r) == Cardinality({s \in history[kind] : Precedes(s, r)})

Page(kind, offset) ==
  {r \in history[kind] : Rank(kind, r) \in offset .. (offset + Limit - 1)}

IdsOf(rows) == {r.id : r \in rows}

StartReading(kind) ==
  /\ reader.done
  /\ reader' = [kind |-> kind, offset |-> 0,
                missing |-> IdsOf(history[kind]), done |-> FALSE]
  /\ UNCHANGED <<tables, acks>>

(* The client stops at the first page that is not full.                    *)
ReadPage ==
  /\ ~reader.done
  /\ LET page == Page(reader.kind, reader.offset) IN
       reader' = [reader EXCEPT !.offset = @ + Limit,
                                !.missing = @ \ IdsOf(page),
                                !.done = Cardinality(page) < Limit]
  /\ UNCHANGED <<tables, acks>>

-----------------------------------------------------------------------------
Init ==
  /\ strategies = {} /\ versions = {}
  /\ history = [kind \in Kinds |-> {}]
  /\ reader = [kind |-> "promotion", offset |-> 0, missing |-> {},
               done |-> TRUE]
  /\ acks = {}

Next ==
  \/ \E q \in StrategyRows : RegisterStrategy(q)
  \/ \E q \in VersionRows : RegisterStrategyVersion(q)
  \/ \E q \in HistoryRows : PostPromotion(q) \/ PostHealthRecord(q)
  \/ \E kind \in Kinds : StartReading(kind)
  \/ ReadPage

Spec == Init /\ [][Next]_vars

-----------------------------------------------------------------------------
(* Properties.                                                             *)

(* Type invariant; every row of the histories has an id of its own.        *)
TypeOK ==
  /\ strategies \subseteq StrategyRows /\ versions \subseteq VersionRows
  /\ history \in [Kinds -> SUBSET HistoryRows]
  /\ \A kind \in Kinds : \A r, s \in history[kind] : r.id = s.id => r = s

(* Every version belongs to a registered strategy.                         *)
VersionsHaveStrategies == \A r \in versions : StrategyExists(r.strategy)

(* Registering a name again with the content that was acknowledged for it  *)
(* is never refused, whatever timestamp the route stamps, and two contents *)
(* are never both acknowledged for one name.                               *)
RegistrationIsIdempotent ==
  /\ \A q \in StrategyRows : <<"strategy", q.id, q.content>> \in acks
       => \E r \in StrategyNamed(q) : SameRegistration(r, q)
  /\ \A q \in VersionRows :
       <<"version", <<q.strategy, q.version>>, q.content>> \in acks
       => \E r \in VersionNamed(q) : SameRegistration(r, q)

(* A retry of an acknowledged promotion or health record, with a timestamp *)
(* of its own, returns the row first recorded.                             *)
RetryReturnsFirst ==
  \A kind \in Kinds, q \in HistoryRows, id \in Ids :
    /\ q.key # None
    /\ Answer(kind, q, id) \in acks
    => \E r \in Keyed(kind, q) : r.id = id /\ SameIntent(r, q)

(* A timestamp the caller authored is the one that is recorded: changing   *)
(* it between two calls with one key is a conflict, not a retry            *)
(* (PRODUCER-GUIDE 172-174: `anything you author yourself, including       *)
(* observed_at_utc, is part of the compared content').                     *)
AuthoredTimeIsCompared ==
  \A kind \in Kinds, q \in HistoryRows, id \in Ids :
    /\ q.key # None /\ q.at \in AuthoredStamps
    /\ Answer(kind, q, id) \in acks
    => \E r \in Keyed(kind, q) : r.at = q.at

(* One intended transition is recorded once (schema/003: it could be       *)
(* recorded three times), and a key's second body never is.                *)
IntentIsRecordedOnce ==
  \A kind \in Kinds : \A r, s \in history[kind] :
    r.key # None /\ r.key = s.key /\ r.producer = s.producer => r = s

(* A reader who pages to the end got every row that was there when it      *)
(* began, although rows are inserted before and after its position between *)
(* two pages.                                                              *)
PagingMissesNothing == reader.done => reader.missing = {}

(* Histories, strategies and versions only grow; a retry keeps the         *)
(* timestamp of the first attempt.                                         *)
HistoryIsAppendOnly ==
  [][/\ strategies \subseteq strategies' /\ versions \subseteq versions'
     /\ \A kind \in Kinds : history[kind] \subseteq history'[kind]]_vars
=============================================================================

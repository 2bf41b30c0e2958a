----------------------- MODULE StrategyHistoryProofs -----------------------
(***************************************************************************)
(* Proofs about StrategyHistory, for every set of producers, keys,         *)
(* contents, strategies and ids and every page size.                       *)
(***************************************************************************)
EXTENDS StrategyHistory, FiniteSetTheorems, TLAPS

-----------------------------------------------------------------------------
(* The inductive invariant.                                                *)

(* A row's id says how it was assigned: derived from the row's producer    *)
(* and key, or drawn.  So a row found by a derived id has that key.        *)
IdsAreAssigned ==
  \A kind \in Kinds : \A r \in history[kind] :
    IF r.key # None THEN r.id = DerivedId[<<r.producer, r.key>>]
                    ELSE r.id \in RandomIds

(* What a reader has yet to get is on the pages it has yet to ask for:     *)
(* rows are only ever pushed towards the end, never past the reader.       *)
MissingIsAhead ==
  /\ \A kind \in Kinds : IsFiniteSet(history[kind])
  /\ reader \in [kind : Kinds, offset : Nat, missing : SUBSET Ids,
                 done : BOOLEAN]
  /\ \A id \in reader.missing :
       \E r \in history[reader.kind] :
         r.id = id /\ Rank(reader.kind, r) >= reader.offset
  /\ reader.done => reader.missing = {}

-----------------------------------------------------------------------------
(* Steps.                                                                  *)

LEMMA StepCases ==
  ASSUME [Next]_vars
  PROVE  \/ \E q \in StrategyRows : RegisterStrategy(q)
         \/ \E q \in VersionRows : RegisterStrategyVersion(q)
         \/ \E kind \in Kinds, q \in HistoryRows :
              HasGeneratedId(kind, q) /\ Record(kind, q)
         \/ \E kind \in Kinds : StartReading(kind)
         \/ ReadPage
         \/ UNCHANGED vars
BY DEF Next, PostPromotion, PostHealthRecord, Kinds

(* What a call of record_promotion or record_health does to the histories. *)
LEMMA RecordCases ==
  ASSUME TypeOK, NEW kind \in Kinds, NEW q \in HistoryRows, Record(kind, q)
  PROVE  /\ UNCHANGED <<strategies, versions, reader>>
         /\ \/ /\ IsNew(kind, q)
               /\ history'[kind] = history[kind] \cup {q}
               /\ \A k \in Kinds \ {kind} : history'[k] = history[k]
               /\ history' \in [Kinds -> SUBSET HistoryRows]
               /\ Acknowledge(kind, q, q.id)
            \/ /\ UNCHANGED history
               /\ \E r \in Replayed(kind, q) : Acknowledge(kind, q, r.id)
            \/ UNCHANGED <<history, acks>>
BY DEF Record, Replay, Refuse, vars, TypeOK

LEMMA TypedStep == TypeOK /\ [Next]_vars => TypeOK'
<1> SUFFICES ASSUME TypeOK, [Next]_vars
             PROVE  TypeOK'
  OBVIOUS
<1>1. ASSUME NEW q \in StrategyRows, RegisterStrategy(q)
      PROVE  TypeOK'
  BY <1>1 DEF RegisterStrategy, Refuse, vars, TypeOK
<1>2. ASSUME NEW q \in VersionRows, RegisterStrategyVersion(q)
      PROVE  TypeOK'
  BY <1>2 DEF RegisterStrategyVersion, Refuse, vars, TypeOK
<1>3. ASSUME NEW kind \in Kinds, NEW q \in HistoryRows, Record(kind, q)
      PROVE  TypeOK'
  <2>1. CASE UNCHANGED history
    BY <1>3, <2>1, RecordCases DEF TypeOK
  <2>2. CASE /\ IsNew(kind, q)
             /\ history'[kind] = history[kind] \cup {q}
             /\ \A k \in Kinds \ {kind} : history'[k] = history[k]
             /\ history' \in [Kinds -> SUBSET HistoryRows]
    <3>1. \A k \in Kinds : \A r, s \in history'[k] : r.id = s.id => r = s
      BY <2>2 DEF TypeOK, IsNew, WithId
    <3> QED
      BY <1>3, <2>2, <3>1, RecordCases DEF TypeOK
  <2> QED
    BY <1>3, <2>1, <2>2, RecordCases
<1>4. ASSUME (\E kind \in Kinds : StartReading(kind)) \/ ReadPage
             \/ UNCHANGED vars
      PROVE  TypeOK'
  BY <1>4 DEF StartReading, ReadPage, tables, vars, TypeOK
<1> QED
  BY <1>1, <1>2, <1>3, <1>4, StepCases

(* Every table and every row keeps its type, and the rows of a history     *)
(* have ids of their own: record_promotion and record_health insert only   *)
(* under an id that no row has (sqlite_store.py 1107-1315).                *)
THEOREM TypeCorrect == Spec => []TypeOK
<1>1. Init => TypeOK
  BY DEF Init, TypeOK
<1> QED
  BY <1>1, TypedStep, PTL DEF Spec

LEMMA TypedInvariant == Spec => []TypeOK
BY TypeCorrect

-----------------------------------------------------------------------------
(* The histories.                                                          *)

LEMMA KeyOfDerivedId ==
  ASSUME NEW p1 \in Producers, NEW p2 \in Producers,
         NEW k1 \in Keys, NEW k2 \in Keys,
         DerivedId[<<p1, k1>>] = DerivedId[<<p2, k2>>]
  PROVE  p1 = p2 /\ k1 = k2
BY DerivedIdIsInjective

LEMMA AssignedStep ==
  TypeOK /\ IdsAreAssigned /\ [Next]_vars => IdsAreAssigned'
<1> SUFFICES ASSUME TypeOK, IdsAreAssigned, [Next]_vars
             PROVE  IdsAreAssigned'
  OBVIOUS
<1>1. ASSUME NEW kind \in Kinds, NEW q \in HistoryRows,
             HasGeneratedId(kind, q), Record(kind, q)
      PROVE  IdsAreAssigned'
  BY <1>1, RecordCases DEF IdsAreAssigned, HasGeneratedId
<1>2. CASE UNCHANGED history
  BY <1>2 DEF IdsAreAssigned
<1> QED
  BY <1>1, <1>2, StepCases
  DEF RegisterStrategy, RegisterStrategyVersion, StartReading, ReadPage,
      tables, Refuse, vars

LEMMA AssignedInvariant == Spec => []IdsAreAssigned
<1>1. Init => IdsAreAssigned
  BY DEF Init, IdsAreAssigned
<1> QED
  BY <1>1, TypedInvariant, AssignedStep, PTL DEF Spec

(* One intended transition is recorded once and a key's second body never  *)
(* (schema/003, sqlite_store.py 1107-1315): a keyed row's id is a function *)
(* of its key, and the id is unique.                                       *)
THEOREM IntentsAreRecordedOnce == Spec => []IntentIsRecordedOnce
<1>1. TypeOK /\ IdsAreAssigned => IntentIsRecordedOnce
  <2> SUFFICES ASSUME TypeOK, IdsAreAssigned, NEW kind \in Kinds,
                      NEW r \in history[kind], NEW s \in history[kind],
                      r.key # None, r.key = s.key, r.producer = s.producer
               PROVE  r = s
    BY DEF IntentIsRecordedOnce
  <2>1. /\ r.id = DerivedId[<<r.producer, r.key>>]
        /\ s.id = DerivedId[<<s.producer, s.key>>]
    BY DEF IdsAreAssigned
  <2>2. r.id = s.id
    BY <2>1
  <2> QED
    BY <2>2 DEF TypeOK
<1> QED
  BY <1>1, TypedInvariant, AssignedInvariant, PTL

(* The row that answers a keyed call has its key, whichever way it was     *)
(* found.                                                                  *)
LEMMA ReplayedIsKeyed ==
  ASSUME TypeOK, IdsAreAssigned, NEW kind \in Kinds, NEW q \in HistoryRows,
         HasGeneratedId(kind, q), q.key # None, NEW r \in Replayed(kind, q)
  PROVE  r \in Keyed(kind, q) /\ SameIntent(r, q) /\ r.id \in Ids
<1>1. r \in history[kind] /\ r \in HistoryRows /\ q.key \in Keys
      /\ q.producer \in Producers
  BY DEF Replayed, Keyed, WithId, TypeOK, HistoryRows
<1>2. CASE Keyed(kind, q) # {}
  BY <1>1, <1>2 DEF Replayed, HistoryRows
<1>3. CASE Keyed(kind, q) = {}
  <2>1. r.id = DerivedId[<<q.producer, q.key>>] /\ SameIntent(r, q)
    BY <1>3 DEF Replayed, WithId, HasGeneratedId, SameRecord, SameIntent
  <2>2. r.id \notin RandomIds
    BY <1>1, <2>1, DerivedIdIsInjective DEF DerivedIds
  <2>3. r.key \in Keys /\ r.producer \in Producers
        /\ r.id = DerivedId[<<r.producer, r.key>>]
    BY <1>1, <2>2 DEF IdsAreAssigned, HistoryRows
  <2>4. r.key = q.key /\ r.producer = q.producer
    <3>1. DerivedId[<<r.producer, r.key>>] = DerivedId[<<q.producer, q.key>>]
      BY <2>1, <2>3
    <3> QED
      BY <1>1, <2>3, <3>1, KeyOfDerivedId
  <2> QED
    BY <1>1, <1>3, <2>4 DEF Keyed
<1> QED
  BY <1>2, <1>3

LEMMA RetryStep ==
  TypeOK /\ IdsAreAssigned /\ RetryReturnsFirst /\ [Next]_vars
    => RetryReturnsFirst'
<1> SUFFICES ASSUME TypeOK, IdsAreAssigned, RetryReturnsFirst, [Next]_vars,
                    NEW kind \in Kinds, NEW q \in HistoryRows, NEW id \in Ids,
                    q.key # None, Answer(kind, q, id) \in acks'
             PROVE  \E r \in history'[kind] : /\ r.key = q.key
                                              /\ r.producer = q.producer
                                              /\ r.content = q.content
                                              /\ r.id = id
  BY DEF RetryReturnsFirst, Keyed, SameIntent, Answer, Authored
<1>1. history[kind] \subseteq history'[kind]
  <2>1. CASE UNCHANGED history
    BY <2>1
  <2>2. ASSUME NEW k \in Kinds, NEW p \in HistoryRows, Record(k, p)
        PROVE  history[kind] \subseteq history'[kind]
    BY <2>2, RecordCases
  <2> QED
    BY <2>1, <2>2, StepCases
    DEF RegisterStrategy, RegisterStrategyVersion, StartReading, ReadPage,
        tables, Refuse, vars
<1>2. CASE Answer(kind, q, id) \in acks
  BY <1>1, <1>2 DEF RetryReturnsFirst, Keyed, SameIntent
<1>3. CASE Answer(kind, q, id) \notin acks
  <2>1. PICK k \in Kinds, p \in HistoryRows :
          HasGeneratedId(k, p) /\ Record(k, p)
    <3>1. \A p \in StrategyRows : ~RegisterStrategy(p)
      BY <1>3 DEF RegisterStrategy, Answer, Refuse, vars
    <3>2. \A p \in VersionRows : ~RegisterStrategyVersion(p)
      BY <1>3 DEF RegisterStrategyVersion, Answer, Refuse, vars
    <3> QED
      BY <1>3, <3>1, <3>2, StepCases DEF StartReading, ReadPage, vars
  <2>2. \E i : /\ acks' \subseteq acks \cup {Answer(k, p, i)} /\ p.key # None
               /\ \E r \in history'[k] : /\ r.key = p.key
                                         /\ r.producer = p.producer
                                         /\ r.content = p.content
                                         /\ r.id = i
    <3>1. CASE /\ history'[k] = history[k] \cup {p}
               /\ Acknowledge(k, p, p.id)
      BY <1>3, <3>1 DEF Acknowledge
    <3>2. CASE /\ UNCHANGED history
               /\ \E r \in Replayed(k, p) : Acknowledge(k, p, r.id)
      <4>1. PICK r \in Replayed(k, p) : Acknowledge(k, p, r.id)
        BY <3>2
      <4>2. p.key # None /\ acks' = acks \cup {Answer(k, p, r.id)}
        BY <1>3, <4>1 DEF Acknowledge
      <4> QED
        BY <2>1, <3>2, <4>2, ReplayedIsKeyed DEF Keyed, SameIntent
    <3> QED
      BY <1>3, <2>1, <3>1, <3>2, RecordCases
  <2>3. PICK i : /\ Answer(kind, q, id) = Answer(k, p, i)
                 /\ \E r \in history'[k] : /\ r.key = p.key
                                           /\ r.producer = p.producer
                                           /\ r.content = p.content
                                           /\ r.id = i
    BY <1>3, <2>2
  <2>4. /\ kind = k /\ id = i /\ q.key = p.key /\ q.producer = p.producer
        /\ q.content = p.content
    BY <2>3 DEF Answer
  <2> QED
    BY <2>3, <2>4
<1> QED
  BY <1>2, <1>3

(* A retry of an acknowledged promotion or health record returns the row   *)
(* first recorded, whatever timestamp the route stamps on it               *)
(* (sqlite_store.py 1107-1315, routes.py _generate_id).                    *)
THEOREM RetriesReturnTheFirst == Spec => []RetryReturnsFirst
<1>1. Init => RetryReturnsFirst
  BY DEF Init, RetryReturnsFirst
<1> QED
  BY <1>1, TypedInvariant, AssignedInvariant, RetryStep, PTL DEF Spec

(* Histories, strategies and versions only grow: no method updates or      *)
(* deletes a row of theirs.                                                *)
THEOREM HistoriesAreAppendOnly == Spec => HistoryIsAppendOnly
<1>1. TypeOK /\ [Next]_vars
        => [/\ strategies \subseteq strategies' /\ versions \subseteq versions'
            /\ \A kind \in Kinds : history[kind] \subseteq history'[kind]]_vars
  <2> SUFFICES ASSUME TypeOK, [Next]_vars
               PROVE  /\ strategies \subseteq strategies'
                      /\ versions \subseteq versions'
                      /\ \A kind \in Kinds :
                           history[kind] \subseteq history'[kind]
    OBVIOUS
  <2>1. ASSUME NEW q \in StrategyRows, RegisterStrategy(q)
        PROVE  /\ strategies \subseteq strategies'
               /\ UNCHANGED <<versions, history>>
    BY <2>1 DEF RegisterStrategy, Refuse, vars
  <2>2. ASSUME NEW q \in VersionRows, RegisterStrategyVersion(q)
        PROVE  /\ versions \subseteq versions'
               /\ UNCHANGED <<strategies, history>>
    BY <2>2 DEF RegisterStrategyVersion, Refuse, vars
  <2>3. ASSUME NEW k \in Kinds, NEW q \in HistoryRows, Record(k, q)
        PROVE  /\ UNCHANGED <<strategies, versions>>
               /\ \A kind \in Kinds : history[kind] \subseteq history'[kind]
    BY <2>3, RecordCases
  <2>4. ASSUME (\E kind \in Kinds : StartReading(kind)) \/ ReadPage
               \/ UNCHANGED vars
        PROVE  UNCHANGED <<strategies, versions, history>>
    BY <2>4 DEF StartReading, ReadPage, tables, vars
  <2> QED
    BY <2>1, <2>2, <2>3, <2>4, StepCases
<1> QED
  BY <1>1, TypedInvariant, PTL DEF Spec, HistoryIsAppendOnly

-----------------------------------------------------------------------------
(* Registrations.                                                          *)

(* Every version belongs to a registered strategy: register_strategy_      *)
(* version requires it (sqlite_store.py 440-493) and nothing deletes one.  *)
THEOREM VersionsAreOfStrategies == Spec => []VersionsHaveStrategies
<1>1. Init => VersionsHaveStrategies
  BY DEF Init, VersionsHaveStrategies
<1>2. TypeOK /\ VersionsHaveStrategies /\ [Next]_vars
        => VersionsHaveStrategies'
  <2> SUFFICES ASSUME TypeOK, VersionsHaveStrategies, [Next]_vars
               PROVE  VersionsHaveStrategies'
    OBVIOUS
  <2> USE DEF VersionsHaveStrategies, StrategyExists
  <2>1. ASSUME NEW q \in StrategyRows, RegisterStrategy(q)
        PROVE  VersionsHaveStrategies'
    BY <2>1 DEF RegisterStrategy, Refuse, vars
  <2>2. ASSUME NEW q \in VersionRows, RegisterStrategyVersion(q)
        PROVE  VersionsHaveStrategies'
    BY <2>2 DEF RegisterStrategyVersion, Refuse, vars
  <2>3. CASE UNCHANGED <<strategies, versions>>
    BY <2>3
  <2> QED
    BY <2>1, <2>2, <2>3, StepCases, RecordCases
    DEF StartReading, ReadPage, tables, vars
<1> QED
  BY <1>1, <1>2, TypedInvariant, PTL DEF Spec

(* A registration that was acknowledged is acknowledged again, whatever    *)
(* timestamp the retry carries (sqlite_store.py 402-493).                  *)
THEOREM RegistrationsAreIdempotent == Spec => []RegistrationIsIdempotent
<1>1. Init => RegistrationIsIdempotent
  BY DEF Init, RegistrationIsIdempotent
<1>2. TypeOK /\ RegistrationIsIdempotent /\ [Next]_vars
        => RegistrationIsIdempotent'
  <2> SUFFICES ASSUME TypeOK, RegistrationIsIdempotent, [Next]_vars
               PROVE  RegistrationIsIdempotent'
    OBVIOUS
  <2> USE DEF RegistrationIsIdempotent, StrategyNamed, VersionNamed,
              SameRegistration
  <2>1. ASSUME NEW q \in StrategyRows, RegisterStrategy(q)
        PROVE  RegistrationIsIdempotent'
    <3>1. CASE UNCHANGED vars
      BY <3>1 DEF vars
    <3>2. CASE ~UNCHANGED vars
      <4>1. /\ versions' = versions /\ strategies \subseteq strategies'
            /\ \E r \in strategies' : r.id = q.id /\ r.content = q.content
            /\ acks' = acks \cup {<<"strategy", q.id, q.content>>}
        BY <2>1, <3>2 DEF RegisterStrategy, Refuse, vars
      <4> QED
        BY <4>1
    <3> QED
      BY <3>1, <3>2
  <2>2. ASSUME NEW q \in VersionRows, RegisterStrategyVersion(q)
        PROVE  RegistrationIsIdempotent'
    <3>1. CASE UNCHANGED vars
      BY <3>1 DEF vars
    <3>2. CASE ~UNCHANGED vars
      <4>1. /\ strategies' = strategies /\ versions \subseteq versions'
            /\ \E r \in versions' : /\ r.strategy = q.strategy
                                    /\ r.version = q.version
                                    /\ r.content = q.content
            /\ acks' = acks \cup {<<"version", <<q.strategy, q.version>>,
                                    q.content>>}
        BY <2>2, <3>2 DEF RegisterStrategyVersion, Refuse, vars
      <4> QED
        BY <4>1
    <3> QED
      BY <3>1, <3>2
  <2>3. ASSUME NEW k \in Kinds, NEW p \in HistoryRows, Record(k, p)
        PROVE  RegistrationIsIdempotent'
    <3>1. \A a \in acks' \ acks : \E i : a = Answer(k, p, i)
      BY <2>3, RecordCases DEF Acknowledge
    <3>2. \A i : \A n, c : /\ Answer(k, p, i) # <<"strategy", n, c>>
                           /\ Answer(k, p, i) # <<"version", n, c>>
      BY DEF Answer
    <3> QED
      BY <2>3, <3>1, <3>2, RecordCases
  <2>4. ASSUME (\E kind \in Kinds : StartReading(kind)) \/ ReadPage
               \/ UNCHANGED vars
        PROVE  RegistrationIsIdempotent'
    BY <2>4 DEF StartReading, ReadPage, tables, vars
  <2> QED
    BY <2>1, <2>2, <2>3, <2>4, StepCases
<1> QED
  BY <1>1, <1>2, TypedInvariant, PTL DEF Spec

-----------------------------------------------------------------------------
(* Pages.                                                                  *)

LEMMA RowsAreOrdered ==
  ASSUME TypeOK, NEW kind \in Kinds, NEW r \in history[kind],
         NEW s \in history[kind]
  PROVE  /\ ~Precedes(r, r)
         /\ r = s \/ Precedes(r, s) \/ Precedes(s, r)
         /\ \A t \in history[kind] :
              Precedes(t, s) /\ Precedes(s, r) => Precedes(t, r)
<1>1. \A t \in history[kind] : t.at \in Nat /\ t.id \in Nat
  <2> SUFFICES ASSUME NEW t \in history[kind]
               PROVE  t.at \in Nat /\ t.id \in Nat
    OBVIOUS
  <2>1. t \in HistoryRows
    BY DEF TypeOK
  <2>2. t.at \in Stamps /\ t.id \in Ids
    BY <2>1 DEF HistoryRows
  <2> QED
    BY <2>2, OrderedByNumbers
<1>2. r.id = s.id => r = s
  BY DEF TypeOK
<1> QED
  BY <1>1, <1>2 DEF Precedes

LEMMA RankIsNatural ==
  ASSUME NEW kind \in Kinds, IsFiniteSet(history[kind]), NEW r
  PROVE  /\ IsFiniteSet({s \in history[kind] : Precedes(s, r)})
         /\ Rank(kind, r) \in Nat
<1>1. IsFiniteSet({s \in history[kind] : Precedes(s, r)})
  BY FS_Subset
<1> QED
  BY <1>1, FS_CardinalityType DEF Rank

(* Rows have different ranks, ...                                          *)
LEMMA RankGrows ==
  ASSUME TypeOK, NEW kind \in Kinds, IsFiniteSet(history[kind]),
         NEW r \in history[kind], NEW s \in history[kind], Precedes(s, r)
  PROVE  Rank(kind, s) < Rank(kind, r)
<1> DEFINE Ahead(t) == {u \in history[kind] : Precedes(u, t)}
<1>1. Ahead(s) \subseteq Ahead(r)
  BY RowsAreOrdered
<1>2. s \in Ahead(r) /\ s \notin Ahead(s)
  BY RowsAreOrdered
<1>3. /\ IsFiniteSet(Ahead(r))
      /\ Cardinality(Ahead(r)) \in Nat /\ Cardinality(Ahead(s)) \in Nat
  BY RankIsNatural DEF Rank
<1>4. /\ Cardinality(Ahead(s)) <= Cardinality(Ahead(r))
      /\ Cardinality(Ahead(s)) # Cardinality(Ahead(r))
  <2> HIDE DEF Ahead
  <2> QED
    BY <1>1, <1>2, <1>3, FS_Subset
<1> QED
  BY <1>3, <1>4 DEF Rank

LEMMA RankIsBounded ==
  ASSUME TypeOK, NEW kind \in Kinds, IsFiniteSet(history[kind]),
         NEW r \in history[kind]
  PROVE  Rank(kind, r) < Cardinality(history[kind])
<1> DEFINE Ahead == {u \in history[kind] : Precedes(u, r)}
<1>1. Ahead \subseteq history[kind] /\ r \notin Ahead
  BY RowsAreOrdered
<1>2. Cardinality(Ahead) \in Nat /\ Cardinality(history[kind]) \in Nat
  BY RankIsNatural, FS_CardinalityType DEF Rank
<1>3. /\ Cardinality(Ahead) <= Cardinality(history[kind])
      /\ Cardinality(Ahead) # Cardinality(history[kind])
  <2> HIDE DEF Ahead
  <2> QED
    BY <1>1, FS_Subset
<1> QED
  BY <1>2, <1>3 DEF Rank

(* ... and so, being as many as the rows, every rank is taken.             *)
LEMMA EveryRankIsTaken ==
  ASSUME TypeOK, NEW kind \in Kinds, IsFiniteSet(history[kind]),
         NEW k \in 0 .. Cardinality(history[kind]) - 1
  PROVE  \E r \in history[kind] : Rank(kind, r) = k
<1> DEFINE n == Cardinality(history[kind])
           f == [r \in history[kind] |-> Rank(kind, r)]
<1>1. n \in Nat
  BY FS_CardinalityType
<1>2. f \in [history[kind] -> 0 .. n - 1]
  <2>1. ASSUME NEW r \in history[kind]
        PROVE  Rank(kind, r) \in 0 .. n - 1
    <3>1. Rank(kind, r) \in Nat /\ Rank(kind, r) < n
      BY RankIsNatural, RankIsBounded
    <3> QED
      BY <1>1, <3>1
  <2> QED
    BY <2>1
<1>3. \A r, s \in history[kind] : f[r] = f[s] => r = s
  <2> SUFFICES ASSUME NEW r \in history[kind], NEW s \in history[kind],
                      Rank(kind, r) = Rank(kind, s)
               PROVE  r = s
    OBVIOUS
  <2> QED
    <3>1. Rank(kind, r) \in Nat
      BY RankIsNatural
    <3>2. ~Precedes(r, s) /\ ~Precedes(s, r)
      BY <3>1, RankGrows
    <3> QED
      BY <3>2, RowsAreOrdered
<1>4. f \in Injection(history[kind], 0 .. n - 1)
  BY <1>2, <1>3 DEF Injection, IsInjective
<1>5. IsFiniteSet(0 .. n - 1) /\ Cardinality(0 .. n - 1) = n
  BY <1>1, FS_Interval
<1>6. f \in Surjection(history[kind], 0 .. n - 1)
  BY <1>4, <1>5, FS_Injection
<1> QED
  BY <1>6 DEF Surjection

(* A page before a row that is still to come is full.                      *)
LEMMA PageIsFull ==
  ASSUME TypeOK, NEW kind \in Kinds, IsFiniteSet(history[kind]),
         NEW offset \in Nat, NEW r \in history[kind],
         Rank(kind, r) >= offset + Limit
  PROVE  ~(Cardinality(Page(kind, offset)) < Limit)
<1> DEFINE n == Cardinality(history[kind])
           page == Page(kind, offset)
           ranks == offset .. (offset + Limit - 1)
           f == [s \in page |-> Rank(kind, s)]
<1>1. n \in Nat /\ Limit \in Nat \ {0} /\ Rank(kind, r) \in Nat
      /\ Rank(kind, r) < n
  BY FS_CardinalityType, PagesHaveRows, RankIsNatural, RankIsBounded
<1>2. page \subseteq history[kind] /\ IsFiniteSet(page)
  BY FS_Subset DEF Page
<1>3. f \in [page -> ranks]
  BY DEF Page
<1>4. \A k \in ranks : \E s \in page : f[s] = k
  <2> SUFFICES ASSUME NEW k \in ranks
               PROVE  \E s \in page : Rank(kind, s) = k
    OBVIOUS
  <2>1. k \in 0 .. n - 1
    BY <1>1
  <2> QED
    BY <2>1, EveryRankIsTaken DEF Page
<1>5. f \in Surjection(page, ranks)
  BY <1>3, <1>4 DEF Surjection
<1>6. Cardinality(ranks) <= Cardinality(page) /\ Cardinality(page) \in Nat
  BY <1>2, <1>5, FS_Surjection, FS_CardinalityType
<1>7. Cardinality(ranks) = Limit
  <2>1. \A a, b \in Int : a <= b => Cardinality(a .. b) = b - a + 1
    BY FS_Interval
  <2>2. PICK last \in Int : last = offset + Limit - 1
    BY <1>1
  <2>3. offset \in Int /\ offset <= last /\ last - offset + 1 = Limit
    BY <1>1, <2>2
  <2> QED
    BY <2>1, <2>2, <2>3
<1> QED
  BY <1>1, <1>6, <1>7

(* Rows that are inserted push the others back and never forward.          *)
LEMMA RankNeverFalls ==
  ASSUME NEW kind \in Kinds, IsFiniteSet(history'[kind]),
         history[kind] \subseteq history'[kind], NEW r
  PROVE  LET after == {s \in history'[kind] : Precedes(s, r)} IN
         /\ Rank(kind, r) \in Nat /\ Cardinality(after) \in Nat
         /\ Rank(kind, r) <= Cardinality(after)
<1> DEFINE before == {s \in history[kind] : Precedes(s, r)}
           after  == {s \in history'[kind] : Precedes(s, r)}
<1>1. IsFiniteSet(after) /\ before \subseteq after
  BY FS_Subset
<1>2. Rank(kind, r) = Cardinality(before)
  BY DEF Rank
<1>3. /\ Rank(kind, r) \in Nat /\ Cardinality(after) \in Nat
      /\ Rank(kind, r) <= Cardinality(after)
  <2> HIDE DEF before, after
  <2> QED
    BY <1>1, <1>2, FS_Subset, FS_CardinalityType
<1> QED
  BY <1>3

LEMMA MissingStep == TypeOK /\ MissingIsAhead /\ [Next]_vars => MissingIsAhead'
<1> SUFFICES ASSUME TypeOK, MissingIsAhead, [Next]_vars
             PROVE  MissingIsAhead'
  OBVIOUS
<1>1. ASSUME UNCHANGED <<history, reader>>
      PROVE  MissingIsAhead'
  BY <1>1 DEF MissingIsAhead, Rank, Precedes
<1>2. ASSUME NEW k \in Kinds, NEW p \in HistoryRows, Record(k, p)
      PROVE  MissingIsAhead'
  <2>1. reader' = reader
    BY <1>2, RecordCases
  <2>2. \A kind \in Kinds : /\ IsFiniteSet(history'[kind])
                            /\ history[kind] \subseteq history'[kind]
    <3>1. \A kind \in Kinds : IsFiniteSet(history[kind])
      BY DEF MissingIsAhead
    <3>2. IsFiniteSet(history[k] \cup {p})
      BY <3>1, FS_AddElement
    <3> QED
      BY <1>2, <3>1, <3>2, RecordCases
  <2>3. ASSUME NEW id \in reader.missing
        PROVE  \E r \in history'[reader.kind] :
                 /\ r.id = id
                 /\ Cardinality({s \in history'[reader.kind] :
                                   Precedes(s, r)}) >= reader.offset
    <3>1. reader.kind \in Kinds /\ reader.offset \in Nat
      BY DEF MissingIsAhead
    <3>2. PICK r \in history[reader.kind] :
            r.id = id /\ Rank(reader.kind, r) >= reader.offset
      BY DEF MissingIsAhead
    <3>3. r \in history'[reader.kind]
      BY <2>2, <3>1
    <3> QED
      BY <2>2, <3>1, <3>2, <3>3, RankNeverFalls
  <2> QED
    BY <2>1, <2>2, <2>3 DEF MissingIsAhead, Rank, Precedes
<1>3. ASSUME NEW kind \in Kinds, StartReading(kind)
      PROVE  MissingIsAhead'
  <2>1. /\ history' = history
        /\ reader' = [kind |-> kind, offset |-> 0,
                      missing |-> IdsOf(history[kind]), done |-> FALSE]
    BY <1>3 DEF StartReading, tables
  <2>2. IdsOf(history[kind]) \subseteq Ids
    BY DEF IdsOf, TypeOK, HistoryRows
  <2>3. \A r \in history[kind] : Rank(kind, r) >= 0
    <3>1. IsFiniteSet(history[kind])
      BY DEF MissingIsAhead
    <3>2. \A r : Rank(kind, r) \in Nat
      BY <3>1, RankIsNatural
    <3> QED
      BY <3>2
  <2>4. reader' \in [kind : Kinds, offset : Nat, missing : SUBSET Ids,
                     done : BOOLEAN]
    BY <2>1, <2>2
  <2>5. /\ reader'.kind = kind /\ reader'.offset = 0 /\ ~reader'.done
        /\ reader'.missing = IdsOf(history[kind])
    BY <2>1
  <2>6. \A id \in IdsOf(history[kind]) :
          \E r \in history[kind] : r.id = id /\ Rank(kind, r) >= 0
    BY <2>3 DEF IdsOf
  <2>7. \A r : Cardinality({s \in history'[reader'.kind] : Precedes(s, r)})
                  = Rank(kind, r)
    BY <2>1, <2>5 DEF Rank
  <2>8. \A id \in reader'.missing : \E r \in history'[reader'.kind] :
          /\ r.id = id
          /\ Cardinality({s \in history'[reader'.kind] : Precedes(s, r)})
               >= reader'.offset
    <3> SUFFICES ASSUME NEW id \in reader'.missing
                 PROVE  \E r \in history'[reader'.kind] :
                          /\ r.id = id
                          /\ Cardinality({s \in history'[reader'.kind] :
                                            Precedes(s, r)}) >= reader'.offset
      OBVIOUS
    <3>1. PICK r \in history[kind] : r.id = id /\ Rank(kind, r) >= 0
      BY <2>5, <2>6
    <3>2. r \in history'[reader'.kind]
      BY <2>1, <2>5
    <3>3. Cardinality({s \in history'[reader'.kind] : Precedes(s, r)})
            >= reader'.offset
      BY <2>5, <2>7, <3>1
    <3> QED
      BY <3>1, <3>2, <3>3
  <2> QED
    BY <2>1, <2>4, <2>5, <2>8 DEF MissingIsAhead, Rank, Precedes
<1>4. ASSUME ReadPage
      PROVE  MissingIsAhead'
  <2> DEFINE page == Page(reader.kind, reader.offset)
  <2>1. /\ reader.kind \in Kinds /\ reader.offset \in Nat
        /\ reader.missing \subseteq Ids /\ Limit \in Nat
        /\ IsFiniteSet(history[reader.kind])
    BY PagesHaveRows DEF MissingIsAhead
  <2>2. /\ history' = history
        /\ reader' = [kind |-> reader.kind, offset |-> reader.offset + Limit,
                      missing |-> reader.missing \ IdsOf(page),
                      done |-> Cardinality(page) < Limit]
    BY <1>4 DEF ReadPage, tables, MissingIsAhead
  <2>3. ASSUME NEW id \in reader.missing \ IdsOf(page)
        PROVE  \E r \in history[reader.kind] :
                 r.id = id /\ Rank(reader.kind, r) >= reader.offset + Limit
    <3>1. PICK r \in history[reader.kind] :
            r.id = id /\ Rank(reader.kind, r) >= reader.offset
      BY <2>3 DEF MissingIsAhead
    <3>2. r \notin page
      BY <2>3, <3>1 DEF IdsOf
    <3>3. Rank(reader.kind, r) \in Nat
      BY <2>1, RankIsNatural
    <3>4. Rank(reader.kind, r) >= reader.offset + Limit
      BY <2>1, <3>1, <3>2, <3>3 DEF Page
    <3> QED
      BY <3>1, <3>4
  <2>4. Cardinality(page) < Limit => reader.missing \ IdsOf(page) = {}
    BY <2>1, <2>3, PageIsFull
  <2> HIDE DEF page
  <2>5. \A r : Rank(reader.kind, r)' = Rank(reader.kind, r)
    BY <2>2 DEF Rank, Precedes
  <2>6. reader' \in [kind : Kinds, offset : Nat, missing : SUBSET Ids,
                     done : BOOLEAN]
    BY <2>1, <2>2
  <2> QED
    BY <2>2, <2>3, <2>4, <2>5, <2>6 DEF MissingIsAhead, Rank, Precedes
<1> QED
  BY <1>1, <1>2, <1>3, <1>4, StepCases
  DEF RegisterStrategy, RegisterStrategyVersion, Refuse, vars

(* A reader that stops at the first page that is not full has every row    *)
(* that was there when it began: query_promotions and query_health order   *)
(* newest first with the id as tie-break (sqlite_store.py 1176-1234,       *)
(* 1316-1412), so an OFFSET never jumps over a row that moved.             *)
THEOREM PagesMissNothing == Spec => []PagingMissesNothing
<1>1. Init => MissingIsAhead
  BY FS_EmptySet DEF Init, MissingIsAhead, Kinds
<1>2. MissingIsAhead => PagingMissesNothing
  BY DEF MissingIsAhead, PagingMissesNothing
<1> QED
  BY <1>1, <1>2, TypedInvariant, MissingStep, PTL DEF Spec
=============================================================================

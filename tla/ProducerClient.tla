--------------------------- MODULE ProducerClient ---------------------------
(***************************************************************************)
(* Producers that record a piece of research through CERClient             *)
(* (src/src/cer/client.py) and the routes (src/src/cer/api/routes.py):     *)
(* create_experiment, create_run, append_evidence, register_artifact and   *)
(* close_run, each call built from the ids the calls before it returned.   *)
(*                                                                         *)
(* The client sends one request per call, waits for its answer up to its   *)
(* timeout and never retries: `callers own their own retry policy'.  The   *)
(* caller here follows PRODUCER-GUIDE sections 5 and 10: a timeout and a   *)
(* 503 are retried with the same key and body, and a process that died is  *)
(* run again from the start.  Several workers may run the same campaign at *)
(* once, as when a queue delivers a job twice.  A request whose caller     *)
(* stopped waiting may still be on its way and be served at any later      *)
(* time.                                                                   *)
(***************************************************************************)
EXTENDS RegistryApi, FiniteSets, Naturals

CONSTANTS
  Workers,       (* processes, each with a CERClient                       *)
  Producer, Key, (* Producer[w] and Key[w]: what worker w signs its calls  *)
                 (* with; workers of one campaign have both in common      *)
  Closed,        (* the status close_run asks for                          *)
  MaxLate,       (* kinds of request on their way at once without a caller *)
  MaxCrashes

ASSUME WorkersSign ==
  /\ Producer \in [Workers -> Producers]
  /\ Key \in [Workers -> Keys]
  /\ \A w \in Workers : Key[w] # <<>>
ASSUME ClosedIsFinal == Closed \in Ended
ASSUME RoutesNameIds ==
  /\ \A w \in Workers : DerivedId(Producer[w], Key[w])
                          \in ExperimentIds \cap RunIds \cap EvidenceIds
  /\ RandomIds \subseteq ArtifactIds
ASSUME SomethingToRecord == Contents # {}

VARIABLES
  held,     (* what a worker's calls returned so far                       *)
  call,     (* the call a worker waits for, [request, reply], or None      *)
  late,     (* requests nobody waits for any more; of each there may be    *)
            (* any number of copies, as a caller may give up any number of *)
            (* times                                                       *)
  crashes

wire    == <<held, call, late, crashes>>
allVars == <<vars, wire>>

-----------------------------------------------------------------------------
(* The client: one request per method.                                     *)

Nothing == [experiment |-> None, run |-> None, evidence |-> None,
            artifact |-> None, closed |-> FALSE]

(* Fault: the header is forgotten.                                         *)
HeadersUnkeyed(w) == None

(* _headers: the Idempotency-Key header.                                   *)
Headers(w) == Key[w]

(* `body' is the idempotency_key field of the JSON body.                   *)
CreateExperimentCall(w) ==
  [method |-> "create_experiment",
   producer |-> Producer[w], header |-> Headers(w), body |-> None]

CreateRunCall(w) ==
  [method |-> "create_run", experiment |-> held[w].experiment,
   producer |-> Producer[w], header |-> Headers(w), body |-> None]

(* The only method that sends the key twice.                               *)
AppendEvidenceCall(w) ==
  [method |-> "append_evidence", experiment |-> held[w].experiment,
   run |-> held[w].run,
   producer |-> Producer[w], header |-> Headers(w), body |-> Key[w]]

RegisterArtifactCall(w) ==
  [method |-> "register_artifact", run |-> held[w].run,
   evidence |-> held[w].evidence,
   producer |-> Producer[w], header |-> Headers(w), body |-> None]

CloseRunCall(w) ==
  [method |-> "close_run", run |-> held[w].run, status |-> Closed]

(* What the caller asks for next.                                          *)
NextCall(w) ==
  IF held[w].experiment = None    THEN CreateExperimentCall(w)
  ELSE IF held[w].run = None      THEN CreateRunCall(w)
  ELSE IF held[w].evidence = None THEN AppendEvidenceCall(w)
  ELSE IF held[w].artifact = None THEN RegisterArtifactCall(w)
  ELSE CloseRunCall(w)

Waits(w)    == call[w] # None
Replied(w)  == Waits(w) /\ call[w].reply # None

Send(w) ==
  /\ ~Waits(w) /\ ~held[w].closed
  /\ call' = [call EXCEPT ![w] = [request |-> NextCall(w), reply |-> None]]
  /\ UNCHANGED <<vars, held, late, crashes>>

-----------------------------------------------------------------------------
(* The server: a route reads the request, calls the store, answers.        *)

(* _resolve_idempotency_key: either, and if both then they agree.          *)
KeysAgree(m)   == m.header = None \/ m.body = None \/ m.header = m.body
ResolvedKey(m) == IF m.header # None THEN m.header ELSE m.body

(* The records the routes build.  One campaign authors one text; the       *)
(* server stamps the time of each attempt.                                 *)
Text == CHOOSE c \in Contents : TRUE

NewExperiment(m, id, at) ==
  [id |-> id, producer |-> m.producer, key |-> ResolvedKey(m),
   content |-> Text, at |-> at]

NewRun(m, id, at) ==
  [id |-> id, producer |-> m.producer, key |-> ResolvedKey(m),
   content |-> Text, at |-> at, experiment |-> m.experiment, born |-> Open]

NewEvidence(m, id, at) ==
  [id |-> id, producer |-> m.producer, key |-> ResolvedKey(m),
   content |-> Text, at |-> at, run |-> m.run, experiment |-> m.experiment]

NewArtifact(m, id, at) ==
  [id |-> id, producer |-> m.producer, key |-> ResolvedKey(m),
   content |-> Text, at |-> at, run |-> m.run, evidence |-> m.evidence]

Created(id)   == [code |-> "created", id |-> id]
RaisedAs(code) == [code |-> code, id |-> None]

(* The answer a store method leads to.                                     *)
Answer(table, q, resolves, replay) ==
  IF ~resolves THEN RaisedAs("not_found")
  ELSE IF IsNew(table, q) THEN Created(q.id)
  ELSE IF replay # {} THEN Created((CHOOSE r \in replay : TRUE).id)
  ELSE IF Keyed(table, q) # {} THEN RaisedAs("idempotency_conflict")
  ELSE RaisedAs("immutability_violation")

ServeExperiment(q, reply) ==
  /\ reply = Answer(experiments, q, TRUE, ExperimentReplay(q))
  /\ PostExperiment(q)

ServeRun(q, reply) ==
  /\ reply = Answer(runs, q, RunResolves(q), RunReplay(q))
  /\ PostRun(q)

ServeEvidence(q, reply) ==
  /\ reply = Answer(evidence, q, EvidenceResolves(q), EvidenceReplay(q))
  /\ PostEvidence(q)

(* A known key is judged against the record it names.                      *)
ServeArtifact(q, reply) ==
  /\ \/ /\ Keyed(artifacts, q) = {}
        /\ reply = Answer(artifacts, q, ArtifactResolves(q), {})
     \/ \E prior \in Keyed(artifacts, q) :
          LET overlaid == [prior EXCEPT !.content = q.content] IN
          reply = Answer(artifacts, overlaid, ArtifactResolves(overlaid),
                         ArtifactReplay(overlaid))
  /\ PostArtifact(q)

ServeClose(m, at, reply) ==
  /\ reply = IF ~Exists(runs, m.run) THEN RaisedAs("not_found")
             ELSE IF \E r \in WithId(runs, m.run) : r.status = Open
             THEN RaisedAs("closed")
             ELSE RaisedAs("immutability_violation")
  /\ CloseRun(m.run, m.status, at)

Unused ==
  {id \in RandomIds : ~Exists(experiments \cup runs \cup artifacts, id)}

(* The id a route derives, or the id a route or put() draws; which of the  *)
(* unused ones is drawn makes no difference.                               *)
ChosenIds(m) ==
  IF m.method # "register_artifact" /\ ResolvedKey(m) \notin Blank
  THEN {DerivedId(m.producer, ResolvedKey(m))}
  ELSE {id \in Unused : id = CHOOSE u \in Unused : TRUE}

(* One request, served at any moment, stamped with the time of that        *)
(* moment.                                                                 *)
Serve(m, reply) ==
  \E at \in Stamps :
    \/ m.method = "close_run" /\ ServeClose(m, at, reply)
    \/ /\ m.method # "close_run"
       /\ KeysAgree(m)
       /\ \E id \in ChosenIds(m) :
            \/ /\ m.method = "create_experiment"
               /\ ServeExperiment(NewExperiment(m, id, at), reply)
            \/ /\ m.method = "create_run"
               /\ ServeRun(NewRun(m, id, at), reply)
            \/ /\ m.method = "append_evidence"
               /\ ServeEvidence(NewEvidence(m, id, at), reply)
            \/ /\ m.method = "register_artifact"
               /\ ServeArtifact(NewArtifact(m, id, at), reply)

Replies ==
  {RaisedAs(code) : code \in {"closed", "not_found", "idempotency_conflict",
                              "immutability_violation"}}
  \cup {Created(id) :
          id \in UNION {ExperimentIds, RunIds, EvidenceIds, ArtifactIds}}

ServeCall(w) ==
  /\ Waits(w) /\ ~Replied(w)
  /\ \E reply \in Replies :
       /\ Serve(call[w].request, reply)
       /\ call' = [call EXCEPT ![w].reply = reply]
  /\ UNCHANGED <<held, late, crashes>>

(* A late request is served like any other; its answer goes nowhere.       *)
ServeLate(m) ==
  /\ \E reply \in Replies : Serve(m, reply)
  /\ late' \in {late, late \ {m}}
  /\ UNCHANGED <<held, call, crashes>>

-----------------------------------------------------------------------------
(* The client again: the answer, or none.                                  *)

(* A stored record comes back: the caller keeps its id.                    *)
Keep(w, id) ==
  held' = [held EXCEPT ![w] =
    IF @.experiment = None    THEN [@ EXCEPT !.experiment = id]
    ELSE IF @.run = None      THEN [@ EXCEPT !.run = id]
    ELSE IF @.evidence = None THEN [@ EXCEPT !.evidence = id]
    ELSE [@ EXCEPT !.artifact = id]]

(* A close that finds the run ended raises ImmutabilityError, which is not *)
(* to be retried: the run is closed.  Any other refusal would end the      *)
(* caller; NothingIsRefused says there is none.                            *)
Receive(w) ==
  /\ Replied(w)
  /\ \/ /\ call[w].reply.code = "created"
        /\ Keep(w, call[w].reply.id)
     \/ /\ call[w].request.method = "close_run"
        /\ call[w].reply.code \in {"closed", "immutability_violation"}
        /\ held' = [held EXCEPT ![w].closed = TRUE]
  /\ call' = [call EXCEPT ![w] = None]
  /\ UNCHANGED <<vars, late, crashes>>

(* The call ends without a verdict.  The answer is lost, or the request    *)
(* is, or the request is still on its way.                                 *)
Abandon(w) ==
  /\ call' = [call EXCEPT ![w] = None]
  /\ late' \in {late} \cup
               IF Waits(w) /\ ~Replied(w) /\ Cardinality(late) < MaxLate
               THEN {late \cup {call[w].request}}
               ELSE {}

(* httpx raises TimeoutException or a transport error, or the answer is a  *)
(* 503: MetadataStoreError, nothing written.                               *)
TimeOut(w) ==
  /\ Waits(w)
  /\ Abandon(w)
  /\ UNCHANGED <<vars, held, crashes>>

(* The worker dies and is run again; it has no memory but its key.         *)
Rerun(w) ==
  /\ crashes < MaxCrashes
  /\ crashes' = crashes + 1
  /\ held' = [held EXCEPT ![w] = Nothing]
  /\ Abandon(w)
  /\ UNCHANGED vars

EndCall(w) == Receive(w) \/ TimeOut(w)

CampaignInit ==
  /\ Init
  /\ held = [w \in Workers |-> Nothing]
  /\ call = [w \in Workers |-> None]
  /\ late = {}
  /\ crashes = 0

CampaignNext ==
  \/ \E w \in Workers :
       \/ Send(w) \/ ServeCall(w) \/ EndCall(w) \/ Rerun(w)
  \/ \E m \in late : ServeLate(m)

(* A caller that is out of a call makes the next one; a call ends, if only *)
(* by its timeout; not every attempt is lost on its way to the server or   *)
(* fails there, nor is every answer on its way back.  Nothing is assumed   *)
(* of late requests.                                                       *)
CampaignFairness ==
  \A w \in Workers : /\ WF_allVars(Send(w)) /\ WF_allVars(EndCall(w))
                     /\ SF_allVars(ServeCall(w))
                     /\ SF_allVars(Receive(w))

CampaignSpec ==
  CampaignInit /\ [][CampaignNext]_allVars /\ CampaignFairness

-----------------------------------------------------------------------------
(* Properties.                                                             *)

(* No attempt, whichever of the earlier ones were served, once or often    *)
(* or late, by this worker or another, before a crash or after it, is ever *)
(* refused (PRODUCER-GUIDE section 5: `never a duplicate, never an         *)
(* error').  The exception is close_run, which takes no key: the close     *)
(* whose first answer was lost is answered 409, and then the run has the   *)
(* status that was asked for.                                              *)
NothingIsRefused ==
  \A w \in Workers :
    Replied(w) =>
      \/ call[w].reply.code \in {"created", "closed"}
      \/ /\ call[w].reply.code = "immutability_violation"
         /\ call[w].request.method = "close_run"
         /\ \E r \in WithId(runs, call[w].request.run) : r.status = Closed

(* Rows of a worker's campaign: those of its producer under its key, and   *)
(* those that lost their key.                                              *)
OfChain(table, w) ==
  {r \in table : r.producer = Producer[w] /\ r.key \in {Key[w], None}}

Single(table, w) == \A r1, r2 \in OfChain(table, w) : r1 = r2

(* However often a campaign is attempted, it leaves one experiment, one    *)
(* run, one piece of evidence and one artifact.                            *)
ChainIsSingle(w) ==
  /\ Single(experiments, w) /\ Single(runs, w) /\ Single(evidence, w)
  /\ \A r1, r2 \in artifacts : r1.run = r2.run => r1 = r2

(* What a worker believes to have recorded is recorded and linked the way  *)
(* it believes.                                                            *)
HeldIsStored(w) ==
  /\ held[w].run # None =>
       \E r \in WithId(runs, held[w].run) :
         r.experiment = held[w].experiment
  /\ held[w].evidence # None =>
       \E r \in WithId(evidence, held[w].evidence) :
         r.run = held[w].run /\ r.experiment = held[w].experiment
  /\ held[w].artifact # None =>
       \E r \in WithId(artifacts, held[w].artifact) :
         r.run = held[w].run /\ r.evidence = held[w].evidence
  /\ held[w].closed =>
       \E r \in WithId(runs, held[w].run) : r.status = Closed

(* Both, of every worker: two runs of the same script, at once or after a  *)
(* crash, end up with one and the same chain.                              *)
CampaignIsOneChain ==
  \A w \in Workers : ChainIsSingle(w) /\ HeldIsStored(w)

(* Every worker gets its campaign recorded and its run closed, for good.   *)
CampaignsComplete == \A w \in Workers : <>[]held[w].closed
=============================================================================

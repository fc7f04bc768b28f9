--------------------------- MODULE PaymentProducer ---------------------------
(* services/payment-producer/kafka_producer.py: one pass over the source     *)
(* files under DATA_ROOT.  Every event goes to librdkafka's local queue; the *)
(* broker's answers come back later, as delivery reports that poll and flush *)
(* serve.  An operator may run the command again.                            *)
(*                                                                           *)
(* An event is <<file, position>>.  Its event_id is the source's own for a   *)
(* technical event and a fresh uuid of each run for any other.               *)
EXTENDS Naturals, Sequences, FiniteSets

CONSTANTS
  Files,     \* the source files
  Topics,    \* the topics of TOPIC_MAPPINGS that occur
  Form,      \* Form[f]: "xml" or "json"
  Route,     \* Route[f]: the topic of the file, or "unknown"
  Technical, \* the files whose root is TechnicalPaymentEvent
  Size,      \* Size[f]: the records in the file
  QueueLimit,\* queue.buffering.max.messages
  MaxRuns,   \* bound: how often the command is run
  MaxFaults  \* bound: faults of the producer, the broker and the job

ASSUME ProducerAssumption ==
  /\ QueueLimit \in Nat \ {0} /\ MaxRuns \in Nat \ {0} /\ MaxFaults \in Nat
  /\ IsFiniteSet(Files)
  /\ Technical \subseteq Files
  /\ Size \in [Files -> Nat \ {0}] /\ Form \in [Files -> {"xml", "json"}]
  /\ Route \in [Files -> Topics \cup {"unknown"}]
  /\ \A f \in Files : Form[f] = "xml" => Size[f] = 1

VARIABLES
  readable, \* the files that parse
  phase,    \* where main is
  run,      \* which run of the command
  todo,     \* XML files and JSON events still to produce
  queue,    \* local queue: event -> what is known of its delivery
  failed,   \* failed + delivery.failed
  succeeded,\* delivery.succeeded
  log,      \* the topics, one partition each
  faults

prodvars == <<readable, phase, run, todo, queue, failed, succeeded>>

EventId(f, i, r) == IF f \in Technical THEN <<f, i>> ELSE <<f, i, r>>

Message(e) == [event |-> e, id |-> EventId(e[1], e[2], run), run |-> run]

(* Grouping the sources drops the files without a route without a trace.     *)
Routed(f) == Route[f] # "unknown"

(* files_by_topic: XML files are parsed when their turn comes. *)
XmlWork == {<<f, 1>> : f \in {g \in Files : Form[g] = "xml" /\ Routed(g)}}

(* json_events_by_topic: a file that does not parse yields [].  *)
JsonWork ==
  UNION {{<<f, i>> : i \in 1 .. Size[f]} :
           f \in {g \in readable : Form[g] = "json" /\ Routed(g)}}

NoQueue == [e \in {} |-> "sent"]

Init ==
  /\ readable \in SUBSET Files
  /\ phase = "begin" /\ run = 1 /\ todo = {}
  /\ queue = NoQueue /\ failed = 0 /\ succeeded = 0
  /\ log = [t \in Topics |-> <<>>]
  /\ faults = 0

-----------------------------------------------------------------------------
(* glob finds no source at all: exit status 1 at once. *)
Begin ==
  /\ phase = "begin"
  /\ failed' = 0 /\ succeeded' = 0 /\ queue' = NoQueue
  /\ IF Files = {} THEN phase' = "exit1" /\ todo' = {}
                   ELSE phase' = "xml" /\ todo' = XmlWork \cup JsonWork
  /\ UNCHANGED <<readable, run, log, faults>>

Reported(q, answer) == {e \in DOMAIN q : q[e] = answer}

(* Serving the delivery reports: the callback counts, the message is freed.  *)
Serve(q) ==
  /\ queue' = [e \in Reported(q, "sent") |-> "sent"]
  /\ succeeded' = succeeded + Cardinality(Reported(q, "ok"))
  /\ failed' = failed + Cardinality(Reported(q, "error"))

(* produce then poll(0); a full queue raises BufferError, and that branch    *)
(* does not poll, so the queue stays full until flush.                       *)
Produce(e) ==
  IF Cardinality(DOMAIN queue) = QueueLimit
  THEN failed' = failed + 1 /\ UNCHANGED <<queue, succeeded>>
  ELSE Serve([x \in DOMAIN queue \cup {e} |-> IF x = e THEN "sent" ELSE queue[x]])

(* The next source of the two loops; a file whose XML does not parse gives   *)
(* None and is counted, an event the serializer refuses raises.              *)
NextEvent(e, refused) ==
  /\ phase \in {"xml", "json"} /\ e \in todo
  /\ Form[e[1]] = phase
  /\ todo' = todo \ {e}
  /\ IF refused \/ e[1] \notin readable
     THEN failed' = failed + 1 /\ UNCHANGED <<queue, succeeded>>
     ELSE Produce(e)
  /\ faults' = faults + IF refused THEN 1 ELSE 0
  /\ UNCHANGED <<readable, phase, run, log>>

LoopEnds ==
  /\ phase \in {"xml", "json"} /\ \A e \in todo : Form[e[1]] # phase
  /\ phase' = IF phase = "xml" THEN "json" ELSE "flush"
  /\ UNCHANGED <<readable, run, todo, queue, failed, succeeded, log, faults>>

(* Mutant: flush returns while messages are on their way. *)
FlushAtOnce ==
  /\ phase = "flush"
  /\ Serve(queue)
  /\ phase' = IF failed' = 0 THEN "exit0" ELSE "exit1"
  /\ UNCHANGED <<readable, run, todo, log, faults>>

(* flush() has no timeout: it returns when every message has its answer.     *)
Flush ==
  /\ phase = "flush" /\ Reported(queue, "sent") = {}
  /\ Serve(queue)
  /\ phase' = IF failed' = 0 THEN "exit0" ELSE "exit1"
  /\ UNCHANGED <<readable, run, todo, log, faults>>

(* The broker (external): acks=all with idempotence, so at most one copy of  *)
(* a message; when delivery.timeout.ms passes it is reported as failed       *)
(* whether or not the topic has it.                                          *)
Deliver(e, stored, answer) ==
  /\ e \in Reported(queue, "sent")
  /\ stored \/ answer = "error"
  /\ queue' = [queue EXCEPT ![e] = answer]
  /\ log' = IF stored THEN [log EXCEPT ![Route[e[1]]] = Append(@, Message(e))] ELSE log
  /\ faults' = faults + IF answer = "error" THEN 1 ELSE 0
  /\ UNCHANGED <<readable, phase, run, todo, failed, succeeded>>

(* The process dies: what the local queue holds is gone. *)
Kill ==
  /\ phase \in {"xml", "json", "flush"}
  /\ phase' = "dead" /\ queue' = NoQueue /\ todo' = {}
  /\ faults' = faults + 1
  /\ UNCHANGED <<readable, run, failed, succeeded, log>>

(* The operator runs the command again over the same files. *)
Rerun ==
  /\ phase \in {"exit0", "exit1", "dead"} /\ run < MaxRuns
  /\ run' = run + 1 /\ phase' = "begin"
  /\ UNCHANGED <<readable, todo, queue, failed, succeeded, log, faults>>

ProducerStep == Begin \/ (\E e \in todo : NextEvent(e, FALSE)) \/ LoopEnds \/ Flush
BrokerStep == \E e \in DOMAIN queue : Deliver(e, TRUE, "ok")

ProducerFault ==
  /\ faults < MaxFaults
  /\ \/ \E e \in todo : NextEvent(e, TRUE)
     \/ \E e \in DOMAIN queue, stored \in BOOLEAN : Deliver(e, stored, "error")
     \/ Kill

Next == ProducerStep \/ BrokerStep \/ ProducerFault \/ Rerun

ProducerSpec == Init /\ [][Next]_<<prodvars, log, faults>>

-----------------------------------------------------------------------------
Work == UNION {{<<f, i>> : i \in 1 .. Size[f]} : f \in Files}
Messages == UNION {{log[t][i] : i \in DOMAIN log[t]} : t \in Topics}
OfRun(r) == {m \in Messages : m.run = r}

(* The variables keep their types; what the queue holds has a route. *)
ProducerTypeOK ==
  /\ phase \in {"begin", "xml", "json", "flush", "exit0", "exit1", "dead"}
  /\ run \in 1 .. MaxRuns /\ todo \subseteq Work
  /\ \A e \in DOMAIN queue : Route[e[1]] \in Topics /\ queue[e] \in {"sent", "ok", "error"}
  /\ Cardinality(DOMAIN queue) <= QueueLimit
  /\ failed \in Nat /\ succeeded \in Nat

(* Exit status 0 means that every source with a route is on its topic, once, *)
(* under its own event_id - except the JSON files that did not parse, which  *)
(* main never hears of.  A refused, dropped or unacknowledged event anywhere *)
(* in the run makes the status 1.                                            *)
ExitZeroDelivered ==
  phase = "exit0" =>
    /\ {m.event : m \in OfRun(run)} =
         {e \in Work : Routed(e[1]) /\ (Form[e[1]] = "xml" \/ e[1] \in readable)}
    /\ succeeded = Cardinality(OfRun(run))
    /\ \A m \in OfRun(run) : Form[m.event[1]] = "xml" => m.event[1] \in readable

(* Every source of the run is accounted for: still to do, in the queue, or   *)
(* counted once as delivered or as failed.                                   *)
EverythingCounted ==
  phase \in {"xml", "json", "flush", "exit0", "exit1"} =>
    Cardinality(todo) + Cardinality(DOMAIN queue) + failed + succeeded
      = Cardinality(XmlWork \cup JsonWork)

(* No run stores an event twice, and a report of success is never false.     *)
StoredOnce ==
  \A t \in Topics : \A i, j \in DOMAIN log[t] :
    log[t][i].event = log[t][j].event /\ log[t][i].run = log[t][j].run => i = j

(* kafka_producer: exit 0 means that everything readable was delivered; all  *)
(* messages are counted as delivered or failed; a run stores a message once. *)
ProducerTrue == ProducerTypeOK /\ ExitZeroDelivered /\ EverythingCounted /\ StoredOnce
=============================================================================

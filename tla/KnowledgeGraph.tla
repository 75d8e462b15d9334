---------------------------- MODULE KnowledgeGraph ----------------------------
(***************************************************************************)
(* The knowledge-graph pipeline: a writer polls the services and keeps     *)
(* their anomaly flags and the propagation edges (TRIGGERS) in Neo4j, and  *)
(* the chat session expands the graph around an alert and watches for new  *)
(* alerts and for their end.  Every query of the code is one transaction;  *)
(* writer and chat interleave between them, and any query may raise.       *)
(*                                                                         *)
(* A reading of the telemetry is nondeterministic, a missing one counts as *)
(* no anomaly.  Left out: metrics, status display, logs, the language      *)
(* model and the saved sessions.                                           *)
(* Sources: pipeline/{kg_builder,graph_writer,monitor,collect,retriever,   *)
(* llm_chat}.py.                                                           *)
(***************************************************************************)
EXTENDS Naturals, Sequences, FiniteSets

CONSTANTS
  Services,   \* SERVICES_METADATA in its order
  Calls,      \* the CALLS edges: pairs of caller and callee
  MaxHops,    \* hops of an expansion
  MaxFlags,   \* bound on how often a service becomes anomalous
  Writers,    \* processes of monitor.py, collect.py and kg_builder.py
  Nobody      \* no writer, no service

Service == {Services[i] : i \in DOMAIN Services}

ASSUME GraphAssumption ==
  /\ Services \in Seq(Service) /\ Len(Services) > 0
  /\ \A i, j \in DOMAIN Services : Services[i] = Services[j] => i = j
  /\ Calls \subseteq Service \X Service
  /\ MaxHops \in Nat \ {0} /\ MaxFlags \in Nat
  /\ Nobody \notin Service \cup Writers

VARIABLES
  since,     \* anomaly_since of each node, 0 while anomaly_flag is false
  triggers,  \* the TRIGGERS edges
  clock,     \* the last time given to a node
  lease,     \* data/graph_writer.lock: whose, or Nobody
  at,        \* where each writer is
  cycle,     \* poll_and_propagate: next service, those found, edges to make
  grace,     \* is this the writer's grace period?
  chat,      \* where the chat is: off, begin, watch, expand
  known,     \* the watcher's known alerts
  msg,       \* the system message: healthy, resolved, or an incident
  ex,        \* the expansion under way
  missed,    \* history: a context was not built since the last message
  still      \* history: the graph has not changed since the expansion began

graph  == <<since, triggers, clock>>
writer == <<lease, at, cycle, grace>>
talk   == <<chat, known, msg, ex, missed>>
vars   == <<graph, writer, talk, still>>

Flagged   == {s \in Service : since[s] > 0}
Callers(s) == {c \in Service : <<c, s>> \in Calls}
\* A TRIGGERS edge joins a service and its caller, whom CALLS joins already.
Neighbours(s) == {n \in Service : <<s, n>> \in Calls \/ <<n, s>> \in Calls}

NoCycle == [next |-> 1, found |-> {}, links |-> {}]
NoExpansion == [start |-> Nobody, visited |-> {}, todo |-> {}, frontier |-> {},
                anomalous |-> {}, root |-> Nobody, first |-> 0, hop |-> 0]
Plain(kind) == [kind |-> kind, alerted |-> Nobody, root |-> Nobody]

\* The nodes exist since an earlier build_initial_graph(); MERGE leaves what
\* they hold.
Init ==
  /\ since = [s \in Service |-> 0] /\ triggers = {} /\ clock = 0
  /\ lease = Nobody /\ at = [w \in Writers |-> "off"] /\ cycle = NoCycle /\ grace = FALSE
  /\ chat = "off" /\ known = {} /\ msg = Plain("healthy")
  /\ ex = NoExpansion /\ missed = FALSE /\ still = TRUE

\* Nothing but the writer changes the graph.
Written == still' = (still /\ UNCHANGED <<since, triggers>>)
Go(w, label) == at' = [at EXCEPT ![w] = label]

-----------------------------------------------------------------------------
(* The writer.                                                             *)

\* writer_lease(), build(), and the first poll: a grace period in monitor.py,
\* none in collect.py and kg_builder.py.
Start(w) ==
  /\ at[w] = "off" /\ lease = Nobody
  /\ lease' = w
  /\ Go(w, "poll") /\ cycle' = NoCycle
  /\ grace' \in BOOLEAN
  /\ UNCHANGED <<graph, talk, still>>

Current == Services[cycle.next]
Onward(w) ==
  /\ Go(w, IF cycle.next < Len(Services) THEN "poll" ELSE "propagate")

\* The node of a service that reads as anomalous keeps the time it became so.
Flag(w) ==
  /\ at[w] = "poll" /\ ~grace
  /\ IF since[Current] > 0
     THEN UNCHANGED <<since, clock>>
     ELSE /\ clock < MaxFlags /\ clock' = clock + 1
          /\ since' = [since EXCEPT ![Current] = clock']
  /\ cycle' = [cycle EXCEPT !.next = @ + 1, !.found = @ \cup {Current}]
  /\ Onward(w)
  /\ UNCHANGED <<triggers, lease, grace, talk>> /\ Written

\* Otherwise it is cleared, in the grace period without looking.
Unflag(w) ==
  /\ at[w] = "poll"
  /\ since' = [since EXCEPT ![Current] = 0]
  /\ Go(w, "prune")
  /\ UNCHANGED <<triggers, clock, lease, cycle, grace, talk>> /\ Written

PruneCallers(w) ==
  /\ at[w] = "prune"
  /\ triggers' = {t \in triggers : t[2] # Current}
  /\ cycle' = [cycle EXCEPT !.next = @ + 1]
  /\ Onward(w)
  /\ UNCHANGED <<since, clock, lease, grace, talk>> /\ Written

\* ... and the edges that start at it are deleted.
Prune(w) ==
  /\ at[w] = "prune"
  /\ triggers' = {t \in triggers : t[1] # Current}
  /\ cycle' = [cycle EXCEPT !.next = @ + 1]
  /\ Onward(w)
  /\ UNCHANGED <<since, clock, lease, grace, talk>> /\ Written

\* No anomaly: every edge is deleted.
Wipe(w) ==
  /\ at[w] = "propagate" /\ cycle.found = {}
  /\ triggers' = {}
  /\ Go(w, "sleep") /\ cycle' = NoCycle
  /\ UNCHANGED <<since, clock, lease, grace, talk>> /\ Written

\* An edge from each anomalous service to each of its callers.
Propagate(w) ==
  /\ at[w] = "propagate" /\ cycle.found # {}
  /\ Go(w, "link")
  /\ cycle' = [cycle EXCEPT !.links = UNION {{s} \X Callers(s) : s \in cycle.found}]
  /\ UNCHANGED <<graph, lease, grace, talk, still>>

Link(w) ==
  /\ at[w] = "link"
  /\ \E t \in cycle.links :
       /\ triggers' = triggers \cup {t}
       /\ cycle' = [cycle EXCEPT !.links = @ \ {t}]
  /\ UNCHANGED <<since, clock, lease, at, grace, talk>> /\ Written

Linked(w) ==
  /\ at[w] = "link" /\ cycle.links = {}
  /\ Go(w, "sleep") /\ cycle' = NoCycle
  /\ UNCHANGED <<graph, lease, grace, talk, still>>

Again(w) ==
  /\ at[w] = "sleep"
  /\ Go(w, "poll") /\ grace' = FALSE
  /\ UNCHANGED <<graph, lease, cycle, talk, still>>

\* A query raises, the user interrupts, or kg_builder.py has polled once: the
\* finally block unlinks the lease.
Leave(w) ==
  /\ at[w] # "off"
  /\ Go(w, "off") /\ lease' = Nobody /\ cycle' = NoCycle /\ grace' = FALSE
  /\ UNCHANGED <<graph, talk, still>>

\* Killed: the lease stays until an operator has looked at it.
Killed(w) ==
  /\ at[w] # "off"
  /\ Go(w, "off") /\ cycle' = NoCycle /\ grace' = FALSE
  /\ UNCHANGED <<graph, lease, talk, still>>

Inspected ==
  /\ lease # Nobody /\ at[lease] = "off"
  /\ lease' = Nobody
  /\ UNCHANGED <<graph, at, cycle, grace, talk, still>>

-----------------------------------------------------------------------------
(* dynamic_expansion() and build_context().                                *)

\* The anomalous node that has been so for longest is the candidate root.
Earlier(e, s) == e.first = 0 \/ since[s] < e.first
Record(e, s) ==
  IF since[s] = 0 THEN e
  ELSE [e EXCEPT !.anomalous = @ \cup {s},
                 !.root = IF Earlier(e, s) THEN s ELSE @,
                 !.first = IF Earlier(e, s) THEN since[s] ELSE @]

Expand(s) == ex' = [NoExpansion EXCEPT !.start = s, !.root = s]

\* The first query reads the node the expansion starts from.
Bootstrap ==
  /\ chat \in {"begin", "expand"} /\ ex.hop = 0
  /\ ex' = Record([ex EXCEPT !.visited = {ex.start}, !.todo = {ex.start}, !.hop = 1], ex.start)
  /\ still' = TRUE
  /\ UNCHANGED <<graph, writer, chat, known, msg, missed>>

\* One query reads the neighbours of a node of the frontier.  The code records
\* the new ones in the order of the answer; only the earliest matters.
NewEarliest(e, new) ==
  LET hot == {n \in new : since[n] > 0}
  IN  IF hot = {} THEN e
      ELSE Record([e EXCEPT !.anomalous = @ \cup hot],
                  CHOOSE n \in hot : \A m \in hot : since[n] <= since[m])

Query ==
  /\ chat \in {"begin", "expand"}
  /\ \E s \in ex.todo :
       LET new == Neighbours(s) \ ex.visited
       IN  ex' = [NewEarliest(ex, new) EXCEPT !.visited = @ \cup new,
                                              !.todo = @ \ {s},
                                              !.frontier = @ \cup {n \in new : since[n] > 0}]
  /\ UNCHANGED <<graph, writer, chat, known, msg, missed, still>>

NextHop ==
  /\ chat \in {"begin", "expand"}
  /\ ex.todo = {} /\ ex.frontier # {} /\ ex.hop < MaxHops
  /\ ex' = [ex EXCEPT !.todo = ex.frontier, !.frontier = {}, !.hop = @ + 1]
  /\ UNCHANGED <<graph, writer, chat, known, msg, missed, still>>

Expanded == ex.hop > 0 /\ ex.todo = {} /\ (ex.frontier = {} \/ ex.hop = MaxHops)
Capped   == ex.frontier # {}

\* The context becomes the system message.
Build ==
  /\ chat \in {"begin", "expand"} /\ Expanded
  /\ chat' = "watch"
  /\ msg' = [kind |-> "incident", alerted |-> ex.start, root |-> ex.root]
  /\ missed' = FALSE /\ ex' = NoExpansion
  /\ UNCHANGED <<graph, writer, known, still>>

-----------------------------------------------------------------------------
(* The chat and its watcher.                                               *)

\* run(): without anomalies the chat begins healthy, else with the context of
\* the earliest.
Begin ==
  /\ chat = "off"
  /\ known' = Flagged /\ missed' = FALSE
  /\ \/ /\ Flagged = {}
        /\ chat' = "watch" /\ msg' = Plain("healthy") /\ UNCHANGED ex
     \/ /\ Flagged # {}
        /\ chat' = "begin" /\ UNCHANGED msg
        /\ \E s \in Flagged : (\A n \in Flagged : since[s] <= since[n]) /\ Expand(s)
  /\ UNCHANGED <<graph, writer, still>>

\* A query that raises ends run(), no key of the language model does, or the
\* user quits; the watcher dies with the process.
Quit ==
  /\ chat # "off" /\ chat' = "off"
  /\ known' = {} /\ msg' = Plain("healthy") /\ missed' = FALSE /\ ex' = NoExpansion
  /\ UNCHANGED <<graph, writer, still>>

\* _Watcher.run() and _on_new_alert(): the alert is known before its context is
\* built.
Alert ==
  /\ chat = "watch" /\ Flagged \ known # {}
  /\ known' = Flagged /\ chat' = "expand" /\ missed' = TRUE
  /\ \E s \in Flagged \ known : Expand(s)
  /\ UNCHANGED <<graph, writer, msg, still>>

ResolvedLate ==
  /\ chat = "watch" /\ Flagged = {} /\ known # {}
  /\ known' = {}
  /\ UNCHANGED <<graph, writer, chat, ex, msg, missed, still>>

Resolved ==
  /\ chat = "watch" /\ Flagged = {} /\ known # {}
  /\ known' = {} /\ msg' = Plain("resolved") /\ missed' = FALSE
  /\ UNCHANGED <<graph, writer, chat, ex, still>>

\* The watcher swallows what a query of the expansion raises.
Swallow ==
  /\ chat = "expand" /\ ~Expanded
  /\ chat' = "watch" /\ ex' = NoExpansion
  /\ UNCHANGED <<graph, writer, known, msg, missed, still>>

-----------------------------------------------------------------------------

Poll(w)  == Flag(w) \/ Unflag(w) \/ Prune(w) \/ Wipe(w) \/ Propagate(w) \/ Link(w) \/ Linked(w)
Write(w) == Start(w) \/ Poll(w) \/ Again(w) \/ Leave(w) \/ Killed(w)
Retrieve == Bootstrap \/ Query \/ NextHop \/ Build
Watch    == Alert \/ Resolved

Next ==
  \/ \E w \in Writers : Write(w)
  \/ Inspected
  \/ Retrieve \/ Watch
  \/ Begin \/ Quit \/ Swallow

Spec == Init /\ [][Next]_vars

\* The watcher polls again and again, and its queries return.
Fairness == WF_vars(Retrieve) /\ WF_vars(Watch)

FairSpec == Spec /\ Fairness

-----------------------------------------------------------------------------
(* Properties.                                                             *)

\* Type invariant.
TypeOK ==
  /\ since \in [Service -> 0..MaxFlags] /\ clock \in 0..MaxFlags
  /\ triggers \subseteq Service \X Service
  /\ lease \in Writers \cup {Nobody}
  /\ at \in [Writers -> {"off", "poll", "prune", "propagate", "link", "sleep"}]
  /\ cycle \in [next : 1..Len(Services) + 1, found : SUBSET Service,
                links : SUBSET (Service \X Service)]
  /\ grace \in BOOLEAN
  /\ chat \in {"off", "begin", "watch", "expand"} /\ known \subseteq Service
  /\ msg \in [kind : {"healthy", "resolved", "incident"}, alerted : Service \cup {Nobody},
              root : Service \cup {Nobody}]
  /\ ex \in [start : Service \cup {Nobody}, visited : SUBSET Service, todo : SUBSET Service,
             frontier : SUBSET Service, anomalous : SUBSET Service,
             root : Service \cup {Nobody}, first : 0..MaxFlags, hop : 0..MaxHops]
  /\ missed \in BOOLEAN /\ still \in BOOLEAN

\* When a cycle is over the TRIGGERS edges are those of its anomalies, whatever
\* cycle was cut short before and by whom (kg_builder.py:362-402).
PropagationIsExact ==
  \A w \in Writers :
    at[w] = "sleep" => triggers = UNION {{s} \X Callers(s) : s \in Flagged}

\* n is reached from s in at most k hops through anomalous services only.
Reached(s, n, k) ==
  \E j \in 1..k : \E path \in [0..j -> Service] :
    /\ path[0] = s /\ path[j] = n
    /\ \A i \in 1..j : path[i] \in Neighbours(path[i - 1]) /\ path[i] \in Flagged

\* If the graph kept still, an expansion finds exactly the anomalies that are
\* connected with its start within the hops it has, names the oldest of them,
\* and reports the cap when the last hop found another (retriever.py:86-215).
ExpansionIsExact ==
  chat \in {"begin", "expand"} /\ Expanded /\ still =>
    /\ ex.anomalous = {n \in Flagged : n = ex.start \/ Reached(ex.start, n, MaxHops)}
    /\ Capped <=> \E n \in ex.anomalous \ {ex.start} : ~Reached(ex.start, n, MaxHops - 1)
    /\ ex.anomalous # {} =>
         ex.root \in ex.anomalous /\ \A n \in ex.anomalous : since[ex.root] <= since[n]

\* What is written into the graph and what is read out of it is exact.
GraphIsExact == TypeOK /\ PropagationIsExact /\ ExpansionIsExact

\* Unless a context could not be built, the system message of a waiting chat
\* tells of an incident exactly while it knows of alerts, and of one of them
\* (llm_chat.py:173-188,244-252).
ContextIsCurrent ==
  chat = "watch" /\ ~missed =>
    /\ msg.kind = "incident" <=> known # {}
    /\ msg.kind = "incident" => msg.alerted \in known

\* When the graph stays clear, the chat stops telling of an incident, even of
\* one whose context could not be built (llm_chat.py:183-186).
ResolutionIsTold ==
  <>[](Flagged = {}) => <>[](chat = "off" \/ msg.kind # "incident")
=============================================================================

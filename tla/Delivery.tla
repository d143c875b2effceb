------------------------------ MODULE Delivery ------------------------------
(***************************************************************************)
(* From main-service to the chats: what requests publish (Events), what    *)
(* the worker renders and announces (Reports) and the bot's connections    *)
(* (Bridge), over one channel per tenant.                                  *)
(***************************************************************************)
EXTENDS Events, Bridge, Reports

CONSTANTS
  asker,   \* the tenant of the chat that asks for reports
  Cases    \* who does what: publications, linked tenants, reports asked for

VARIABLES
  wanted   \* the reports that are asked for; does not change

ASSUME DeliveryAssumption ==
  /\ asker \in Tenant /\ Report \subseteq Entity
  /\ Cases \subseteq [agenda : Agendas, linkable : SUBSET Tenant, wanted : SUBSET Report]

\* The worker announces reports; no request does.
ASSUME AnnouncementsAssumption ==
  \A agenda \in Agendas, c \in Call : \A i \in DOMAIN agenda[c] :
    agenda[c][i].event.name # "report.ready"

\* Events adds the channel's variables, Bridge the failures.
eventsOnly == <<token, count, expiring, call, passed, sent, carried, orphaned>>
given == <<wanted, linkable>>
vars == <<eventsVars, bridgeVars, reportsVars, faults, given>>

Init ==
  /\ EventsInit /\ BridgeInit /\ ReportsInit
  /\ \E k \in Cases :
       call = InitialCall(k.agenda) /\ linkable = k.linkable /\ wanted = k.wanted

-----------------------------------------------------------------------------
Ready(r) == [topic |-> "jobs", name |-> "report.ready", entity |-> r]

PublishStep ==
  /\ EventsStep
  /\ UNCHANGED <<bridgeVars, reportsVars, faults, given>>

PublisherDies ==
  /\ \E c \in Call : LoseCall(c)
  /\ Fault
  /\ UNCHANGED <<bridgeVars, reportsVars, given>>

ConnectStep ==
  /\ BridgeStep
  /\ UNCHANGED <<eventsOnly, reportsVars, given>>

\* The bot's process has the request for a report as well as the streams.
BotDies ==
  /\ BotCrash
  /\ UNCHANGED <<eventsOnly, jobVars, chat, documents, given>>
  /\ asking' = [r \in Report |-> IF asking[r] = "answered" THEN "over" ELSE asking[r]]

ReportStep ==
  /\ \E r \in wanted :
       \/ RequestStep(r) \/ WorkerStep(r)
       \/ ChatRecordExpires(r) \/ BuildThrows(r) \/ WriteFails(r)
  /\ UNCHANGED <<eventsVars, bridgeVars, faults, given>>

ReportFault ==
  /\ \E r \in wanted : LoseRequest(r) \/ WorkerCrash(r)
  /\ Fault
  /\ UNCHANGED <<eventsVars, bridgeVars, given>>

AnnounceReady ==
  /\ \E r \in wanted : Announce(r) /\ Publish(asker, Ready(r))
  /\ UNCHANGED <<open, eventsOnly, bridgeVars, faults, given>>

\* The loop dispatches a frame before it reads the next.
Reading(t) == t \in open /\ frames[t] # <<>>

ReadFrame(t) == frames' = [frames EXCEPT ![t] = Tail(@)] /\ UNCHANGED open

\* Every bound chat of the tenant gets a card, if the event has one.
SendCards ==
  /\ \E t \in Tenant :
       Reading(t) /\ Head(frames[t]).name # "report.ready" /\ ReadFrame(t)
  /\ UNCHANGED <<eventsOnly, bridgeVars, reportsVars, faults, given>>

PushReport ==
  /\ \E t \in Tenant :
       /\ Reading(t) /\ Head(frames[t]).name = "report.ready"
       /\ ReadFrame(t)
       /\ SendReport(Head(frames[t]).entity)
  /\ UNCHANGED <<eventsOnly, bridgeVars, faults, given>>

Next ==
  \/ PublishStep \/ PublisherDies
  \/ ConnectStep \/ BotDies
  \/ ReportStep \/ ReportFault \/ AnnounceReady
  \/ SendCards \/ PushReport

Spec == Init /\ [][Next]_vars

\* The loops, the bot's start and the workers keep going.
Fairness ==
  /\ BridgeFairness
  /\ \A r \in Report : WF_reportsVars(WorkerStep(r) /\ r \in wanted)
  /\ \A r \in Report : WF_reportsVars(ScheduleReportRender(r))

FairSpec == Spec /\ Fairness
=============================================================================

------------------------------- MODULE Bridge -------------------------------
(***************************************************************************)
(* The bot's end of the event stream. For every tenant some chat is linked *)
(* to, one loop holds a connection to /v1/events: it looks up the tenant's *)
(* session, connects, reads frames and, when anything fails, waits and     *)
(* starts over. A tenant gets its loop when the bot starts or when a chat  *)
(* links, whichever comes first; a tenant without a session loses it.      *)
(*                                                                         *)
(* A loop's pass runs between awaits on Redis or on main-service. The bot  *)
(* has one connection to Redis, so that replies come in the order of the   *)
(* commands: a command and what follows its reply are one step.            *)
(***************************************************************************)
EXTENDS Channel

CONSTANTS
  Slot,       \* loops that could run for a tenant, were the guard to fail
  MaxFaults   \* failures of a process, of a connection or of a token

VARIABLES
  linkable,   \* tenants whose chats get linked; does not change
  stage,      \* of startSseBridge: "off", "reading" the tenants, "on"
  known,      \* bot:tenants:known
  session,    \* bot:tenant-session:<t>: "none", "live" or "stale"
  linking,    \* tenants whose link has stored the session, not yet registered
  connected,  \* the process's set of tenants with a loop
  loop,       \* where each loop is
  faults      \* failures so far

loopVars == <<connected, loop>>
bridgeVars == <<stage, known, session, linking, connected, loop>>

Stages == {"idle", "look", "refresh", "clear", "fetch", "subscribe", "read", "renew", "wait"}

BridgeInit ==
  /\ stage = "off"
  /\ known = {}
  /\ session = [t \in Tenant |-> "none"]
  /\ linking = {}
  /\ connected = {}
  /\ loop = [x \in Tenant \X Slot |-> "idle"]
  /\ faults = 0

Fault == faults < MaxFaults /\ faults' = faults + 1

-----------------------------------------------------------------------------
Running(t) == {s \in Slot : loop[<<t, s>>] # "idle"}

\* Faulty variant: does not ask whether the tenant has a loop.
SpawnAnyway(tenants) ==
  LET free(t) == CHOOSE s \in Slot \ Running(t) : TRUE
  IN /\ \A t \in tenants : Running(t) # Slot
     /\ connected' = connected \cup tenants
     /\ loop' = [x \in Tenant \X Slot |->
                   IF x[1] \in tenants /\ x[2] = free(x[1]) THEN "look" ELSE loop[x]]

\* connected.add and a first pass of the loop, unless the tenant has one.
Spawn(tenants) ==
  LET fresh == {t \in tenants : t \notin connected}
      free(t) == CHOOSE s \in Slot \ Running(t) : TRUE
  IN /\ \A t \in fresh : Running(t) # Slot
     /\ connected' = connected \cup fresh
     /\ loop' = [x \in Tenant \X Slot |->
                   IF x[1] \in fresh /\ x[2] = free(x[1]) THEN "look" ELSE loop[x]]

\* linkChat: the tenant's session is the chat's, whoever linked before.
StoreSession(t) ==
  /\ t \in linkable \ linking
  /\ session' = [session EXCEPT ![t] = "live"]
  /\ linking' = linking \cup {t}
  /\ UNCHANGED <<stage, known, faults>> /\ UNCHANGED channelVars /\ UNCHANGED loopVars

RegisterTenant(t) ==
  /\ t \in linking
  /\ linking' = linking \ {t}
  /\ known' = known \cup {t}
  /\ IF stage = "off" THEN UNCHANGED loopVars ELSE Spawn({t})
  /\ UNCHANGED <<stage, session, faults>> /\ UNCHANGED channelVars

StartBridge ==
  /\ stage = "off"
  /\ stage' = "reading"
  /\ UNCHANGED <<known, session, linking, faults>> /\ UNCHANGED channelVars /\ UNCHANGED loopVars

ReadKnown ==
  /\ stage = "reading"
  /\ stage' = "on"
  /\ Spawn(known)
  /\ UNCHANGED <<known, session, linking, faults>> /\ UNCHANGED channelVars

-----------------------------------------------------------------------------
In(t, s, place) == loop[<<t, s>>] = place
Goes(t, s, place) == loop' = [loop EXCEPT ![<<t, s>>] = place]
Stops(t, s) == Goes(t, s, "idle") /\ connected' = connected \ {t}

AfterLook(t) ==
  CASE session[t] = "live" -> "fetch" [] session[t] = "stale" -> "refresh" [] OTHER -> "idle"

\* getTenantSession
CheckSession(t, s) ==
  /\ In(t, s, "look")
  /\ IF session[t] = "none" THEN Stops(t, s)
     ELSE Goes(t, s, AfterLook(t)) /\ UNCHANGED connected
  /\ UNCHANGED <<stage, known, session, linking, faults>> /\ UNCHANGED channelVars

\* refreshTenantSession before the stream is asked for.
Refresh(t, s) ==
  /\ In(t, s, "refresh")
  /\ \/ /\ session' = [session EXCEPT ![t] = "live"]
        /\ Goes(t, s, "fetch")
        /\ UNCHANGED faults
     \/ Fault /\ Goes(t, s, "clear") /\ UNCHANGED session
  /\ UNCHANGED <<stage, known, linking, connected>> /\ UNCHANGED channelVars

\* A refresh that failed clears the session, even one stored since.
ClearSession(t, s) ==
  /\ In(t, s, "clear")
  /\ session' = [session EXCEPT ![t] = "none"]
  /\ Stops(t, s)
  /\ UNCHANGED <<stage, known, linking, faults>> /\ UNCHANGED channelVars

\* The answer is a stream, 401 or a failure.
Fetch(t, s) ==
  /\ In(t, s, "fetch")
  /\ \/ Goes(t, s, "subscribe") /\ UNCHANGED faults
     \/ \E place \in {"renew", "wait"} : Fault /\ Goes(t, s, place)
  /\ UNCHANGED <<stage, known, session, linking, connected>> /\ UNCHANGED channelVars

\* refreshTenantSessionNow, then the loop once more at the same attempt.
Renew(t, s) ==
  /\ In(t, s, "renew")
  /\ \/ /\ session[t] # "none"
        /\ session' = [session EXCEPT ![t] = "live"]
        /\ Goes(t, s, "look")
        /\ UNCHANGED faults
     \/ /\ session[t] = "none"
        /\ Goes(t, s, "wait")
        /\ UNCHANGED <<session, faults>>
     \/ Fault /\ Goes(t, s, "wait") /\ UNCHANGED session
  /\ UNCHANGED <<stage, known, linking, connected>> /\ UNCHANGED channelVars

\* main-service subscribes to the tenant's channel after it has answered.
Subscribe(t, s) ==
  /\ In(t, s, "subscribe")
  /\ OpenStream(t)
  /\ Goes(t, s, "read")
  /\ UNCHANGED <<stage, known, session, linking, connected, faults>>

\* The stream breaks, or no heartbeat came for a minute.
StreamEnds(t, s) ==
  /\ loop[<<t, s>>] \in {"subscribe", "read"}
  /\ Fault
  /\ Goes(t, s, "wait")
  /\ CloseStreams({t})
  /\ UNCHANGED <<stage, known, session, linking, connected>>

\* Faulty variant: one failure is enough to stop.
GiveUp(t, s) ==
  /\ In(t, s, "wait")
  /\ Stops(t, s)
  /\ UNCHANGED <<stage, known, session, linking, faults>> /\ UNCHANGED channelVars

Backoff(t, s) ==
  /\ In(t, s, "wait")
  /\ Goes(t, s, "look")
  /\ UNCHANGED <<stage, known, session, linking, connected, faults>> /\ UNCHANGED channelVars

\* The access token reaches its end, or the stored session its thirty days.
SessionAges(t) ==
  /\ \/ session[t] = "live" /\ session' = [session EXCEPT ![t] = "stale"]
     \/ session[t] # "none" /\ session' = [session EXCEPT ![t] = "none"]
  /\ UNCHANGED <<stage, known, linking, faults>> /\ UNCHANGED channelVars /\ UNCHANGED loopVars

BotCrash ==
  /\ Fault
  /\ stage' = "off"
  /\ linking' = {}
  /\ connected' = {}
  /\ loop' = [x \in Tenant \X Slot |-> "idle"]
  /\ CloseStreams(Tenant)
  /\ UNCHANGED <<known, session>>

LoopStep(t, s) ==
  \/ CheckSession(t, s) \/ Refresh(t, s) \/ ClearSession(t, s) \/ Fetch(t, s)
  \/ Renew(t, s) \/ Subscribe(t, s) \/ Backoff(t, s)

BridgeStep ==
  \/ StartBridge \/ ReadKnown
  \/ \E t \in Tenant : StoreSession(t) \/ RegisterTenant(t) \/ SessionAges(t)
  \/ \E t \in Tenant, s \in Slot : LoopStep(t, s) \/ StreamEnds(t, s)

BridgeFairness ==
  /\ WF_bridgeVars(StartBridge) /\ WF_bridgeVars(ReadKnown)
  /\ \A t \in Tenant : WF_bridgeVars(RegisterTenant(t))
  /\ \A t \in Tenant, s \in Slot : WF_bridgeVars(LoopStep(t, s))

-----------------------------------------------------------------------------
(***************************************************************************)
(* A tenant never has two loops, which would send every card twice, and    *)
(* connected never names a tenant whose loop is gone, which would keep a   *)
(* later link from starting one: whatever the order of links, the start    *)
(* of the bot, its crashes and the ends of sessions.                       *)
(***************************************************************************)
OneConnection ==
  \A t \in Tenant :
    IF t \in connected THEN \E s \in Slot : Running(t) = {s} ELSE Running(t) = {}

(***************************************************************************)
(* Once the bot is up, a registered tenant whose session is there has a    *)
(* loop, or a link that is about to register it: neither a link during the *)
(* start, nor a refresh that failed, nor a loop that is ending while a     *)
(* chat links, leaves a tenant with nobody who asks for its events.        *)
(***************************************************************************)
NobodyForgotten ==
  stage = "on" =>
    \A t \in known : session[t] # "none" => t \in connected \cup linking

(***************************************************************************)
(* A registered tenant whose session is there has its stream open again    *)
(* sooner or later, unless the session goes: once failures stop, no order  *)
(* of links, restarts and refreshes leaves a linked tenant without events. *)
(***************************************************************************)
BridgeComesBack ==
  \A t \in Tenant :
    (t \in known /\ session[t] # "none") ~> (t \in open \/ session[t] = "none")
=============================================================================

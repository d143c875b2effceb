------------------------------- MODULE Events -------------------------------
(***************************************************************************)
(* publishEvent: how main-service tells a tenant that something happened.  *)
(* A request publishes one event after the other over Redis; an event of   *)
(* the topic "notifications" first takes a token that its entity is not    *)
(* announced twice in a day, then counts towards the tenant's hour.  Every *)
(* Redis command is a step, and requests overlap between them.             *)
(*                                                                         *)
(* Pub/sub keeps nothing: an event reaches the stream /v1/events that is   *)
(* open at that moment, or nobody.                                         *)
(***************************************************************************)
EXTENDS Channel, FiniteSets

CONSTANTS
  Entity,        \* what events are about: listings, reports
  Call,          \* requests that publish when their own work is committed
  Agendas,       \* what the requests publish, in every case considered
  MaxPerWindow   \* notifications a tenant may be sent in one window

Topics == {"jobs", "notifications", "market"}

Event == [topic : Topics, name : STRING, entity : Entity]

Publication == [to : Tenant, event : Event]

ASSUME EventsAssumption ==
  /\ MaxPerWindow \in Nat \ {0}
  /\ Agendas \subseteq [Call -> Seq(Publication)]
  /\ IsFiniteSet(Call)

VARIABLES
  token,      \* deduplication keys alive in Redis
  count,      \* notify:cap counters; 0 when there is no key
  expiring,   \* tenants whose counter has a time to live
  call,       \* what a request still has to publish and where it is
  passed,     \* history: notifications let through for a live token
  sent,       \* history: admissions whose event went out in the window
  carried,    \* history: admissions of earlier windows
  orphaned    \* history: counters whose request died before expire

eventsVars ==
  <<token, count, expiring, call, open, frames, passed, sent, carried, orphaned>>

capVars == <<count, expiring, sent, carried, orphaned>>

Keys == Tenant \X Entity

-----------------------------------------------------------------------------
\* The events a request publishes, in order.
On(t, name, e) == [to |-> t, event |-> [topic |-> "market", name |-> name, entity |-> e]]

ClaimEvents(e, seller, claimer) ==
  << On(seller, "listing.claimed", e),
     [to |-> claimer, event |->
        [topic |-> "notifications", name |-> "market.claim.confirmed", entity |-> e]] >>

\* publishToTenants: one tenant after the other.
ToTenants(tenants, name, e) == [i \in DOMAIN tenants |-> On(tenants[i], name, e)]

EscalationEvents(e, seller, nearby) ==
  <<On(seller, "listing.escalated", e)>> \o ToTenants(nearby, "listing.escalated", e)

PickupEvents(e, seller, claimer) ==
  IF seller = claimer THEN <<On(claimer, "listing.collected", e)>>
  ELSE <<On(claimer, "listing.collected", e), On(seller, "listing.collected", e)>>

-----------------------------------------------------------------------------
Todo(c) == call[c].todo
Next1(c) == Head(Todo(c))
To(c) == Next1(c).to
Key(c) == <<To(c), Next1(c).event.entity>>

At(c, step) == Todo(c) # <<>> /\ call[c].step = step

Becomes(c, step) == call' = [call EXCEPT ![c].step = step]

Finish(c) ==
  call' = [call EXCEPT ![c] = [todo |-> Tail(@.todo), step |-> "begin", place |-> 0]]

\* A request's admission to a window: the event and the count it got.
Admission(c) == <<c, Len(Todo(c)), call[c].place>>

Needs(c, topic) == Next1(c).event.topic = topic

InitialCall(agenda) == [c \in Call |-> [todo |-> agenda[c], step |-> "begin", place |-> 0]]

EventsInit ==
  /\ token = {}
  /\ count = [t \in Tenant |-> 0]
  /\ expiring = {}
  /\ \E agenda \in Agendas : call = InitialCall(agenda)
  /\ ChannelInit
  /\ passed = [k \in Keys |-> 0]
  /\ sent = [t \in Tenant |-> {}]
  /\ carried = [t \in Tenant |-> {}]
  /\ orphaned = {}

-----------------------------------------------------------------------------
PublishPlain(c) ==
  /\ At(c, "begin") /\ ~Needs(c, "notifications")
  /\ Publish(To(c), Next1(c).event)
  /\ Finish(c)
  /\ UNCHANGED <<token, passed, open>> /\ UNCHANGED capVars

\* Faulty variant: SET without NX.
ClaimAnyway(c) ==
  /\ At(c, "begin") /\ Needs(c, "notifications")
  /\ token' = token \cup {Key(c)}
  /\ Becomes(c, "cap")
  /\ UNCHANGED passed /\ UNCHANGED channelVars /\ UNCHANGED capVars

\* SET ... EX 86400 NX
ClaimDedupToken(c) ==
  /\ At(c, "begin") /\ Needs(c, "notifications") /\ Key(c) \notin token
  /\ token' = token \cup {Key(c)}
  /\ Becomes(c, "cap")
  /\ UNCHANGED passed /\ UNCHANGED channelVars /\ UNCHANGED capVars

NotFresh(c) ==
  /\ At(c, "begin") /\ Needs(c, "notifications") /\ Key(c) \in token
  /\ Finish(c)
  /\ UNCHANGED <<token, passed>> /\ UNCHANGED channelVars /\ UNCHANGED capVars

\* INCR: the first of a window goes on to set its time to live.
Counted(c, limit, first) ==
  /\ At(c, "cap")
  /\ LET n == count[To(c)] + 1 IN
       /\ count' = [count EXCEPT ![To(c)] = n]
       /\ IF n > limit THEN Finish(c)
          ELSE LET next == IF n = first THEN "expire" ELSE "send" IN
                 call' = [call EXCEPT ![c] = [todo |-> @.todo, step |-> next, place |-> n]]
  /\ UNCHANGED <<token, passed, expiring, sent, carried, orphaned>>
  /\ UNCHANGED channelVars

\* Faulty variants: the place after the last is given away as well; the time
\* to live is set by the request that takes the last place.
OneTooMany(c) == Counted(c, MaxPerWindow + 1, 1)
ExpireAtLast(c) == Counted(c, MaxPerWindow, MaxPerWindow)

IncrementCap(c) == Counted(c, MaxPerWindow, 1)

SetExpiry(c) ==
  /\ At(c, "expire")
  /\ expiring' = IF count[To(c)] > 0 THEN expiring \cup {To(c)} ELSE expiring
  /\ Becomes(c, "send")
  /\ UNCHANGED <<token, passed, count, sent, carried, orphaned>>
  /\ UNCHANGED channelVars

Deliver(c) ==
  /\ At(c, "send")
  /\ Publish(To(c), Next1(c).event)
  /\ passed' = [passed EXCEPT ![Key(c)] = @ + 1]
  /\ sent' = [sent EXCEPT ![To(c)] = @ \cup {Admission(c)}]
  /\ Finish(c)
  /\ UNCHANGED <<token, count, expiring, carried, orphaned, open>>

\* The process, or its connection to Redis, fails: the rest is not published.
LoseCall(c) ==
  /\ Todo(c) # <<>>
  /\ orphaned' = IF At(c, "expire") THEN orphaned \cup {To(c)} ELSE orphaned
  /\ call' = [call EXCEPT ![c] = [todo |-> <<>>, step |-> "begin", place |-> 0]]
  /\ UNCHANGED <<token, passed, count, expiring, sent, carried>>
  /\ UNCHANGED channelVars

\* A request is over long before the token it took expires.
TokenExpires(k) ==
  /\ k \in token
  /\ \A c \in Call : Todo(c) # <<>> /\ call[c].step # "begin" => Key(c) # k
  /\ token' = token \ {k}
  /\ passed' = [passed EXCEPT ![k] = 0]
  /\ UNCHANGED call /\ UNCHANGED channelVars /\ UNCHANGED capVars

Admitted(t) == {c \in Call : (At(c, "send") \/ At(c, "expire")) /\ To(c) = t}
Pending(t) == {Admission(c) : c \in Admitted(t)}

WindowEnds(t) ==
  /\ t \in expiring
  /\ count' = [count EXCEPT ![t] = 0]
  /\ expiring' = expiring \ {t}
  /\ sent' = [sent EXCEPT ![t] = {}]
  /\ carried' = [carried EXCEPT ![t] = Pending(t)]
  /\ orphaned' = orphaned \ {t}
  /\ UNCHANGED <<token, call, passed>> /\ UNCHANGED channelVars

EventsStep ==
  \/ \E c \in Call :
       \/ PublishPlain(c) \/ ClaimDedupToken(c) \/ NotFresh(c)
       \/ IncrementCap(c) \/ SetExpiry(c) \/ Deliver(c)
  \/ \E k \in Keys : TokenExpires(k)
  \/ \E t \in Tenant : WindowEnds(t)

-----------------------------------------------------------------------------
(***************************************************************************)
(* In one window a tenant is sent at most MaxPerWindow notifications,      *)
(* besides those a request had been admitted for when the window began:    *)
(* requests that overlap cannot all take the last place.                   *)
(***************************************************************************)
CapHolds ==
  \A t \in Tenant : Cardinality(sent[t] \ carried[t]) <= MaxPerWindow

(***************************************************************************)
(* While a deduplication token lives, at most one notification about its   *)
(* entity goes out, whichever of two overlapping requests takes it.        *)
(***************************************************************************)
OncePerKey == \A k \in Keys : passed[k] <= 1

(***************************************************************************)
(* A counter that no request is about to give a time to live has one,      *)
(* unless the request that should have died between incr and expire: the   *)
(* only way a tenant is silenced for good.                                 *)
(***************************************************************************)
WindowAlwaysEnds ==
  \A t \in Tenant :
    count[t] > 0 =>
      \/ t \in expiring \cup orphaned
      \/ \E c \in Call : At(c, "expire") /\ To(c) = t
=============================================================================

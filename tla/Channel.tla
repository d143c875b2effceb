------------------------------ MODULE Channel ------------------------------
(***************************************************************************)
(* The event channel of a tenant: Redis pub/sub behind GET /v1/events.     *)
(* Nothing is kept for a tenant whose stream is not open.                  *)
(***************************************************************************)
EXTENDS Naturals, Sequences

CONSTANTS
  Tenant   \* tenant ids

VARIABLES
  open,    \* tenants whose stream is subscribed
  frames   \* events on a tenant's stream, not yet read

channelVars == <<open, frames>>

ChannelInit == open = {} /\ frames = [t \in Tenant |-> <<>>]

\* redis.publish, and the frame the subscriber writes.
Publish(t, event) ==
  frames' = IF t \in open THEN [frames EXCEPT ![t] = Append(@, event)] ELSE frames

\* subscribeToTenant
OpenStream(t) == open' = open \cup {t} /\ UNCHANGED frames

\* The reader goes away: what it has not read is lost.
CloseStreams(ts) ==
  /\ open' = open \ ts
  /\ frames' = [t \in Tenant |-> IF t \in ts THEN <<>> ELSE frames[t]]
=============================================================================

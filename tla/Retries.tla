-------------------------------- MODULE Retries --------------------------------
(***************************************************************************)
(* Calls that carry an Idempotency-Key (shared/idempotency.ts): what a key *)
(* is used for by the buttons of the console and by the bot, copies of a   *)
(* call that overlap or come late, and what main-service answers them.     *)
(***************************************************************************)
EXTENDS Naturals, Sequences

CONSTANTS
  Goods,     \* the listings that the calls are about
  Copies,    \* the requests that can be under way at a time
  MaxSends   \* the requests that are ever sent

VARIABLES
  record,    \* idem:<tenant>:<key>: the calls whose answer is kept, at most one a key
  done,      \* the calls that were executed with each key, the first one first
  copies,    \* the requests under way, and how far they are
  answers,   \* what was answered to which call
  excused,   \* keys that met an overlap, a crash or the end of a record's time
  sends

ASSUME RetriesAssumption == MaxSends \in Nat /\ "prep" \notin Goods

retriesVars == <<record, done, copies, answers, excused, sends>>

\* The body is what is hashed: for a listing's calls, the id and nothing else.
Call(key, route, body) == [key |-> key, route |-> route, body |-> body]

\* A key lives as long as the component on the screen, or is made of the
\* number of the chat's update; the other calls take a new key each time.
ClaimButtonCalls == {Call(<<"claim", x>>, "claim", x) : x \in Goods}
ListingCardCalls ==
  {Call(<<"card", x>>, route, x) : x \in Goods, route \in {"cancel", "complete", "no-show"}}
PickupsPageCalls == {Call(<<"pickups">>, "complete", x) : x \in Goods}
UpdateCalls ==
  {Call(<<"update">>, "claim", x) : x \in Goods} \cup {Call(<<"update">>, "prep", "prep")}

Calls == ClaimButtonCalls \cup ListingCardCalls \cup PickupsPageCalls \cup UpdateCalls
Keys == {c.key : c \in Calls}

Free == [at |-> "free"]
Executing == {c \in Copies : copies[c].at \in {"execute", "record"}}

RetriesInit ==
  /\ record = {} /\ done = [k \in Keys |-> <<>>]
  /\ copies = [c \in Copies |-> Free]
  /\ answers = {} /\ excused = {} /\ sends = 0

Moves(c, at) == copies' = [copies EXCEPT ![c].at = at]

\* The answer may be lost on its way; then it is as if nobody read it.
Answers(c, kind) ==
  /\ answers' = answers \cup {[call |-> copies[c].call, kind |-> kind]}
  /\ copies' = [copies EXCEPT ![c] = Free]

-----------------------------------------------------------------------------
\* A button is pressed again, the update is delivered again, or a call is
\* sent once more after the session was refreshed.
Send(c) ==
  /\ copies[c] = Free /\ sends < MaxSends
  /\ \E call \in Calls : copies' = [copies EXCEPT ![c] = [at |-> "read", call |-> call]]
  /\ sends' = sends + 1
  /\ UNCHANGED <<record, done, answers, excused>>

\* Mutant: the body's hash is not compared.
ReadAnyBody(c) ==
  LET call == copies[c].call
      kept == {r \in record : r.key = call.key}
  IN  /\ copies[c].at = "read"
      /\ IF kept = {}
         THEN /\ Moves(c, "execute")
              /\ excused' = excused \cup
                   {call.key : o \in {o \in Executing : copies[o].call.key = call.key}}
              /\ UNCHANGED answers
         ELSE /\ Answers(c, "repeated")
              /\ UNCHANGED excused
      /\ UNCHANGED <<record, done, sends>>

\* readIdempotent: the key is the tenant's, whatever the route.
ReadIdempotent(c) ==
  LET call == copies[c].call
      kept == {r \in record : r.key = call.key}
  IN  /\ copies[c].at = "read"
      /\ IF kept = {}
         THEN /\ Moves(c, "execute")
              /\ excused' = excused \cup
                   {call.key : o \in {o \in Executing : copies[o].call.key = call.key}}
              /\ UNCHANGED answers
         ELSE /\ Answers(c, IF \E r \in kept : r.body = call.body THEN "repeated" ELSE "conflict")
              /\ UNCHANGED excused
      /\ UNCHANGED <<record, done, sends>>

Executes(c) ==
  /\ copies[c].at = "execute"
  /\ done' = [done EXCEPT ![copies[c].call.key] = Append(@, copies[c].call)]
  /\ Moves(c, "record")
  /\ UNCHANGED <<record, answers, excused, sends>>

\* An error of the handler is not kept: the key is as good as new.
IsRefused(c) ==
  /\ copies[c].at = "execute"
  /\ Answers(c, "error")
  /\ UNCHANGED <<record, done, excused, sends>>

WriteIdempotent(c) ==
  /\ copies[c].at = "record"
  /\ record' = {r \in record : r.key # copies[c].call.key} \cup {copies[c].call}
  /\ Answers(c, "done")
  /\ UNCHANGED <<done, excused, sends>>

\* The process stops; what it had executed is not known to the key.
Crashes(c) ==
  /\ copies[c] # Free
  /\ copies' = [copies EXCEPT ![c] = Free]
  /\ excused' = IF copies[c].at = "record" THEN excused \cup {copies[c].call.key} ELSE excused
  /\ UNCHANGED <<record, done, answers, sends>>

\* After 24 hours.
RecordExpires ==
  \E r \in record :
    /\ record' = record \ {r}
    /\ excused' = excused \cup {r.key}
    /\ UNCHANGED <<done, copies, answers, sends>>

RetriesStep ==
  \/ \E c \in Copies :
       \/ Send(c) \/ ReadIdempotent(c) \/ Executes(c) \/ IsRefused(c) \/ WriteIdempotent(c)
       \/ Crashes(c)
  \/ RecordExpires

RetriesSpec == RetriesInit /\ [][RetriesStep]_retriesVars

RetriesTypeOK ==
  /\ record \subseteq Calls
  /\ done \in [Keys -> Seq(Calls)]
  /\ copies \in [Copies -> {Free} \cup [at : {"read", "execute", "record"}, call : Calls]]
  /\ answers \subseteq [call : Calls, kind : {"done", "repeated", "conflict", "error"}]
  /\ excused \subseteq Keys
  /\ sends \in 0..MaxSends
-----------------------------------------------------------------------------
Executed(k) == {done[k][i] : i \in DOMAIN done[k]}

\* The record is the key's and the body's, not the route's: cancel, complete and
\* no-show of a card share both, and each may be answered with another's answer
\* and never run (listings.route.ts:56-92).
ShareACard(c, d) == {c, d} \subseteq ListingCardCalls /\ c.key = d.key

\* A call that is sent again is executed once and answered with its own first
\* answer, save on a listing's card, where the answer may be that of another of
\* the card's actions (ShareACard); an answer of its own was executed, and only
\* another body is a conflict. Keys are excused whose copies overlapped, whose
\* process stopped before it recorded the answer, or whose day has passed.
RetryRepeatsAnswer ==
  /\ \A k \in Keys : Len(done[k]) > 1 => k \in excused
  /\ \A a \in answers :
       LET ran == Executed(a.call.key)
       IN  /\ a.kind = "done" => a.call \in ran
           /\ a.kind = "repeated" => \E c \in ran : c = a.call \/ ShareACard(c, a.call)
           /\ a.kind = "conflict" => \E c \in ran : c.body # a.call.body

\* What makes it inductive: what is recorded or about to be was executed, and of
\* a key without an excuse one copy at most is past its reading, before anything
\* was executed with the key or while the one call that was is being recorded.
WasExecuted ==
  /\ \A r \in record : r \in Executed(r.key)
  /\ \A c \in Copies : copies[c].at = "record" => copies[c].call \in Executed(copies[c].call.key)

OneAtATime ==
  \A c, d \in Executing :
    copies[c].call.key = copies[d].call.key => c = d \/ copies[c].call.key \in excused

FirstOfItsKey ==
  \A c \in Copies :
    copies[c].at = "execute" =>
      done[copies[c].call.key] = <<>> \/ copies[c].call.key \in excused

IsOnRecord ==
  \A k \in Keys \ excused :
    done[k] # <<>> =>
      \/ \E r \in record : r.key = k
      \/ \E c \in Copies : copies[c].at = "record" /\ copies[c].call.key = k

RetriesInv ==
  /\ RetriesTypeOK /\ RetryRepeatsAnswer
  /\ WasExecuted /\ OneAtATime /\ FirstOfItsKey /\ IsOnRecord
=============================================================================

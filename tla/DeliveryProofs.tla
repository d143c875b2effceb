--------------------------- MODULE DeliveryProofs ---------------------------
(***************************************************************************)
(* Proofs about Delivery, for any tenants, requests, publications, loops   *)
(* and failures: a notification goes out once while its token lives, a     *)
(* window has no more than its places, no tenant is silenced but by a      *)
(* crash between incr and expire, no tenant has two loops, and a report    *)
(* comes to the chat once at most and with all of its rows.                *)
(***************************************************************************)
EXTENDS Delivery, FoldTheorems, SequenceTheorems, FiniteSetTheorems, TLAPS

Steps == {"begin", "cap", "expire", "send"}

\* The requests that have taken a token and not sent yet.
Holding == {c \in Call : Todo(c) # <<>> /\ call[c].step # "begin"}

Shape ==
  /\ call \in [Call -> [todo : Seq(Publication), step : Steps, place : Nat]]
  /\ count \in [Tenant -> Nat]
  /\ token \subseteq Keys
  /\ passed \in [Keys -> Nat]

\* Why a token goes out once: one request at most holds it, before anything was
\* sent with it, and it lives as long as something counts as sent.
OneHolder == \A c, d \in Holding : Key(c) = Key(d) => c = d
HeldBefore == \A c \in Holding : Key(c) \in token /\ passed[Key(c)] = 0
SentIsTaken == \A k \in Keys : passed[k] # 0 => k \in token

TokensInv == Shape /\ OncePerKey /\ OneHolder /\ HeldBefore /\ SentIsTaken
EventsInv == TokensInv /\ WindowAlwaysEnds

LEMMA KeyOfTodo ==
  ASSUME Shape, NEW c \in Call, Todo(c) # <<>>
  PROVE  /\ To(c) \in Tenant /\ Key(c) \in Keys
         /\ Tail(Todo(c)) \in Seq(Publication)
  <1>1. Todo(c) \in Seq(Publication)
    BY DEF Shape, Todo
  <1>2. Head(Todo(c)) \in Publication /\ Tail(Todo(c)) \in Seq(Publication)
    BY <1>1, HeadTailProperties
  <1>3. QED
    BY <1>2 DEF To, Key, Keys, Next1, Publication, Event

\* A request that is through with an event holds no token.
LEMMA FinishFrees ==
  ASSUME Shape, NEW c \in Call,
         \/ Todo(c) # <<>> /\ Finish(c)
         \/ call' = [call EXCEPT ![c] = [todo |-> <<>>, step |-> "begin", place |-> 0]]
  PROVE  /\ call' \in [Call -> [todo : Seq(Publication), step : Steps, place : Nat]]
         /\ \A d \in Call \ {c} : call'[d] = call[d]
         /\ Holding' = Holding \ {c}
         /\ call'[c].step = "begin"
  <1>1. PICK rest \in Seq(Publication) :
          call' = [call EXCEPT ![c] = [todo |-> rest, step |-> "begin", place |-> 0]]
    <2>1. CASE Todo(c) # <<>> /\ Finish(c)
      <3>1. Tail(Todo(c)) \in Seq(Publication)
        BY <2>1, KeyOfTodo
      <3>2. call' = [call EXCEPT ![c] = [todo |-> Tail(Todo(c)), step |-> "begin", place |-> 0]]
        BY <2>1 DEF Finish, Todo
      <3>3. QED
        BY <3>1, <3>2
    <2>2. CASE call' = [call EXCEPT ![c] = [todo |-> <<>>, step |-> "begin", place |-> 0]]
      <3>1. <<>> \in Seq(Publication)
        OBVIOUS
      <3>2. QED
        BY <2>2, <3>1
    <2>3. QED
      BY <2>1, <2>2
  <1>2. call' \in [Call -> [todo : Seq(Publication), step : Steps, place : Nat]]
    BY <1>1 DEF Shape, Steps
  <1>3. call'[c].step = "begin" /\ \A d \in Call \ {c} : call'[d] = call[d]
    BY <1>1 DEF Shape
  <1>4. Holding' = Holding \ {c}
    BY <1>3 DEF Holding, Todo
  <1>5. QED
    BY <1>2, <1>3, <1>4

\* A request that goes on to another step of the same event.
LEMMA MovesKeepTodo ==
  ASSUME Shape, NEW c \in Call, Todo(c) # <<>>, NEW step \in Steps, NEW place \in Nat,
         call' = [call EXCEPT ![c] = [todo |-> Todo(c), step |-> step, place |-> place]]
  PROVE  /\ call' \in [Call -> [todo : Seq(Publication), step : Steps, place : Nat]]
         /\ \A d \in Call \ {c} : call'[d] = call[d]
         /\ \A d \in Call : call'[d].todo = call[d].todo
         /\ call'[c].step = step
         /\ Holding' = IF step = "begin" THEN Holding \ {c} ELSE Holding \cup {c}
  <1>1. /\ call' \in [Call -> [todo : Seq(Publication), step : Steps, place : Nat]]
        /\ \A d \in Call \ {c} : call'[d] = call[d]
        /\ \A d \in Call : call'[d].todo = call[d].todo
        /\ call'[c].step = step
    BY DEF Shape, Todo
  <1>2. Holding' = IF step = "begin" THEN Holding \ {c} ELSE Holding \cup {c}
    BY <1>1 DEF Holding, Todo
  <1>3. QED
    BY <1>1, <1>2

\* Requests that end an event leave the tokens' invariant as it is.
LEMMA EndKeepsTokens ==
  ASSUME TokensInv, NEW c \in Call, UNCHANGED <<token, passed>>, count' \in [Tenant -> Nat],
         \/ Todo(c) # <<>> /\ Finish(c)
         \/ call' = [call EXCEPT ![c] = [todo |-> <<>>, step |-> "begin", place |-> 0]]
  PROVE  TokensInv'
  <1>1. Shape /\ OncePerKey /\ OneHolder /\ HeldBefore /\ SentIsTaken
    BY DEF TokensInv
  <1>2. /\ call' \in [Call -> [todo : Seq(Publication), step : Steps, place : Nat]]
        /\ \A d \in Call \ {c} : call'[d] = call[d]
        /\ Holding' = Holding \ {c}
    BY <1>1, FinishFrees
  <1>3. \A d \in Holding' : d \in Holding /\ Key(d)' = Key(d)
    BY <1>2 DEF Key, To, Next1, Todo, Holding
  <1>4. Shape'
    BY <1>1, <1>2 DEF Shape
  <1>5. OneHolder'
    BY <1>1, <1>3 DEF OneHolder
  <1>6. HeldBefore'
    BY <1>1, <1>3 DEF HeldBefore
  <1>7. OncePerKey' /\ SentIsTaken'
    BY <1>1 DEF OncePerKey, SentIsTaken
  <1>8. QED
    BY <1>4, <1>5, <1>6, <1>7 DEF TokensInv

\* So does one that goes on with the token it holds.
LEMMA GoOnKeepsTokens ==
  ASSUME TokensInv, NEW c \in Holding, UNCHANGED <<token, passed>>, count' \in [Tenant -> Nat],
         NEW step \in Steps \ {"begin"}, NEW place \in Nat,
         call' = [call EXCEPT ![c] = [todo |-> Todo(c), step |-> step, place |-> place]]
  PROVE  TokensInv'
  <1>1. Shape /\ OncePerKey /\ OneHolder /\ HeldBefore /\ SentIsTaken
    BY DEF TokensInv
  <1>2. c \in Call /\ Todo(c) # <<>> /\ Holding \cup {c} = Holding
    BY DEF Holding
  <1>3. /\ call' \in [Call -> [todo : Seq(Publication), step : Steps, place : Nat]]
        /\ \A d \in Call : call'[d].todo = call[d].todo
        /\ Holding' = IF step = "begin" THEN Holding \ {c} ELSE Holding \cup {c}
    BY <1>1, <1>2, MovesKeepTodo
  <1>4. \A d \in Call : Key(d)' = Key(d)
    BY <1>3 DEF Key, To, Next1, Todo
  <1>5. Shape'
    BY <1>1, <1>3 DEF Shape
  <1>6. OneHolder' /\ HeldBefore'
    BY <1>1, <1>2, <1>3, <1>4 DEF OneHolder, HeldBefore, Holding
  <1>7. OncePerKey' /\ SentIsTaken'
    BY <1>1 DEF OncePerKey, SentIsTaken
  <1>8. QED
    BY <1>5, <1>6, <1>7 DEF TokensInv

LEMMA ClaimKeepsTokens ==
  ASSUME TokensInv, NEW c \in Call, ClaimDedupToken(c)
  PROVE  TokensInv'
  <1>1. Shape /\ OncePerKey /\ OneHolder /\ HeldBefore /\ SentIsTaken
    BY DEF TokensInv
  <1>2. /\ Todo(c) # <<>> /\ call[c].step = "begin" /\ Key(c) \notin token
        /\ token' = token \cup {Key(c)} /\ UNCHANGED <<passed, count>>
        /\ call' = [call EXCEPT ![c].step = "cap"]
    BY DEF ClaimDedupToken, At, Becomes, capVars
  <1>3. call' = [call EXCEPT ![c] = [todo |-> Todo(c), step |-> "cap", place |-> call[c].place]]
        /\ call[c].place \in Nat
    <2>1. call[c] \in [todo : Seq(Publication), step : Steps, place : Nat]
      BY <1>1 DEF Shape
    <2>2. [call[c] EXCEPT !.step = "cap"] =
            [todo |-> call[c].todo, step |-> "cap", place |-> call[c].place]
      BY <2>1
    <2>3. QED
      BY <1>2, <2>1, <2>2 DEF Todo
  <1>4. /\ call' \in [Call -> [todo : Seq(Publication), step : Steps, place : Nat]]
        /\ \A d \in Call : call'[d].todo = call[d].todo
        /\ Holding' = Holding \cup {c}
    BY <1>1, <1>2, <1>3, MovesKeepTodo DEF Steps
  <1>5. \A d \in Call : Key(d)' = Key(d)
    BY <1>4 DEF Key, To, Next1, Todo
  <1>6. Key(c) \in Keys
    BY <1>1, <1>2, KeyOfTodo
  <1>7. passed[Key(c)] = 0
    BY <1>1, <1>2, <1>6 DEF SentIsTaken
  <1>8. Shape'
    BY <1>1, <1>2, <1>4, <1>6 DEF Shape
  <1>9. OneHolder'
    BY <1>1, <1>2, <1>4, <1>5 DEF OneHolder, HeldBefore, Holding
  <1>10. HeldBefore'
    BY <1>1, <1>2, <1>4, <1>5, <1>7 DEF HeldBefore, Holding
  <1>11. OncePerKey' /\ SentIsTaken'
    BY <1>1, <1>2 DEF OncePerKey, SentIsTaken
  <1>12. QED
    BY <1>8, <1>9, <1>10, <1>11 DEF TokensInv

LEMMA DeliverKeepsTokens ==
  ASSUME TokensInv, NEW c \in Call, Deliver(c)
  PROVE  TokensInv'
  <1>1. Shape /\ OncePerKey /\ OneHolder /\ HeldBefore /\ SentIsTaken
    BY DEF TokensInv
  <1>2. /\ Todo(c) # <<>> /\ call[c].step = "send" /\ Finish(c)
        /\ passed' = [passed EXCEPT ![Key(c)] = @ + 1] /\ UNCHANGED <<token, count>>
    BY DEF Deliver, At
  <1>3. c \in Holding /\ Key(c) \in Keys
    BY <1>1, <1>2, KeyOfTodo DEF Holding
  <1>4. passed[Key(c)] = 0 /\ Key(c) \in token
    BY <1>1, <1>3 DEF HeldBefore
  <1>5. passed' = [passed EXCEPT ![Key(c)] = 1]
    BY <1>2, <1>4
  <1>6. /\ call' \in [Call -> [todo : Seq(Publication), step : Steps, place : Nat]]
        /\ \A d \in Call \ {c} : call'[d] = call[d]
        /\ Holding' = Holding \ {c}
    BY <1>1, <1>2, FinishFrees
  <1>7. \A d \in Holding' : d \in Holding /\ d # c /\ Key(d)' = Key(d)
    BY <1>6 DEF Key, To, Next1, Todo, Holding
  <1>8. Shape'
    <2>1. passed' \in [Keys -> Nat]
      BY <1>1, <1>5 DEF Shape
    <2>2. QED
      BY <1>1, <1>2, <1>6, <2>1 DEF Shape
  <1>9. OneHolder'
    BY <1>1, <1>7 DEF OneHolder
  <1>10. HeldBefore'
    <2>1. ASSUME NEW d \in Holding'
          PROVE  Key(d) \in token /\ passed'[Key(d)] = 0
      <3>1. Key(d) \in Keys /\ Key(d) # Key(c) /\ passed[Key(d)] = 0 /\ Key(d) \in token
        BY <1>1, <1>3, <1>7, KeyOfTodo DEF OneHolder, HeldBefore, Holding
      <3>2. QED
        BY <1>1, <1>5, <3>1 DEF Shape
    <2>2. QED
      BY <1>2, <1>7, <2>1 DEF HeldBefore
  <1>11. OncePerKey' /\ SentIsTaken'
    BY <1>1, <1>2, <1>3, <1>4, <1>5 DEF OncePerKey, SentIsTaken, Shape
  <1>12. QED
    BY <1>8, <1>9, <1>10, <1>11 DEF TokensInv

LEMMA ExpiryKeepsTokens ==
  ASSUME TokensInv, NEW k \in Keys, TokenExpires(k)
  PROVE  TokensInv'
  <1>1. Shape /\ OncePerKey /\ OneHolder /\ HeldBefore /\ SentIsTaken
    BY DEF TokensInv
  <1>2. /\ token' = token \ {k} /\ passed' = [passed EXCEPT ![k] = 0]
        /\ UNCHANGED <<call, count>>
        /\ \A c \in Holding : Key(c) # k
    BY DEF TokenExpires, capVars, Holding
  <1>3. Holding' = Holding /\ \A c \in Call : Key(c)' = Key(c)
    BY <1>2 DEF Holding, Key, To, Next1, Todo
  <1>4. \A c \in Holding : Key(c) \in Keys
    BY <1>1, KeyOfTodo DEF Holding
  <1>5. Shape'
    BY <1>1, <1>2 DEF Shape
  <1>6. OneHolder'
    BY <1>1, <1>3 DEF OneHolder, Holding
  <1>7. HeldBefore'
    BY <1>1, <1>2, <1>3, <1>4 DEF HeldBefore, Holding, Shape
  <1>8. OncePerKey' /\ SentIsTaken'
    BY <1>1, <1>2 DEF OncePerKey, SentIsTaken, Shape
  <1>9. QED
    BY <1>5, <1>6, <1>7, <1>8 DEF TokensInv

-----------------------------------------------------------------------------
\* A step of a request that is not about to set a time to live.
LEMMA OthersExpire ==
  ASSUME WindowAlwaysEnds, NEW c \in Call, ~At(c, "expire"),
         \A d \in Call \ {c} : call'[d] = call[d],
         UNCHANGED <<count, expiring, orphaned>>
  PROVE  WindowAlwaysEnds'
  <1>1. \A d \in Call : At(d, "expire") => At(d, "expire")' /\ To(d)' = To(d)
    BY DEF At, To, Next1, Todo
  <1>2. QED
    BY <1>1 DEF WindowAlwaysEnds

LEMMA CountKeeps ==
  ASSUME EventsInv, NEW c \in Call, IncrementCap(c)
  PROVE  EventsInv'
  <1> DEFINE n == count[To(c)] + 1
  <1>1. TokensInv /\ Shape /\ WindowAlwaysEnds
    BY DEF EventsInv, TokensInv
  <1>2. /\ Todo(c) # <<>> /\ call[c].step = "cap"
        /\ count' = [count EXCEPT ![To(c)] = n]
        /\ UNCHANGED <<token, passed, expiring, orphaned>>
        /\ IF n > MaxPerWindow THEN Finish(c)
           ELSE call' = [call EXCEPT ![c] =
                  [todo |-> @.todo, step |-> IF n = 1 THEN "expire" ELSE "send", place |-> n]]
    BY DEF IncrementCap, Counted, At
  <1>3. c \in Holding /\ To(c) \in Tenant /\ n \in Nat \ {0} /\ count' \in [Tenant -> Nat]
    BY <1>1, <1>2, KeyOfTodo DEF Shape, Holding
  <1>4. \A t \in Tenant : count'[t] = IF t = To(c) THEN n ELSE count[t]
    BY <1>1, <1>2 DEF Shape
  <1>5. CASE n > MaxPerWindow
    <2>1. TokensInv'
      BY <1>1, <1>2, <1>3, <1>5, EndKeepsTokens
    <2>2. \A d \in Call \ {c} : call'[d] = call[d]
      BY <1>1, <1>2, <1>5, FinishFrees
    <2>3. \A d \in Call : At(d, "expire") => At(d, "expire")' /\ To(d)' = To(d)
      BY <1>2, <2>2 DEF At, To, Next1, Todo
    <2>4. \A t \in Tenant : count'[t] > 0 => count[t] > 0
      <3>1. MaxPerWindow \in Nat \ {0}
        BY EventsAssumption
      <3>2. count \in [Tenant -> Nat] /\ count[To(c)] > 0
        BY <1>1, <1>3, <1>5, <3>1 DEF Shape
      <3>3. QED
        BY <1>4, <3>2
    <2>5. WindowAlwaysEnds'
      BY <1>1, <1>2, <2>3, <2>4 DEF WindowAlwaysEnds
    <2>6. QED
      BY <2>1, <2>5 DEF EventsInv
  <1>6. CASE ~(n > MaxPerWindow)
    <2> DEFINE step == IF n = 1 THEN "expire" ELSE "send"
    <2>1. step \in Steps \ {"begin"}
      BY DEF Steps
    <2>2. call' = [call EXCEPT ![c] = [todo |-> Todo(c), step |-> step, place |-> n]]
      BY <1>2, <1>6 DEF Todo
    <2>3. TokensInv'
      BY <1>1, <1>2, <1>3, <2>1, <2>2, GoOnKeepsTokens
    <2>4. /\ \A d \in Call \ {c} : call'[d] = call[d]
          /\ \A d \in Call : call'[d].todo = call[d].todo
          /\ call'[c].step = step
      BY <1>1, <1>2, <1>3, <2>1, <2>2, MovesKeepTodo
    <2>5. \A d \in Call : At(d, "expire") => At(d, "expire")' /\ To(d)' = To(d)
      BY <1>2, <2>4 DEF At, To, Next1, Todo
    <2>6. n = 1 => At(c, "expire")' /\ To(c)' = To(c)
      BY <1>2, <2>4 DEF At, To, Next1, Todo
    <2>7. \A t \in Tenant : count'[t] > 0 => count[t] > 0 \/ (n = 1 /\ t = To(c))
      BY <1>1, <1>3, <1>4 DEF Shape
    <2>8. WindowAlwaysEnds'
      BY <1>1, <1>2, <2>5, <2>6, <2>7 DEF WindowAlwaysEnds
    <2>9. QED
      BY <2>3, <2>8 DEF EventsInv
  <1>7. QED
    BY <1>5, <1>6

LEMMA ExpireKeeps ==
  ASSUME EventsInv, NEW c \in Call, SetExpiry(c)
  PROVE  EventsInv'
  <1>1. TokensInv /\ Shape /\ WindowAlwaysEnds
    BY DEF EventsInv, TokensInv
  <1>2. /\ Todo(c) # <<>> /\ call[c].step = "expire"
        /\ expiring' = IF count[To(c)] > 0 THEN expiring \cup {To(c)} ELSE expiring
        /\ call' = [call EXCEPT ![c].step = "send"]
        /\ UNCHANGED <<token, passed, count, orphaned>>
    BY DEF SetExpiry, At, Becomes
  <1>3. c \in Holding /\ count' \in [Tenant -> Nat]
    BY <1>1, <1>2 DEF Shape, Holding
  <1>4. call' = [call EXCEPT ![c] = [todo |-> Todo(c), step |-> "send", place |-> call[c].place]]
        /\ call[c].place \in Nat /\ "send" \in Steps \ {"begin"}
    <2>1. call[c] \in [todo : Seq(Publication), step : Steps, place : Nat]
      BY <1>1 DEF Shape
    <2>2. [call[c] EXCEPT !.step = "send"] =
            [todo |-> call[c].todo, step |-> "send", place |-> call[c].place]
      BY <2>1
    <2>3. QED
      BY <1>2, <2>1, <2>2 DEF Todo, Steps
  <1>5. TokensInv'
    BY <1>1, <1>2, <1>3, <1>4, GoOnKeepsTokens
  <1>6. \A d \in Call \ {c} : call'[d] = call[d]
    BY <1>1, <1>2, <1>4, MovesKeepTodo
  <1>7. \A d \in Call \ {c} : At(d, "expire") => At(d, "expire")' /\ To(d)' = To(d)
    BY <1>6 DEF At, To, Next1, Todo
  <1>8. WindowAlwaysEnds'
    BY <1>1, <1>2, <1>7 DEF WindowAlwaysEnds
  <1>9. QED
    BY <1>5, <1>8 DEF EventsInv

LEMMA LoseKeeps ==
  ASSUME EventsInv, NEW c \in Call, LoseCall(c)
  PROVE  EventsInv'
  <1>1. TokensInv /\ Shape /\ WindowAlwaysEnds
    BY DEF EventsInv, TokensInv
  <1>2. /\ Todo(c) # <<>>
        /\ orphaned' = IF At(c, "expire") THEN orphaned \cup {To(c)} ELSE orphaned
        /\ call' = [call EXCEPT ![c] = [todo |-> <<>>, step |-> "begin", place |-> 0]]
        /\ UNCHANGED <<token, passed, count, expiring>>
    BY DEF LoseCall
  <1>3. TokensInv'
    <2>1. count' \in [Tenant -> Nat]
      BY <1>1, <1>2 DEF Shape
    <2>2. QED
      BY <1>1, <1>2, <2>1, EndKeepsTokens
  <1>4. \A d \in Call \ {c} : call'[d] = call[d]
    BY <1>1, <1>2, FinishFrees
  <1>5. \A d \in Call \ {c} : At(d, "expire") => At(d, "expire")' /\ To(d)' = To(d)
    BY <1>4 DEF At, To, Next1, Todo
  <1>6. WindowAlwaysEnds'
    BY <1>1, <1>2, <1>5 DEF WindowAlwaysEnds
  <1>7. QED
    BY <1>3, <1>6 DEF EventsInv

LEMMA WindowEndKeeps ==
  ASSUME EventsInv, NEW t \in Tenant, WindowEnds(t)
  PROVE  EventsInv'
  <1>1. TokensInv /\ Shape /\ WindowAlwaysEnds
    BY DEF EventsInv, TokensInv
  <1>2. /\ count' = [count EXCEPT ![t] = 0] /\ expiring' = expiring \ {t}
        /\ orphaned' = orphaned \ {t} /\ UNCHANGED <<token, call, passed>>
    BY DEF WindowEnds
  <1>3. Shape'
    BY <1>1, <1>2 DEF Shape
  <1>4. Holding' = Holding /\ \A c \in Call : Key(c)' = Key(c)
    BY <1>2 DEF Holding, Key, To, Next1, Todo
  <1>5. (OncePerKey /\ OneHolder /\ HeldBefore /\ SentIsTaken)'
    BY <1>1, <1>2, <1>4
    DEF TokensInv, OncePerKey, OneHolder, HeldBefore, SentIsTaken, Holding
  <1>6. \A d \in Call : At(d, "expire")' = At(d, "expire") /\ To(d)' = To(d)
    BY <1>2 DEF At, To, Next1, Todo
  <1>7. \A u \in Tenant : count'[u] > 0 => u # t /\ count[u] > 0
    BY <1>1, <1>2 DEF Shape
  <1>8. WindowAlwaysEnds'
    BY <1>1, <1>2, <1>6, <1>7 DEF WindowAlwaysEnds
  <1>9. QED
    BY <1>3, <1>5, <1>8 DEF EventsInv, TokensInv

LEMMA EventsStepKeeps ==
  ASSUME EventsInv, EventsStep
  PROVE  EventsInv'
  <1>1. TokensInv /\ Shape /\ WindowAlwaysEnds
    BY DEF EventsInv, TokensInv
  <1>2. count \in [Tenant -> Nat]
    BY <1>1 DEF Shape
  <1>3. ASSUME NEW c \in Call, PublishPlain(c) \/ NotFresh(c)
        PROVE  EventsInv'
    <2>1. /\ Todo(c) # <<>> /\ Finish(c) /\ ~At(c, "expire")
          /\ UNCHANGED <<token, passed, count, expiring, orphaned>>
      BY <1>3 DEF PublishPlain, NotFresh, At, capVars
    <2>2. TokensInv'
      BY <1>1, <1>2, <2>1, EndKeepsTokens
    <2>3. \A d \in Call \ {c} : call'[d] = call[d]
      BY <1>1, <2>1, FinishFrees
    <2>4. QED
      BY <1>1, <2>1, <2>2, <2>3, OthersExpire DEF EventsInv
  <1>4. ASSUME NEW c \in Call, ClaimDedupToken(c)
        PROVE  EventsInv'
    <2>1. /\ call' = [call EXCEPT ![c].step = "cap"] /\ ~At(c, "expire")
          /\ UNCHANGED <<count, expiring, orphaned>>
      BY <1>4 DEF ClaimDedupToken, At, Becomes, capVars
    <2>2. \A d \in Call \ {c} : call'[d] = call[d]
      BY <1>1, <2>1 DEF Shape
    <2>3. QED
      BY <1>1, <1>4, <2>1, <2>2, OthersExpire, ClaimKeepsTokens DEF EventsInv
  <1>5. ASSUME NEW c \in Call, Deliver(c)
        PROVE  EventsInv'
    <2>1. /\ Todo(c) # <<>> /\ Finish(c) /\ ~At(c, "expire")
          /\ UNCHANGED <<count, expiring, orphaned>>
      BY <1>5 DEF Deliver, At
    <2>2. \A d \in Call \ {c} : call'[d] = call[d]
      BY <1>1, <2>1, FinishFrees
    <2>3. QED
      BY <1>1, <1>5, <2>1, <2>2, OthersExpire, DeliverKeepsTokens DEF EventsInv
  <1>6. ASSUME NEW k \in Keys, TokenExpires(k)
        PROVE  EventsInv'
    <2>1. UNCHANGED <<call, count, expiring, orphaned>>
      BY <1>6 DEF TokenExpires, capVars
    <2>2. WindowAlwaysEnds'
      BY <1>1, <2>1 DEF WindowAlwaysEnds, At, To, Next1, Todo
    <2>3. QED
      BY <1>1, <1>6, <2>2, ExpiryKeepsTokens DEF EventsInv
  <1>7. QED
    BY <1>3, <1>4, <1>5, <1>6, CountKeeps, ExpireKeeps, WindowEndKeeps DEF EventsStep

LEMMA EventsStutter ==
  ASSUME EventsInv, UNCHANGED eventsOnly
  PROVE  EventsInv'
  <1>1. UNCHANGED <<token, count, expiring, call, passed, orphaned>>
    BY DEF eventsOnly
  <1>2. QED
    BY <1>1
    DEF EventsInv, TokensInv, Shape, OncePerKey, OneHolder, HeldBefore, SentIsTaken,
        WindowAlwaysEnds, Holding, Key, To, Next1, Todo, At

LEMMA EventsBegin ==
  ASSUME EventsInit
  PROVE  EventsInv
  <1>1. PICK agenda \in Agendas : call = InitialCall(agenda)
    BY DEF EventsInit
  <1>2. agenda \in [Call -> Seq(Publication)]
    BY EventsAssumption
  <1>3. /\ call \in [Call -> [todo : Seq(Publication), step : Steps, place : Nat]]
        /\ \A c \in Call : call[c].step = "begin"
    BY <1>1, <1>2 DEF InitialCall, Steps
  <1>4. token = {} /\ count = [t \in Tenant |-> 0] /\ passed = [k \in Keys |-> 0]
    BY DEF EventsInit
  <1>5. Holding = {}
    BY <1>3 DEF Holding
  <1>6. QED
    BY <1>3, <1>4, <1>5
    DEF EventsInv, TokensInv, Shape, OncePerKey, OneHolder, HeldBefore, SentIsTaken,
        WindowAlwaysEnds

\* Only main-service's requests touch the state of the events.
LEMMA EventsInductive ==
  ASSUME EventsInv, [Next]_vars
  PROVE  EventsInv'
  <1>1. CASE PublishStep
    BY <1>1, EventsStepKeeps DEF PublishStep
  <1>2. CASE PublisherDies
    BY <1>2, LoseKeeps DEF PublisherDies
  <1>3. CASE \/ ConnectStep \/ BotDies \/ ReportStep \/ ReportFault
             \/ AnnounceReady \/ SendCards \/ PushReport \/ UNCHANGED vars
    <2>1. UNCHANGED eventsOnly
      BY <1>3
      DEF ConnectStep, BotDies, ReportStep, ReportFault, AnnounceReady, SendCards,
          PushReport, vars, eventsVars, eventsOnly
    <2>2. QED
      BY <2>1, EventsStutter
  <1>4. QED
    BY <1>1, <1>2, <1>3 DEF Next

(***************************************************************************)
(* While its deduplication token lives, a notification goes out at most    *)
(* once, whatever requests overlap in publishEvent and wherever they die.  *)
(***************************************************************************)
THEOREM NotifiedOnce == Spec => []OncePerKey
  <1>1. Init => EventsInv
    BY EventsBegin DEF Init
  <1>2. EventsInv /\ [Next]_vars => EventsInv'
    BY EventsInductive
  <1>3. EventsInv => OncePerKey
    BY DEF EventsInv, TokensInv
  <1>4. QED
    BY <1>1, <1>2, <1>3, PTL DEF Spec

(***************************************************************************)
(* A tenant's notification counter gets its time to live unless the        *)
(* request dies between incr and expire in incrementNotificationCap.       *)
(***************************************************************************)
THEOREM WindowsEnd == Spec => []WindowAlwaysEnds
  <1>1. Init => EventsInv
    BY EventsBegin DEF Init
  <1>2. EventsInv /\ [Next]_vars => EventsInv'
    BY EventsInductive
  <1>3. EventsInv => WindowAlwaysEnds
    BY DEF EventsInv
  <1>4. QED
    BY <1>1, <1>2, <1>3, PTL DEF Spec

-----------------------------------------------------------------------------
\* The admissions of the running window have places of their own, up to its last.
Current(t) == (sent[t] \cup Pending(t)) \ carried[t]

CapInv ==
  /\ sent \in [Tenant -> SUBSET (Call \X Nat \X Nat)]
  /\ DOMAIN carried = Tenant
  /\ \A t \in Tenant : \A a \in Current(t) : a[3] \in 1 .. MaxPerWindow /\ a[3] <= count[t]
  /\ \A t \in Tenant : \A a, b \in Current(t) : a[3] = b[3] => a = b

LEMMA DistinctPlaces ==
  ASSUME NEW A, NEW m \in Nat, \A a \in A : a[3] \in 1 .. m,
         \A a, b \in A : a[3] = b[3] => a = b
  PROVE  Cardinality(A) <= m
  <1> DEFINE places == {a[3] : a \in A}
             holder == [p \in places |-> CHOOSE a \in A : a[3] = p]
  <1>1. IsFiniteSet(1 .. m) /\ Cardinality(1 .. m) = m
    BY FS_Interval
  <1>2. IsFiniteSet(places) /\ Cardinality(places) <= Cardinality(1 .. m)
    <2>1. places \in SUBSET (1 .. m)
      OBVIOUS
    <2> HIDE DEF places
    <2>2. QED
      BY <1>1, <2>1, FS_Subset
  <1>3. \A a \in A : a[3] \in places /\ holder[a[3]] = a
    OBVIOUS
  <1>4. holder \in [places -> A]
    OBVIOUS
  <1>5. holder \in Surjection(places, A)
    <2> HIDE DEF holder, places
    <2>1. QED
      BY <1>3, <1>4 DEF Surjection
  <1>6. IsFiniteSet(A) /\ Cardinality(A) <= Cardinality(places)
    <2> HIDE DEF holder, places
    <2>1. QED
      BY <1>2, <1>5, FS_Surjection
  <1>7. Cardinality(places) \in Nat /\ Cardinality(A) \in Nat
    BY <1>2, <1>6, FS_CardinalityType
  <1>8. QED
    <2> HIDE DEF places
    <2>1. QED
      BY <1>1, <1>2, <1>6, <1>7

LEMMA CapBounds ==
  ASSUME CapInv
  PROVE  CapHolds
  <1>1. ASSUME NEW t \in Tenant
        PROVE  Cardinality(sent[t] \ carried[t]) <= MaxPerWindow
    <2> DEFINE A == sent[t] \ carried[t]
    <2>1. A \subseteq Current(t)
      BY DEF Current
    <2>2. (\A a \in A : a[3] \in 1 .. MaxPerWindow) /\ \A a, b \in A : a[3] = b[3] => a = b
      BY <2>1 DEF CapInv
    <2>3. MaxPerWindow \in Nat
      BY EventsAssumption
    <2> HIDE DEF A
    <2>4. Cardinality(A) <= MaxPerWindow
      BY <2>2, <2>3, DistinctPlaces
    <2>5. QED
      BY <2>4 DEF A
  <1>2. QED
    BY <1>1 DEF CapHolds

\* Steps that admit nobody: who is pending or sent was before.
LEMMA NoneAdmitted ==
  ASSUME CapInv, UNCHANGED carried, sent' \in [Tenant -> SUBSET (Call \X Nat \X Nat)],
         count \in [Tenant -> Nat], count' \in [Tenant -> Nat],
         \A t \in Tenant : count[t] <= count'[t],
         \A t \in Tenant : (sent[t] \cup Pending(t))' \subseteq sent[t] \cup Pending(t)
  PROVE  CapInv'
  <1>1. \A t \in Tenant : Current(t)' \subseteq Current(t)
    BY DEF Current
  <1>2. \A t \in Tenant : \A a \in Current(t)' :
          a[3] \in 1 .. MaxPerWindow /\ a[3] <= count'[t]
    <2>1. ASSUME NEW t \in Tenant, NEW a \in Current(t)'
          PROVE  a[3] \in 1 .. MaxPerWindow /\ a[3] <= count'[t]
      <3>1. a[3] \in 1 .. MaxPerWindow /\ a[3] <= count[t]
        BY <1>1, <2>1 DEF CapInv
      <3>2. a[3] \in Int /\ count[t] <= count'[t] /\ count[t] \in Nat /\ count'[t] \in Nat
        BY <3>1
      <3>3. QED
        BY <3>1, <3>2
    <2>2. QED
      BY <2>1
  <1>3. QED
    BY <1>1, <1>2 DEF CapInv

LEMMA PendingShrinks ==
  ASSUME NEW c \in Call, \A d \in Call \ {c} : call'[d] = call[d],
         call'[c].step \in {"begin", "cap"}
  PROVE  \A t \in Tenant : Pending(t)' \subseteq Pending(t)
  <1>1. \A t \in Tenant : \A d \in Admitted(t)' :
          d \in Admitted(t) /\ Admission(d)' = Admission(d)
    BY DEF Admitted, At, To, Next1, Todo, Admission
  <1>2. QED
    BY <1>1 DEF Pending

\* A request that ends its event without having been sent, or begins one.
LEMMA DropKeepsCap ==
  ASSUME CapInv, Shape, Shape', NEW c \in Call, \A d \in Call \ {c} : call'[d] = call[d],
         call'[c].step \in {"begin", "cap"}, UNCHANGED <<carried, sent>>,
         \A t \in Tenant : count[t] <= count'[t]
  PROVE  CapInv'
  <1>1. \A t \in Tenant : (sent[t] \cup Pending(t))' \subseteq sent[t] \cup Pending(t)
    BY PendingShrinks
  <1>2. sent' \in [Tenant -> SUBSET (Call \X Nat \X Nat)]
    BY DEF CapInv
  <1>3. count \in [Tenant -> Nat] /\ count' \in [Tenant -> Nat]
    BY DEF Shape
  <1>4. QED
    BY <1>1, <1>2, <1>3, NoneAdmitted

LEMMA AdmissionType ==
  ASSUME Shape, NEW c \in Call
  PROVE  Admission(c) \in Call \X Nat \X Nat
  <1>1. Todo(c) \in Seq(Publication) /\ call[c].place \in Nat
    BY DEF Shape, Todo
  <1>2. Len(Todo(c)) \in Nat
    BY <1>1, LenProperties
  <1>3. QED
    BY <1>1, <1>2 DEF Admission

LEMMA SendKeepsCap ==
  ASSUME CapInv, Shape, Shape', NEW c \in Call, Deliver(c)
  PROVE  CapInv'
  <1>1. /\ At(c, "send") /\ Finish(c) /\ UNCHANGED <<count, carried>>
        /\ sent' = [sent EXCEPT ![To(c)] = @ \cup {Admission(c)}]
    BY DEF Deliver
  <1>2. /\ \A d \in Call \ {c} : call'[d] = call[d]
        /\ call'[c].step = "begin"
    BY <1>1, FinishFrees DEF At
  <1>3. \A t \in Tenant : Pending(t)' \subseteq Pending(t)
    BY <1>2, PendingShrinks
  <1>4. Admission(c) \in Pending(To(c))
    BY <1>1 DEF Pending, Admitted
  <1>5. Admission(c) \in Call \X Nat \X Nat
    BY AdmissionType
  <1>6. sent' \in [Tenant -> SUBSET (Call \X Nat \X Nat)]
    BY <1>1, <1>5 DEF CapInv
  <1>7. \A t \in Tenant : (sent[t] \cup Pending(t))' \subseteq sent[t] \cup Pending(t)
    BY <1>1, <1>3, <1>4 DEF CapInv
  <1>8. count \in [Tenant -> Nat] /\ count' \in [Tenant -> Nat]
        /\ \A t \in Tenant : count[t] <= count'[t]
    BY <1>1 DEF Shape
  <1>9. QED
    BY <1>1, <1>6, <1>7, <1>8, NoneAdmitted

LEMMA ExpiryKeepsCap ==
  ASSUME CapInv, Shape, Shape', NEW c \in Call, SetExpiry(c)
  PROVE  CapInv'
  <1>1. /\ At(c, "expire") /\ UNCHANGED <<count, sent, carried>>
        /\ call' = [call EXCEPT ![c].step = "send"]
    BY DEF SetExpiry, Becomes
  <1>2. \A d \in Call : call'[d].todo = call[d].todo /\ call'[d].place = call[d].place
    BY <1>1 DEF Shape
  <1>3. \A d \in Call \ {c} : call'[d].step = call[d].step
    BY <1>1 DEF Shape
  <1>4. \A d \in Call : To(d)' = To(d) /\ Admission(d)' = Admission(d)
    BY <1>2 DEF To, Next1, Todo, Admission
  <1>5. \A t \in Tenant : Pending(t)' \subseteq Pending(t)
    BY <1>1, <1>2, <1>3, <1>4 DEF Pending, Admitted, At, Todo
  <1>6. sent' \in [Tenant -> SUBSET (Call \X Nat \X Nat)]
    BY <1>1 DEF CapInv
  <1>7. \A t \in Tenant : (sent[t] \cup Pending(t))' \subseteq sent[t] \cup Pending(t)
    BY <1>1, <1>5
  <1>8. count \in [Tenant -> Nat] /\ count' \in [Tenant -> Nat]
        /\ \A t \in Tenant : count[t] <= count'[t]
    BY <1>1 DEF Shape
  <1>9. QED
    BY <1>1, <1>6, <1>7, <1>8, NoneAdmitted

LEMMA CountKeepsCap ==
  ASSUME CapInv, Shape, Shape', NEW c \in Call, IncrementCap(c)
  PROVE  CapInv'
  <1> DEFINE n == count[To(c)] + 1
  <1>1. /\ Todo(c) # <<>> /\ call[c].step = "cap" /\ UNCHANGED <<sent, carried>>
        /\ count' = [count EXCEPT ![To(c)] = n]
    BY DEF IncrementCap, Counted, At
  <1>2. To(c) \in Tenant /\ count \in [Tenant -> Nat] /\ MaxPerWindow \in Nat
    BY <1>1, KeyOfTodo, EventsAssumption DEF Shape
  <1>3. n \in Nat \ {0} /\ \A t \in Tenant : count'[t] = IF t = To(c) THEN n ELSE count[t]
    BY <1>1, <1>2
  <1>4. \A t \in Tenant : count[t] <= count'[t]
    BY <1>2, <1>3
  <1>5. CASE n > MaxPerWindow
    <2>1. Finish(c)
      BY <1>5 DEF IncrementCap, Counted
    <2>2. (\A d \in Call \ {c} : call'[d] = call[d]) /\ call'[c].step = "begin"
      BY <1>1, <2>1, FinishFrees
    <2>3. QED
      BY <1>1, <1>4, <2>2, DropKeepsCap
  <1>6. CASE ~(n > MaxPerWindow)
    <2> DEFINE step == IF n = 1 THEN "expire" ELSE "send"
               new == <<c, Len(Todo(c)), n>>
    <2>1. call' = [call EXCEPT ![c] = [todo |-> Todo(c), step |-> step, place |-> n]]
      BY <1>6 DEF IncrementCap, Counted, Todo
    <2>2. /\ \A d \in Call \ {c} : call'[d] = call[d]
          /\ call'[c].todo = call[c].todo /\ call'[c].place = n
      BY <2>1 DEF Shape, Todo
    <2>3. /\ \A d \in Call \ {c} : \A t \in Tenant :
               d \in Admitted(t)' => d \in Admitted(t) /\ Admission(d)' = Admission(d)
          /\ Admission(c)' = new /\ To(c)' = To(c)
      BY <2>2 DEF Admitted, At, To, Next1, Todo, Admission
    <2>4. \A t \in Tenant : c \in Admitted(t)' => t = To(c)
      BY <2>3 DEF Admitted
    <2>5. \A t \in Tenant : \A a \in Pending(t)' : a \in Pending(t) \/ (a = new /\ t = To(c))
      BY <2>3, <2>4 DEF Pending, Admitted
    <2>6. \A t \in Tenant : \A a \in Current(t)' : a \in Current(t) \/ (a = new /\ t = To(c))
      BY <1>1, <2>5 DEF Current
    <2>7. new[3] = n
      OBVIOUS
    <2> HIDE DEF new, n
    <2>8. \A t \in Tenant : \A a \in Current(t)' :
            a[3] \in 1 .. MaxPerWindow /\ a[3] <= count'[t]
      <3>1. ASSUME NEW t \in Tenant, NEW a \in Current(t)'
            PROVE  a[3] \in 1 .. MaxPerWindow /\ a[3] <= count'[t]
        <4>1. CASE a \in Current(t)
          BY <4>1, <1>2, <1>3, <1>4 DEF CapInv
        <4>2. CASE a = new /\ t = To(c)
          BY <4>2, <1>2, <1>3, <1>6, <2>7
        <4>3. QED
          BY <2>6, <4>1, <4>2
      <3>2. QED
        BY <3>1
    <2>9. \A a \in Current(To(c)) : a[3] # n
      <3>1. \A a \in Current(To(c)) : a[3] \in Int /\ a[3] <= count[To(c)]
        BY <1>2 DEF CapInv
      <3>2. n = count[To(c)] + 1 /\ count[To(c)] \in Nat
        BY <1>2 DEF n
      <3>3. QED
        BY <3>1, <3>2
    <2>10. \A t \in Tenant : \A a, b \in Current(t)' : a[3] = b[3] => a = b
      BY <2>6, <2>7, <2>9 DEF CapInv
    <2>11. QED
      BY <1>1, <2>8, <2>10 DEF CapInv
  <1>7. QED
    BY <1>5, <1>6

LEMMA NewWindowKeepsCap ==
  ASSUME CapInv, NEW t \in Tenant, WindowEnds(t)
  PROVE  CapInv'
  <1>1. /\ count' = [count EXCEPT ![t] = 0] /\ sent' = [sent EXCEPT ![t] = {}]
        /\ carried' = [carried EXCEPT ![t] = Pending(t)] /\ UNCHANGED call
    BY DEF WindowEnds
  <1>2. \A u \in Tenant : Pending(u)' = Pending(u)
    BY <1>1 DEF Pending, Admitted, Admission, At, To, Next1, Todo
  <1>3. sent' \in [Tenant -> SUBSET (Call \X Nat \X Nat)] /\ DOMAIN carried' = Tenant
    BY <1>1 DEF CapInv
  <1>4. Current(t)' = {}
    BY <1>1, <1>2 DEF Current, CapInv
  <1>5. \A u \in Tenant \ {t} : Current(u)' = Current(u)
    BY <1>1, <1>2 DEF Current, CapInv
  <1>6. \A u \in Tenant \ {t} : \A a \in Current(u) : a[3] <= count'[u]
    BY <1>1 DEF CapInv
  <1>7. QED
    BY <1>3, <1>4, <1>5, <1>6 DEF CapInv

LEMMA CapBegins ==
  ASSUME EventsInit
  PROVE  CapInv
  <1>1. /\ sent = [t \in Tenant |-> {}] /\ carried = [t \in Tenant |-> {}]
        /\ \A c \in Call : call[c].step = "begin"
    BY DEF EventsInit, InitialCall
  <1>2. \A t \in Tenant : Current(t) = {}
    BY <1>1 DEF Current, Pending, Admitted, At
  <1>3. QED
    BY <1>1, <1>2 DEF CapInv

LEMMA CapInductive ==
  ASSUME EventsInv, EventsInv', CapInv, [Next]_vars
  PROVE  CapInv'
  <1>1. Shape /\ Shape'
    BY DEF EventsInv, TokensInv
  <1>2. ASSUME NEW c \in Call, PublishPlain(c) \/ NotFresh(c) \/ LoseCall(c)
        PROVE  CapInv'
    <2>1. /\ UNCHANGED <<count, sent, carried>>
          /\ \/ Todo(c) # <<>> /\ Finish(c)
             \/ call' = [call EXCEPT ![c] = [todo |-> <<>>, step |-> "begin", place |-> 0]]
      BY <1>2 DEF PublishPlain, NotFresh, LoseCall, At, capVars
    <2>2. (\A d \in Call \ {c} : call'[d] = call[d]) /\ call'[c].step = "begin"
      BY <1>1, <2>1, FinishFrees
    <2>3. \A t \in Tenant : count[t] <= count'[t]
      BY <1>1, <2>1 DEF Shape
    <2>4. QED
      BY <1>1, <2>1, <2>2, <2>3, DropKeepsCap
  <1>3. ASSUME NEW c \in Call, ClaimDedupToken(c)
        PROVE  CapInv'
    <2>1. /\ UNCHANGED <<count, sent, carried>> /\ call' = [call EXCEPT ![c].step = "cap"]
      BY <1>3 DEF ClaimDedupToken, Becomes, capVars
    <2>2. (\A d \in Call \ {c} : call'[d] = call[d]) /\ call'[c].step = "cap"
      BY <1>1, <2>1 DEF Shape
    <2>3. \A t \in Tenant : count[t] <= count'[t]
      BY <1>1, <2>1 DEF Shape
    <2>4. QED
      BY <1>1, <2>1, <2>2, <2>3, DropKeepsCap
  <1>4. ASSUME UNCHANGED <<call, count, sent, carried>>
        PROVE  CapInv'
    BY <1>4 DEF CapInv, Current, Pending, Admitted, Admission, At, To, Next1, Todo
  <1>5. ASSUME NEW k \in Keys, TokenExpires(k)
        PROVE  CapInv'
    BY <1>4, <1>5 DEF TokenExpires, capVars
  <1>6. CASE PublishStep
    BY <1>1, <1>2, <1>3, <1>5, <1>6, CountKeepsCap, ExpiryKeepsCap, SendKeepsCap,
       NewWindowKeepsCap
    DEF PublishStep, EventsStep
  <1>7. CASE PublisherDies
    BY <1>2, <1>7 DEF PublisherDies
  <1>8. CASE \/ ConnectStep \/ BotDies \/ ReportStep \/ ReportFault
             \/ AnnounceReady \/ SendCards \/ PushReport \/ UNCHANGED vars
    <2>1. UNCHANGED <<call, count, sent, carried>>
      BY <1>8
      DEF ConnectStep, BotDies, ReportStep, ReportFault, AnnounceReady, SendCards,
          PushReport, vars, eventsVars, eventsOnly
    <2>2. QED
      BY <1>4, <2>1
  <1>9. QED
    BY <1>6, <1>7, <1>8 DEF Next

(***************************************************************************)
(* A tenant is sent at most MaxPerWindow notifications in a window besides *)
(* those admitted before it began: incr gives each overlapping request a   *)
(* place of its own, and those past the last are dropped.                  *)
(***************************************************************************)
THEOREM CapNeverExceeded == Spec => []CapHolds
  <1>1. Init => EventsInv /\ CapInv
    BY EventsBegin, CapBegins DEF Init
  <1>2. EventsInv /\ CapInv /\ [Next]_vars => (EventsInv /\ CapInv)'
    BY EventsInductive, CapInductive
  <1>3. CapInv => CapHolds
    BY CapBounds
  <1>4. QED
    BY <1>1, <1>2, <1>3, PTL DEF Spec

-----------------------------------------------------------------------------
BridgeInv ==
  /\ session \in [Tenant -> {"none", "live", "stale"}]
  /\ loop \in [Tenant \X Slot -> Stages]
  /\ connected \subseteq Tenant /\ known \subseteq Tenant /\ linking \subseteq Tenant
  /\ OneConnection

\* A loop that goes on, and stays a loop.
LEMMA GoesOn ==
  ASSUME BridgeInv, NEW t \in Tenant, NEW s \in Slot, loop[<<t, s>>] # "idle",
         NEW place \in Stages \ {"idle"}, Goes(t, s, place),
         UNCHANGED <<connected, known, linking>>,
         session' \in [Tenant -> {"none", "live", "stale"}]
  PROVE  BridgeInv'
  <1>1. loop' \in [Tenant \X Slot -> Stages]
    BY DEF BridgeInv, Goes
  <1>2. \A u \in Tenant : Running(u)' = Running(u)
    BY DEF BridgeInv, Goes, Running
  <1>3. OneConnection'
    BY <1>2 DEF BridgeInv, OneConnection
  <1>4. QED
    BY <1>1, <1>3 DEF BridgeInv

\* The one loop of a tenant stops, and the tenant is no longer connected.
LEMMA StopKeeps ==
  ASSUME BridgeInv, NEW t \in Tenant, NEW s \in Slot, loop[<<t, s>>] # "idle", Stops(t, s),
         UNCHANGED <<known, linking>>,
         session' \in [Tenant -> {"none", "live", "stale"}]
  PROVE  BridgeInv'
  <1>1. loop' = [loop EXCEPT ![<<t, s>>] = "idle"] /\ connected' = connected \ {t}
    BY DEF Stops, Goes
  <1>2. loop' \in [Tenant \X Slot -> Stages]
    BY <1>1 DEF BridgeInv, Stages
  <1>3. s \in Running(t)
    BY DEF Running
  <1>4. Running(t) = {s}
    BY <1>3 DEF BridgeInv, OneConnection
  <1>5. Running(t)' = {}
    BY <1>1, <1>4 DEF BridgeInv, Running
  <1>6. \A u \in Tenant \ {t} : Running(u)' = Running(u)
    BY <1>1 DEF BridgeInv, Running
  <1>7. OneConnection'
    BY <1>1, <1>5, <1>6 DEF BridgeInv, OneConnection
  <1>8. QED
    BY <1>1, <1>2, <1>7 DEF BridgeInv

\* A loop is started for the tenants that have none.
LEMMA SpawnKeeps ==
  ASSUME BridgeInv, NEW tenants \in SUBSET Tenant, Spawn(tenants), UNCHANGED session,
         known' \subseteq Tenant, linking' \subseteq Tenant
  PROVE  BridgeInv'
  <1> DEFINE fresh == {t \in tenants : t \notin connected}
             free(t) == CHOOSE s \in Slot \ Running(t) : TRUE
  <1>1. /\ \A t \in fresh : Running(t) # Slot
        /\ connected' = connected \cup fresh
        /\ loop' = [x \in Tenant \X Slot |->
                      IF x[1] \in fresh /\ x[2] = free(x[1]) THEN "look" ELSE loop[x]]
    BY DEF Spawn
  <1>2. \A t \in fresh : t \in Tenant /\ t \notin connected /\ Running(t) = {}
    BY DEF BridgeInv, OneConnection
  <1>3. \A t \in fresh : free(t) \in Slot
    BY <1>1, <1>2
  <1> HIDE DEF fresh, free
  <1>4. loop' \in [Tenant \X Slot -> Stages]
    BY <1>1 DEF BridgeInv, Stages
  <1>5. \A t \in Tenant, s \in Slot :
          loop'[<<t, s>>] = IF t \in fresh /\ s = free(t) THEN "look" ELSE loop[<<t, s>>]
    BY <1>1
  <1>6. \A t \in fresh : Running(t)' = {free(t)}
    BY <1>2, <1>3, <1>5 DEF Running
  <1>7. \A t \in Tenant \ fresh : Running(t)' = Running(t)
    BY <1>5 DEF Running
  <1>8. OneConnection'
    <2>1. ASSUME NEW t \in Tenant
          PROVE  IF t \in connected' THEN \E s \in Slot : Running(t)' = {s} ELSE Running(t)' = {}
      <3>1. CASE t \in fresh
        BY <1>1, <1>3, <1>6, <3>1
      <3>2. CASE t \notin fresh
        BY <1>1, <1>7, <3>2 DEF BridgeInv, OneConnection
      <3>3. QED
        BY <3>1, <3>2
    <2>2. QED
      BY <2>1 DEF OneConnection
  <1>9. connected' \subseteq Tenant
    BY <1>1, <1>2 DEF BridgeInv
  <1>10. QED
    BY <1>4, <1>8, <1>9 DEF BridgeInv

LEMMA BridgeUnmoved ==
  ASSUME BridgeInv, UNCHANGED <<connected, loop>>,
         session' \in [Tenant -> {"none", "live", "stale"}],
         known' \subseteq Tenant, linking' \subseteq Tenant
  PROVE  BridgeInv'
  BY DEF BridgeInv, OneConnection, Running

LEMMA LoopKeeps ==
  ASSUME BridgeInv, NEW t \in Tenant, NEW s \in Slot, LoopStep(t, s) \/ StreamEnds(t, s)
  PROVE  BridgeInv'
  <1>1. session \in [Tenant -> {"none", "live", "stale"}]
    BY DEF BridgeInv
  <1>2. CASE CheckSession(t, s)
    <2>1. loop[<<t, s>>] # "idle" /\ UNCHANGED <<session, known, linking>>
      BY <1>2 DEF CheckSession, In
    <2>2. CASE session[t] = "none"
      BY <1>1, <1>2, <2>1, <2>2, StopKeeps DEF CheckSession
    <2>3. CASE session[t] # "none"
      <3>1. AfterLook(t) \in Stages \ {"idle"}
        BY <1>1, <2>3 DEF AfterLook, Stages
      <3>2. QED
        BY <1>1, <1>2, <2>1, <2>3, <3>1, GoesOn DEF CheckSession
    <2>4. QED
      BY <2>2, <2>3
  <1>3. CASE ClearSession(t, s)
    BY <1>1, <1>3, StopKeeps DEF ClearSession, In
  <1>4. CASE Refresh(t, s) \/ Fetch(t, s) \/ Renew(t, s) \/ Subscribe(t, s)
             \/ Backoff(t, s) \/ StreamEnds(t, s)
    <2>1. loop[<<t, s>>] # "idle" /\ UNCHANGED <<connected, known, linking>>
      BY <1>4 DEF Refresh, Fetch, Renew, Subscribe, Backoff, StreamEnds, In
    <2>2. session' \in [Tenant -> {"none", "live", "stale"}]
      BY <1>1, <1>4 DEF Refresh, Fetch, Renew, Subscribe, Backoff, StreamEnds
    <2>3. \E place \in Stages \ {"idle"} : Goes(t, s, place)
      BY <1>4 DEF Refresh, Fetch, Renew, Subscribe, Backoff, StreamEnds, Stages
    <2>4. QED
      BY <2>1, <2>2, <2>3, GoesOn
  <1>5. QED
    BY <1>2, <1>3, <1>4 DEF LoopStep

LEMMA ConnectKeeps ==
  ASSUME BridgeInv, ConnectStep
  PROVE  BridgeInv'
  <1>1. /\ session \in [Tenant -> {"none", "live", "stale"}]
        /\ known \subseteq Tenant /\ linking \subseteq Tenant
    BY DEF BridgeInv
  <1>2. CASE StartBridge
    BY <1>1, <1>2, BridgeUnmoved DEF StartBridge, loopVars
  <1>3. CASE ReadKnown
    BY <1>1, <1>3, SpawnKeeps DEF ReadKnown
  <1>4. ASSUME NEW t \in Tenant, StoreSession(t) \/ SessionAges(t)
        PROVE  BridgeInv'
    <2>1. /\ UNCHANGED <<connected, loop, known>> /\ linking' \subseteq Tenant
          /\ session' \in [Tenant -> {"none", "live", "stale"}]
      BY <1>1, <1>4 DEF StoreSession, SessionAges, loopVars
    <2>2. QED
      BY <1>1, <2>1, BridgeUnmoved
  <1>5. ASSUME NEW t \in Tenant, RegisterTenant(t)
        PROVE  BridgeInv'
    <2>1. /\ known' \subseteq Tenant /\ linking' \subseteq Tenant /\ UNCHANGED session
          /\ UNCHANGED <<connected, loop>> \/ Spawn({t})
      BY <1>1, <1>5 DEF RegisterTenant, loopVars
    <2>2. QED
      BY <1>1, <2>1, BridgeUnmoved, SpawnKeeps
  <1>6. QED
    BY <1>2, <1>3, <1>4, <1>5, LoopKeeps DEF ConnectStep, BridgeStep

LEMMA BridgeInductive ==
  ASSUME BridgeInv, [Next]_vars
  PROVE  BridgeInv'
  <1>1. CASE ConnectStep
    BY <1>1, ConnectKeeps
  <1>2. CASE BotDies
    <2>1. /\ connected' = {} /\ linking' = {} /\ UNCHANGED <<known, session>>
          /\ loop' = [x \in Tenant \X Slot |-> "idle"]
      BY <1>2 DEF BotDies, BotCrash
    <2>2. \A t \in Tenant : Running(t)' = {}
      BY <2>1 DEF Running
    <2>3. QED
      BY <2>1, <2>2 DEF BridgeInv, OneConnection, Stages
  <1>3. CASE \/ PublishStep \/ PublisherDies \/ ReportStep \/ ReportFault
             \/ AnnounceReady \/ SendCards \/ PushReport \/ UNCHANGED vars
    <2>1. UNCHANGED bridgeVars
      BY <1>3
      DEF PublishStep, PublisherDies, ReportStep, ReportFault, AnnounceReady, SendCards,
          PushReport, vars
    <2>2. QED
      BY <2>1, BridgeUnmoved DEF bridgeVars, BridgeInv
  <1>4. QED
    BY <1>1, <1>2, <1>3 DEF Next

LEMMA BridgeBegins ==
  ASSUME BridgeInit
  PROVE  BridgeInv
  <1>1. \A t \in Tenant : Running(t) = {}
    BY DEF BridgeInit, Running
  <1>2. QED
    BY <1>1 DEF BridgeInit, BridgeInv, OneConnection, Stages

(***************************************************************************)
(* The bot never has two loops for a tenant, and its set of connected      *)
(* tenants names exactly those that have one, through links, starts,       *)
(* crashes and lost sessions in any order: startSseBridge and              *)
(* registerTenant test the set and add to it without an await between.     *)
(***************************************************************************)
THEOREM OneLoopPerTenant == Spec => []OneConnection
  <1>1. Init => BridgeInv
    BY BridgeBegins DEF Init
  <1>2. BridgeInv /\ [Next]_vars => BridgeInv'
    BY BridgeInductive
  <1>3. BridgeInv => OneConnection
    BY DEF BridgeInv
  <1>4. QED
    BY <1>1, <1>2, <1>3, PTL DEF Spec

\* A tenant loses its place among the connected only when its session is gone, or
\* the whole process.
LEMMA ForgottenByNobody ==
  ASSUME BridgeInv, NobodyForgotten, BridgeStep
  PROVE  NobodyForgotten'
  <1>1. SUFFICES ASSUME stage' = "on", NEW t \in known', session'[t] # "none"
                 PROVE  t \in connected' \cup linking'
    BY DEF NobodyForgotten
  <1>2. \A u \in Tenant, s \in Slot : loop[<<u, s>>] # "idle" => u \in connected
    BY DEF BridgeInv, OneConnection, Running
  <1>3. CASE StartBridge
    BY <1>1, <1>3 DEF StartBridge
  <1>4. CASE ReadKnown
    BY <1>1, <1>4 DEF ReadKnown, Spawn
  <1>5. ASSUME NEW u \in Tenant, StoreSession(u) \/ SessionAges(u)
        PROVE  t \in connected' \cup linking'
    <2>1. UNCHANGED <<stage, known, connected>> /\ linking \subseteq linking'
      BY <1>5 DEF StoreSession, SessionAges, loopVars
    <2>2. CASE session[t] # "none"
      BY <1>1, <2>1, <2>2 DEF NobodyForgotten
    <2>3. CASE session[t] = "none"
      BY <1>1, <1>5, <2>1, <2>3 DEF StoreSession, SessionAges, BridgeInv
    <2>4. QED
      BY <2>2, <2>3
  <1>6. ASSUME NEW u \in Tenant, RegisterTenant(u)
        PROVE  t \in connected' \cup linking'
    <2>1. /\ UNCHANGED <<stage, session>> /\ linking' = linking \ {u}
          /\ known' = known \cup {u} /\ Spawn({u})
      BY <1>1, <1>6 DEF RegisterTenant
    <2>2. connected' = connected \cup {u}
      BY <2>1 DEF Spawn
    <2>3. QED
      BY <1>1, <2>1, <2>2 DEF NobodyForgotten
  <1>7. ASSUME NEW u \in Tenant, NEW s \in Slot, LoopStep(u, s) \/ StreamEnds(u, s)
        PROVE  t \in connected' \cup linking'
    <2>1. /\ UNCHANGED <<stage, known, linking>>
          /\ loop[<<u, s>>] # "idle" /\ u \in connected
          /\ \A v \in Tenant : v # u => session'[v] = session[v]
      <3>1. UNCHANGED <<stage, known, linking>> /\ loop[<<u, s>>] # "idle"
        BY <1>7
        DEF LoopStep, CheckSession, Refresh, ClearSession, Fetch, Renew, Subscribe, Backoff,
            StreamEnds, In
      <3>2. \A v \in Tenant : v # u => session'[v] = session[v]
        BY <1>7
        DEF LoopStep, CheckSession, Refresh, ClearSession, Fetch, Renew, Subscribe, Backoff,
            StreamEnds, BridgeInv
      <3>3. QED
        BY <1>2, <3>1, <3>2
    <2>2. \/ connected' = connected
          \/ connected' = connected \ {u} /\ session'[u] = "none"
      <3>1. CASE CheckSession(u, s)
        <4>1. session' = session
          BY <3>1 DEF CheckSession
        <4>2. \/ UNCHANGED connected
              \/ session[u] = "none" /\ Stops(u, s)
          BY <3>1 DEF CheckSession
        <4>3. QED
          BY <4>1, <4>2 DEF Stops
      <3>2. CASE ClearSession(u, s)
        <4>1. session'[u] = "none" /\ Stops(u, s)
          BY <3>2 DEF ClearSession, BridgeInv
        <4>2. QED
          BY <4>1 DEF Stops
      <3>3. CASE \/ Refresh(u, s) \/ Fetch(u, s) \/ Renew(u, s) \/ Subscribe(u, s)
                 \/ Backoff(u, s) \/ StreamEnds(u, s)
        <4>1. UNCHANGED connected
          BY <3>3 DEF Refresh, Fetch, Renew, Subscribe, Backoff, StreamEnds
        <4>2. QED
          BY <4>1
      <3>4. QED
        BY <1>7, <3>1, <3>2, <3>3 DEF LoopStep
    <2>3. CASE t = u
      BY <1>1, <2>1, <2>2, <2>3
    <2>4. CASE t # u
      BY <1>1, <2>1, <2>2, <2>4 DEF NobodyForgotten, BridgeInv
    <2>5. QED
      BY <2>3, <2>4
  <1>8. QED
    BY <1>3, <1>4, <1>5, <1>6, <1>7 DEF BridgeStep

(***************************************************************************)
(* Once the bot is up, every registered tenant with a session has a loop,  *)
(* or a link that will start one: no order of links, starts, refreshes     *)
(* that fail and crashes leaves a tenant to which nothing can come back.   *)
(***************************************************************************)
THEOREM NobodyIsForgotten == Spec => []NobodyForgotten
  <1>1. Init => BridgeInv /\ NobodyForgotten
    BY BridgeBegins DEF Init, BridgeInit, NobodyForgotten
  <1>2. BridgeInv /\ NobodyForgotten /\ [Next]_vars => BridgeInv' /\ NobodyForgotten'
    <2>1. SUFFICES ASSUME BridgeInv, NobodyForgotten, [Next]_vars
                   PROVE  NobodyForgotten'
      BY BridgeInductive
    <2>2. CASE ConnectStep
      BY <2>1, <2>2, ForgottenByNobody DEF ConnectStep
    <2>3. CASE BotDies
      <3>1. stage' = "off"
        BY <2>3 DEF BotDies, BotCrash
      <3>2. QED
        BY <3>1 DEF NobodyForgotten
    <2>4. CASE \/ PublishStep \/ PublisherDies \/ ReportStep \/ ReportFault
               \/ AnnounceReady \/ SendCards \/ PushReport \/ UNCHANGED vars
      <3>1. UNCHANGED bridgeVars
        BY <2>4
        DEF PublishStep, PublisherDies, ReportStep, ReportFault, AnnounceReady, SendCards,
            PushReport, vars
      <3>2. QED
        BY <2>1, <3>1 DEF bridgeVars, NobodyForgotten
    <2>5. QED
      BY <2>1, <2>2, <2>3, <2>4 DEF Next
  <1>3. QED
    BY <1>1, <1>2, PTL DEF Spec

-----------------------------------------------------------------------------
(***************************************************************************)
(* The pages of a table. What is drawn after i rows has them in order; the *)
(* next row's place follows from how many the last page has.               *)
(***************************************************************************)
Drawn == [pages : Seq(Seq(Nat)) \ {<<>>}, at : Int]

Blank == [pages |-> <<(<<>>)>>, at |-> FirstRowAt]

Numbers(n) == [i \in 1 .. n |-> i]

TopOf(p) == IF p = 1 THEN FirstRowAt ELSE NextRowAt

OnPages(pages, at, i) ==
  /\ FlattenSeq(pages) = Numbers(i)
  /\ at = TopOf(Len(pages)) - 17 * Len(pages[Len(pages)])
  /\ Len(pages[1]) <= 22
  /\ \A p \in 2 .. Len(pages) : Len(pages[p]) \in 1 .. 24

InPlace(d, i) == OnPages(d.pages, d.at, i)

LEMMA Points ==
  /\ FirstRowAt = 466 /\ NextRowAt = 488 /\ RowHeight = 17 /\ ContentBottom = 80
  /\ (FirstRowAt - ContentBottom) \div RowHeight = 22
  /\ (NextRowAt - ContentBottom) \div RowHeight = 24
  <1>1. FirstRowAt = 466 /\ NextRowAt = 488 /\ RowHeight = 17 /\ ContentBottom = 80
    BY DEF FirstRowAt, NextRowAt, RowHeight, ContentBottom, ContentTop
  <1>2. 386 \div 17 = 22 /\ 408 \div 17 = 24
    OBVIOUS
  <1>3. QED
    BY <1>1, <1>2

\* The pages, and the same with one row more on the last.
WithRow(pages, r) == [pages EXCEPT ![Len(pages)] = Append(@, r)]

LEMMA RowOnLastPage ==
  ASSUME NEW pages \in Seq(Seq(Nat)), pages # <<>>, NEW r \in Nat
  PROVE  /\ Len(pages) \in Nat \ {0}
         /\ pages[Len(pages)] \in Seq(Nat)
         /\ WithRow(pages, r) \in Seq(Seq(Nat))
         /\ Len(WithRow(pages, r)) = Len(pages)
         /\ Len(WithRow(pages, r)[Len(pages)]) = Len(pages[Len(pages)]) + 1
         /\ \A p \in 1 .. Len(pages) : p # Len(pages) => WithRow(pages, r)[p] = pages[p]
         /\ FlattenSeq(WithRow(pages, r)) = Append(FlattenSeq(pages), r)
  <1> DEFINE n == Len(pages)
             longer == WithRow(pages, r)
  <1>1. PICK front \in Seq(Seq(Nat)), last \in Seq(Nat) : pages = Append(front, last)
    BY SequenceEmptyOrAppend
  <1>2. Append(last, r) \in Seq(Nat) /\ Len(Append(last, r)) = Len(last) + 1
    OBVIOUS
  <1>3. n = Len(front) + 1 /\ n \in Nat \ {0} /\ pages[n] = last
    BY <1>1
  <1>4. /\ longer \in Seq(Seq(Nat)) /\ Len(longer) = n
        /\ \A p \in 1 .. n : longer[p] = IF p = n THEN Append(last, r) ELSE pages[p]
    BY <1>2, <1>3 DEF WithRow
  <1> HIDE DEF n, longer
  <1> DEFINE other == Append(front, Append(last, r))
  <1>5. /\ other \in Seq(Seq(Nat)) /\ Len(other) = n
        /\ \A p \in 1 .. n : other[p] = IF p = n THEN Append(last, r) ELSE pages[p]
    BY <1>1, <1>2, <1>3
  <1>6. longer = other
    <2> HIDE DEF other
    <2>1. QED
      BY <1>4, <1>5, SeqEqual
  <1>7. /\ FlattenSeq(front) \in Seq(Nat)
        /\ FlattenSeq(pages) = FlattenSeq(front) \o last
        /\ FlattenSeq(longer) = FlattenSeq(front) \o Append(last, r)
    BY <1>1, <1>2, <1>6, FlattenAppend
  <1>8. FlattenSeq(front) \o Append(last, r) = Append(FlattenSeq(front) \o last, r)
    <2>1. Append(last, r) = last \o <<r>>
      BY AppendIsConcat
    <2>2. FlattenSeq(front) \o last \in Seq(Nat) /\ <<r>> \in Seq(Nat)
      BY <1>7, ConcatProperties
    <2>3. Append(FlattenSeq(front) \o last, r) = (FlattenSeq(front) \o last) \o <<r>>
      BY <2>2, AppendIsConcat
    <2>4. QED
      BY <1>7, <2>1, <2>2, <2>3, ConcatAssociative
  <1>9. FlattenSeq(longer) = Append(FlattenSeq(pages), r)
    BY <1>7, <1>8
  <1>10. /\ n \in Nat \ {0} /\ pages[n] \in Seq(Nat)
         /\ longer \in Seq(Seq(Nat)) /\ Len(longer) = n
         /\ Len(longer[n]) = Len(pages[n]) + 1
         /\ \A p \in 1 .. n : p # n => longer[p] = pages[p]
    <2>1. n \in 1 .. n
      BY <1>3
    <2>2. QED
      BY <1>2, <1>3, <1>4, <2>1
  <1>11. QED
    BY <1>9, <1>10 DEF n, longer

LEMMA NumbersGrow ==
  ASSUME NEW i \in Nat
  PROVE  Numbers(i) \in Seq(Nat) /\ Append(Numbers(i), i + 1) = Numbers(i + 1)
  <1>1. Numbers(i) \in Seq(Nat) /\ Len(Numbers(i)) = i
    BY DEF Numbers
  <1>2. QED
    BY <1>1 DEF Numbers

LEMMA DrawRowType ==
  ASSUME NEW d \in Drawn, NEW r \in Nat
  PROVE  DrawRow(d, r) \in Drawn
  <1>1. PICK pages \in Seq(Seq(Nat)) \ {<<>>}, at \in Int : pages = d.pages /\ at = d.at
    BY DEF Drawn
  <1>2. /\ WithRow(pages, r) \in Seq(Seq(Nat)) /\ Len(WithRow(pages, r)) # 0
        /\ at - 17 \in Int
    BY RowOnLastPage
  <1>3. WithRow(pages, r) # <<>>
    BY <1>2
  <1>4. [pages |-> WithRow(pages, r), at |-> at - 17] \in Drawn
    BY <1>2, <1>3 DEF Drawn
  <1>5. <<r>> \in Seq(Nat)
    OBVIOUS
  <1>6. Append(pages, <<r>>) \in Seq(Seq(Nat)) /\ Append(pages, <<r>>) # <<>>
    BY <1>5, AppendProperties
  <1>7. [pages |-> Append(pages, <<r>>), at |-> 488 - 17] \in Drawn
    BY <1>6 DEF Drawn
  <1>8. QED
    BY <1>1, <1>4, <1>7, Points DEF DrawRow, WithRow

LEMMA DrawRowKeeps ==
  ASSUME NEW d \in Drawn, NEW i \in Nat, InPlace(d, i)
  PROVE  DrawRow(d, i + 1) \in Drawn /\ InPlace(DrawRow(d, i + 1), i + 1)
  <1>1. PICK pages \in Seq(Seq(Nat)) \ {<<>>}, at \in Int : pages = d.pages /\ at = d.at
    BY DEF Drawn
  <1>2. PICK n : n = Len(pages)
    OBVIOUS
  <1>3. PICK filled : filled = Len(pages[n])
    OBVIOUS
  <1>4. n \in Nat \ {0} /\ filled \in Nat /\ 1 \in 1 .. n
    BY <1>2, <1>3, RowOnLastPage
  <1>5. OnPages(pages, at, i)
    BY <1>1 DEF InPlace
  <1>6. FlattenSeq(pages) = Numbers(i)
    BY <1>5 DEF OnPages
  <1>7. at = TopOf(n) - 17 * filled
    BY <1>5, <1>2, <1>3 DEF OnPages
  <1>8. Len(pages[1]) <= 22 /\ \A p \in 2 .. n : Len(pages[p]) \in 1 .. 24
    BY <1>5, <1>2 DEF OnPages
  <1>9. TopOf(n) = IF n = 1 THEN 466 ELSE 488
    BY Points DEF TopOf
  <1>10. CASE at - 17 < 80
    <2>1. PICK more : more = Append(pages, <<i + 1>>)
      OBVIOUS
    <2>2. DrawRow(d, i + 1) = [pages |-> more, at |-> 488 - 17]
      BY <1>1, <1>10, <2>1, Points DEF DrawRow
    <2>3. <<i + 1>> \in Seq(Nat) /\ Len(<<i + 1>>) = 1
      OBVIOUS
    <2>4. /\ more \in Seq(Seq(Nat)) /\ more # <<>>
          /\ Len(more) = n + 1 /\ more[n + 1] = <<i + 1>>
          /\ \A p \in 1 .. n : more[p] = pages[p]
      <3>1. pages \in Seq(Seq(Nat))
        OBVIOUS
      <3>2. PICK page \in Seq(Nat) : page = <<i + 1>>
        BY <2>3
      <3>3. /\ Append(pages, page) \in Seq(Seq(Nat))
            /\ Len(Append(pages, page)) = Len(pages) + 1
            /\ \A p \in 1 .. Len(pages) : Append(pages, page)[p] = pages[p]
            /\ Append(pages, page)[Len(pages) + 1] = page
        <4>1. PICK T : T = Seq(Nat)
          OBVIOUS
        <4>2. pages \in Seq(T) /\ page \in T
          BY <3>1, <4>1
        <4>3. /\ Append(pages, page) \in Seq(T)
              /\ Len(Append(pages, page)) = Len(pages) + 1
              /\ \A p \in 1 .. Len(pages) : Append(pages, page)[p] = pages[p]
              /\ Append(pages, page)[Len(pages) + 1] = page
          BY <4>2
        <4>4. QED
          BY <4>1, <4>3
      <3>4. Len(more) = n + 1 /\ more # <<>>
        BY <1>2, <1>4, <2>1, <3>2, <3>3
      <3>5. QED
        BY <1>2, <2>1, <3>2, <3>3, <3>4
    <2>5. Len(more) = n + 1 /\ Len(more[n + 1]) = 1
      BY <2>3, <2>4
    <2>6. \A p \in 1 .. n : Len(more[p]) = Len(pages[p])
      BY <2>4
    <2>7. FlattenSeq(more) = Numbers(i + 1)
      <3>1. FlattenSeq(more) = Numbers(i) \o <<i + 1>>
        BY <1>6, <2>1, <2>3, FlattenAppend
      <3>2. i + 1 \in Nat /\ Numbers(i) \in Seq(Nat)
        BY NumbersGrow
      <3>3. Append(Numbers(i), i + 1) = Numbers(i) \o <<i + 1>>
        BY <3>2, AppendIsConcat
      <3>4. QED
        BY <3>1, <3>3, NumbersGrow
    <2>8. TopOf(n + 1) = 488
      BY <1>4, Points DEF TopOf
    <2>9. Len(more[1]) <= 22
      BY <1>4, <1>8, <2>6
    <2>10. \A p \in 2 .. n + 1 : Len(more[p]) \in 1 .. 24
      <3>1. SUFFICES ASSUME NEW p \in 2 .. n + 1
                     PROVE  Len(more[p]) \in 1 .. 24
        OBVIOUS
      <3>2. CASE p = n + 1
        BY <2>5, <3>2
      <3>3. CASE p # n + 1
        <4>1. p \in 2 .. n /\ p \in 1 .. n
          BY <1>4, <3>3
        <4>2. QED
          BY <1>8, <2>6, <4>1
      <3>4. QED
        BY <3>2, <3>3
    <2>11. OnPages(more, 488 - 17, i + 1)
      <3>1. 488 - 17 = TopOf(n + 1) - 17 * Len(more[n + 1])
        BY <2>5, <2>8
      <3>2. QED
        BY <2>5, <2>7, <2>9, <2>10, <3>1 DEF OnPages
    <2>12. QED
      BY <2>2, <2>4, <2>11 DEF Drawn, InPlace
  <1>11. CASE ~ (at - 17 < 80)
    <2>1. PICK longer : longer = WithRow(pages, i + 1)
      OBVIOUS
    <2>2. DrawRow(d, i + 1) = [pages |-> longer, at |-> at - 17]
      BY <1>1, <1>11, <2>1, Points DEF DrawRow, WithRow
    <2>3. /\ longer \in Seq(Seq(Nat))
          /\ \A p \in 1 .. n : p # n => longer[p] = pages[p]
          /\ FlattenSeq(longer) = Append(Numbers(i), i + 1)
      BY <1>2, <1>6, <2>1, RowOnLastPage
    <2>4. Len(longer) = n /\ Len(longer[n]) = filled + 1
      BY <1>2, <1>3, <2>1, RowOnLastPage
    <2>5. \A p \in 1 .. n : p # n => Len(longer[p]) = Len(pages[p])
      BY <2>3
    <2>6. FlattenSeq(longer) = Numbers(i + 1)
      BY <2>3, NumbersGrow
    <2>7. (n = 1 => filled + 1 <= 22) /\ (n # 1 => filled + 1 <= 24)
      BY <1>4, <1>7, <1>9, <1>11
    <2>8. Len(longer[1]) <= 22
      BY <1>4, <1>8, <2>4, <2>5, <2>7
    <2>9. \A p \in 2 .. n : Len(longer[p]) \in 1 .. 24
      <3>1. SUFFICES ASSUME NEW p \in 2 .. n
                     PROVE  Len(longer[p]) \in 1 .. 24
        OBVIOUS
      <3>2. CASE p = n
        <4>1. Len(longer[p]) = filled + 1 /\ n # 1
          BY <2>4, <3>2
        <4>2. QED
          BY <1>4, <2>7, <4>1
      <3>3. CASE p # n
        <4>1. p \in 1 .. n
          OBVIOUS
        <4>2. QED
          BY <1>8, <2>5, <3>3, <4>1
      <3>4. QED
        BY <3>2, <3>3
    <2>10. OnPages(longer, at - 17, i + 1)
      <3>1. at - 17 = TopOf(n) - 17 * Len(longer[n])
        BY <1>4, <1>7, <1>9, <2>4
      <3>2. QED
        BY <2>4, <2>6, <2>8, <2>9, <3>1 DEF OnPages
    <2>11. longer # <<>>
      BY <1>4, <2>4
    <2>12. QED
      BY <2>2, <2>3, <2>10, <2>11 DEF Drawn, InPlace
  <1>12. QED
    BY <1>10, <1>11

\* A row at a time: the pages before the first row and after each.
LEMMA DrawRuns ==
  ASSUME NEW n \in Nat
  PROVE  \E run : /\ run[0] = Blank
                  /\ \A i \in 1 .. n : run[i] = DrawRow(run[i - 1], i)
                  /\ \A i \in 0 .. n : run[i] \in Drawn
                  /\ DrawTable(n) = run[n].pages
  <1> DEFINE rows == [i \in 1 .. n |-> i]
             k == [a \in Drawn \X (1 .. n) |-> DrawRow(a[1], a[2])]
             RunsOn(it) == it = [S \in SUBSET DOMAIN rows |->
                                 IF S = {} THEN Blank
                                 ELSE DrawRow(it[S \ {Max(S)}], rows[Max(S)])]
             jt == CHOOSE it : RunsOn(it)
  <1>1. DOMAIN rows = 1 .. n /\ \A i \in 1 .. n : rows[i] = i
    OBVIOUS
  <1>2. Blank \in Drawn
    BY Points DEF Blank, Drawn
  <1>3. \A v \in Drawn, i \in 1 .. n : k[<<v, i>>] = DrawRow(v, i)
    OBVIOUS
  <1>4. StepsWithin(k, n, Drawn)
    <2>1. ASSUME NEW v \in Drawn, NEW i \in 1 .. n PROVE DrawRow(v, i) \in Drawn
      BY DrawRowType
    <2>2. QED
      BY <1>3, <2>1 DEF StepsWithin
  <1>5. DrawTable(n) = jt[1 .. n].pages
    BY <1>1 DEF DrawTable, Blank, FoldLeft, MapThenFoldSet
  <1> HIDE DEF k, jt, RunsOn, rows
  <1>6. \A S \in SUBSET (1 .. n) : S # {} => Max(S) \in 1 .. n
    <2>1. SUFFICES ASSUME NEW S \in SUBSET (1 .. n), S # {} PROVE Max(S) \in S
      OBVIOUS
    <2>2. IsFiniteSet(S)
      <3>1. IsFiniteSet(1 .. n)
        BY FS_Interval
      <3>2. QED
        BY <3>1, FS_Subset
    <2>3. S \in SUBSET Int
      OBVIOUS
    <2>4. QED
      BY <2>1, <2>2, <2>3, MaxOfFinite
  <1>7. \E it : RunsOn(it)
    <2>1. PICK it \in [SUBSET (1 .. n) -> Drawn] : Folds(it, n, k, Blank)
      BY <1>2, <1>4, FoldExists
    <2>2. \A S \in SUBSET (1 .. n) : S # {} =>
            k[<<it[S \ {Max(S)}], Max(S)>>] = DrawRow(it[S \ {Max(S)}], rows[Max(S)])
      BY <1>1, <1>3, <1>6
    <2>3. it = [S \in SUBSET DOMAIN rows |->
                  IF S = {} THEN Blank
                  ELSE DrawRow(it[S \ {Max(S)}], rows[Max(S)])]
      BY <1>1, <2>1, <2>2 DEF Folds
    <2>4. QED
      BY <2>3 DEF RunsOn
  <1>8. RunsOn(jt)
    BY <1>7 DEF jt
  <1>9. FoldsWithin(jt, n, k, Blank, Drawn)
    <2>1. jt[{}] = Blank
      BY <1>8 DEF RunsOn
    <2>2. SUFFICES ASSUME NEW S \in SUBSET (1 .. n), S # {},
                          jt[S \ {Max(S)}] \in Drawn
                   PROVE  jt[S] = k[<<jt[S \ {Max(S)}], Max(S)>>]
      BY <2>1 DEF FoldsWithin
    <2>3. jt[S] = DrawRow(jt[S \ {Max(S)}], rows[Max(S)])
      BY <1>1, <1>8, <2>2 DEF RunsOn
    <2>4. QED
      BY <1>1, <1>3, <1>6, <2>2, <2>3
  <1>10. /\ \A i \in 0 .. n : jt[1 .. i] \in Drawn
         /\ jt[1 .. 0] = Blank
         /\ \A i \in 1 .. n : jt[1 .. i] = k[<<jt[1 .. (i - 1)], i>>]
    BY <1>2, <1>4, <1>9, FoldGoesOn
  <1> DEFINE run == [i \in 0 .. n |-> jt[1 .. i]]
  <1>11. \A i \in 0 .. n : run[i] = jt[1 .. i]
    OBVIOUS
  <1>12. 0 \in 0 .. n /\ n \in 0 .. n /\ \A i \in 1 .. n : i \in 0 .. n /\ i - 1 \in 0 .. n
    OBVIOUS
  <1> HIDE DEF run
  <1>13. \A i \in 1 .. n : run[i] = DrawRow(run[i - 1], i)
    BY <1>3, <1>10, <1>11, <1>12
  <1>14. QED
    BY <1>5, <1>10, <1>11, <1>12, <1>13

(***************************************************************************)
(* A table of any length is drawn whole: every row once, in order, and no  *)
(* page with more rows than it has room for.                               *)
(***************************************************************************)
LEMMA TableIsWhole ==
  ASSUME NEW n \in Nat
  PROVE  /\ DrawTable(n) \in Seq(Seq(Nat)) \ {<<>>}
         /\ \E at : OnPages(DrawTable(n), at, n)
  <1>1. PICK run : /\ run[0] = Blank
                   /\ \A i \in 1 .. n : run[i] = DrawRow(run[i - 1], i)
                   /\ \A i \in 0 .. n : run[i] \in Drawn
                   /\ DrawTable(n) = run[n].pages
    BY DrawRuns
  <1> DEFINE N == {i \in Nat : i <= n => InPlace(run[i], i)}
  <1>2. 0 \in N
    <2>1. FlattenSeq(<<(<<>>)>>) = Numbers(0)
      <3>1. FlattenSeq(<<(<<>>)>>) = <<>>
        <4>1. <<>> \in Seq(Seq(Nat)) /\ <<>> \in Seq(Nat)
          OBVIOUS
        <4>2. FlattenSeq(Append(<<>>, <<>>)) = FlattenSeq(<<>>) \o <<>>
          BY <4>1, FlattenAppend
        <4>3. Append(<<>>, <<>>) = <<(<<>>)>> /\ <<>> \o <<>> = <<>>
          OBVIOUS
        <4>4. QED
          BY <4>2, <4>3, FlattenEmpty
      <3>2. Numbers(0) = <<>>
        BY DEF Numbers
      <3>3. QED
        BY <3>1, <3>2
    <2>2. TopOf(1) = 466
      BY Points DEF TopOf
    <2>3. OnPages(<<(<<>>)>>, 466, 0)
      BY <2>1, <2>2 DEF OnPages
    <2>4. QED
      BY <1>1, <2>3, Points DEF InPlace, Blank
  <1>3. ASSUME NEW i \in N PROVE i + 1 \in N
    <2>1. SUFFICES ASSUME i + 1 <= n PROVE InPlace(run[i + 1], i + 1)
      OBVIOUS
    <2>2. i \in Nat /\ i \in 0 .. n /\ i + 1 \in 1 .. n /\ (i + 1) - 1 = i
      BY <2>1
    <2>3. InPlace(run[i], i)
      BY <2>2
    <2> HIDE DEF N
    <2>4. QED
      BY <1>1, <2>2, <2>3, DrawRowKeeps
  <1>4. N = Nat
    <2>1. N \in SUBSET Nat
      OBVIOUS
    <2> HIDE DEF N
    <2>2. QED
      BY <1>2, <1>3, <2>1, NatSetInduction
  <1>5. InPlace(run[n], n)
    BY <1>4
  <1>6. QED
    BY <1>1, <1>5 DEF InPlace, Drawn

LEMMA RenderedIsWhole ==
  ASSUME NEW n \in Nat
  PROVE  RenderReportPdf(n) # <<>> /\ ShowsEveryRow(RenderReportPdf(n), n)
  <1>1. PICK table, at : /\ table = DrawTable(n)
                         /\ table \in Seq(Seq(Nat)) \ {<<>>}
                         /\ OnPages(table, at, n)
    BY TableIsWhole
  <1>2. PICK front : front = <<(<<>>), (<<>>)>>
    OBVIOUS
  <1>3. front \in Seq(Seq(Nat)) /\ Len(front) = 2 /\ \A i \in 1 .. 2 : front[i] = <<>>
    BY <1>2
  <1>4. PICK pages : pages = front \o table
    OBVIOUS
  <1>5. RenderReportPdf(n) = pages
    BY <1>1, <1>2, <1>4 DEF RenderReportPdf
  <1>6. /\ Len(pages) = 2 + Len(table) /\ Len(table) \in Nat
        /\ \A p \in 1 .. 2 + Len(table) :
             pages[p] = IF p <= 2 THEN front[p] ELSE table[p - 2]
    <2>1. PICK T : T = Seq(Nat)
      OBVIOUS
    <2>2. table \in Seq(T) /\ front \in Seq(T)
      BY <1>1, <1>3, <2>1
    <2>3. Len(table) \in Nat
      BY <2>2
    <2>4. /\ Len(front \o table) = Len(front) + Len(table)
          /\ \A p \in 1 .. Len(front) + Len(table) :
               (front \o table)[p] = IF p <= Len(front) THEN front[p] ELSE table[p - Len(front)]
      BY <2>2
    <2>5. QED
      BY <1>3, <1>4, <2>3, <2>4
  <1>7. FlattenSeq(pages) = Numbers(n)
    <2>1. FlattenSeq(pages) = FlattenSeq(table)
      BY <1>1, <1>3, <1>4, FlattenAfterEmpty
    <2>2. QED
      BY <1>1, <2>1 DEF OnPages
  <1>8. Len(table) # 0
    BY <1>1
  <1>9. \A p \in 4 .. Len(pages) : Len(pages[p]) \in 1 .. 24
    <2>1. SUFFICES ASSUME NEW p \in 4 .. Len(pages) PROVE Len(pages[p]) \in 1 .. 24
      OBVIOUS
    <2>2. p \in 1 .. 2 + Len(table) /\ ~ (p <= 2) /\ p - 2 \in 2 .. Len(table)
      BY <1>6
    <2>3. pages[p] = table[p - 2]
      BY <1>6, <2>2
    <2>4. Len(table[p - 2]) \in 1 .. 24
      BY <1>1, <2>2 DEF OnPages
    <2>5. QED
      BY <2>3, <2>4
  <1>10. Len(pages[3]) <= 22
    <2>1. 3 \in 1 .. 2 + Len(table) /\ 3 - 2 = 1
      BY <1>6, <1>8
    <2>2. pages[3] = table[1]
      BY <1>6, <2>1
    <2>3. QED
      BY <1>1, <2>2 DEF OnPages
  <1>11. pages # <<>>
    BY <1>6
  <1>12. QED
    BY <1>5, <1>7, <1>9, <1>10, <1>11, Points DEF ShowsEveryRow, Numbers

-----------------------------------------------------------------------------
(***************************************************************************)
(* Reports on their way to the chat. An announcement is for a report whose *)
(* job is done, whose worker has left it and whose file has not gone out.  *)
(***************************************************************************)
ReportDomains ==
  /\ DOMAIN asking = Report /\ DOMAIN row = Report /\ DOMAIN artifact = Report
  /\ DOMAIN job = Report /\ DOMAIN worker = Report /\ DOMAIN documents = Report

ReportOK(r) ==
  /\ row[r] = "succeeded" \/ worker[r] = "mark" => artifact[r] = rendered[r]
  /\ worker[r] = "announce" => job[r] = "done"
  /\ worker[r] \in {"load", "build", "write", "mark", "complete"} => job[r] = "active"
  /\ worker[r] \in WorkerSteps
  /\ asking[r] \in {"no", "inserted"} => job[r] = "none"
  /\ asking[r] \in {"no", "inserted", "answered", "over"}
  /\ asking[r] = "no" => row[r] = "none"
  /\ asking[r] = "answered" => job[r] # "none"
  /\ job[r] \in {"none", "waiting", "active", "done", "failed"}
  /\ job[r] = "active" => worker[r] # "idle"
  /\ worker[r] = "complete" \/ job[r] = "done" => row[r] \in {"succeeded", "failed"}
  /\ documents[r] # <<>> =>
       documents[r] = <<rendered[r]>> /\ job[r] = "done" /\ worker[r] = "idle"

\* Reports that may be announced and not read yet.
Awaited == {r \in Report : documents[r] = <<>> /\ job[r] = "done" /\ worker[r] = "idle"}

IsReady(event) == event.name = "report.ready"

\* A tenant's frames, while the reports in waiting may be among them: each at
\* most once, and on the stream of the tenant that asks.
Orderly(t, s, waiting) ==
  \A i \in 1 .. Len(s) : IsReady(s[i]) =>
    /\ t = asker /\ s[i].entity \in waiting
    /\ \A j \in 1 .. Len(s) : IsReady(s[j]) /\ s[j].entity = s[i].entity => i = j

\* What the streams carry: the requests' events, and the announcements.
Frame == Event \cup {Ready(r) : r \in Report}

FramesOK ==
  /\ frames \in [Tenant -> Seq(Frame)]
  /\ \A t \in Tenant : Orderly(t, frames[t], Awaited)

\* What requests still have to publish.
PlainTodo == \A c \in Call : \A i \in 1 .. Len(Todo(c)) : ~IsReady(Todo(c)[i].event)

ReportsInv ==
  /\ wanted \subseteq Report /\ ReportDomains
  /\ \A r \in Report : ReportOK(r)
  /\ FramesOK /\ PlainTodo

LEMMA OrderlyPlain ==
  ASSUME NEW t, NEW s \in Seq(Frame), NEW w, Orderly(t, s, w),
         NEW e \in Frame, ~IsReady(e)
  PROVE  Append(s, e) \in Seq(Frame) /\ Orderly(t, Append(s, e), w)
  <1>1. PICK more : more = Append(s, e)
    OBVIOUS
  <1>2. /\ more \in Seq(Frame) /\ Len(more) = Len(s) + 1 /\ Len(s) \in Nat
        /\ more[Len(s) + 1] = e /\ \A i \in 1 .. Len(s) : more[i] = s[i]
    BY <1>1
  <1>3. \A i \in 1 .. Len(more) : IsReady(more[i]) => i \in 1 .. Len(s) /\ more[i] = s[i]
    BY <1>2
  <1>4. QED
    BY <1>1, <1>2, <1>3 DEF Orderly

LEMMA OrderlyReady ==
  ASSUME NEW s \in Seq(Frame), NEW w, NEW w2, Orderly(asker, s, w), w \subseteq w2,
         NEW e \in Frame, e.entity \in w2 \ w
  PROVE  Append(s, e) \in Seq(Frame) /\ Orderly(asker, Append(s, e), w2)
  <1>1. PICK more : more = Append(s, e)
    OBVIOUS
  <1>2. /\ more \in Seq(Frame) /\ Len(more) = Len(s) + 1 /\ Len(s) \in Nat
        /\ more[Len(s) + 1] = e /\ \A i \in 1 .. Len(s) : more[i] = s[i]
    BY <1>1
  <1>3. ASSUME NEW i \in 1 .. Len(more), IsReady(more[i])
        PROVE  /\ more[i].entity \in w2
               /\ \A j \in 1 .. Len(more) :
                    IsReady(more[j]) /\ more[j].entity = more[i].entity => i = j
    <2>1. CASE i \in 1 .. Len(s)
      <3>1. s[i].entity \in w /\ more[i] = s[i]
        BY <1>2, <1>3, <2>1 DEF Orderly
      <3>2. \A j \in 1 .. Len(more) : more[j].entity = more[i].entity => j \in 1 .. Len(s)
        BY <1>2, <3>1
      <3>3. QED
        BY <1>2, <1>3, <2>1, <3>1, <3>2 DEF Orderly
    <2>2. CASE i = Len(s) + 1
      <3>1. more[i] = e
        BY <1>2, <2>2
      <3>2. \A j \in 1 .. Len(s) : IsReady(more[j]) => more[j].entity \in w
        BY <1>2 DEF Orderly
      <3>3. \A j \in 1 .. Len(more) : j # i => j \in 1 .. Len(s)
        BY <1>2, <2>2
      <3>4. QED
        BY <3>1, <3>2, <3>3
    <2>3. QED
      BY <1>2, <2>1, <2>2
  <1>4. QED
    BY <1>1, <1>2, <1>3 DEF Orderly

LEMMA OrderlyTail ==
  ASSUME NEW t, NEW s \in Seq(Frame), s # <<>>, NEW w, NEW w2, Orderly(t, s, w),
         \A e \in w \ w2 : IsReady(Head(s)) /\ e = Head(s).entity
  PROVE  Tail(s) \in Seq(Frame) /\ Orderly(t, Tail(s), w2)
  <1>1. PICK rest : rest = Tail(s)
    OBVIOUS
  <1>2. /\ rest \in Seq(Frame) /\ Len(rest) = Len(s) - 1 /\ Len(s) \in Nat /\ Len(s) # 0
        /\ Head(s) = s[1] /\ \A i \in 1 .. Len(rest) : rest[i] = s[i + 1]
    BY <1>1
  <1>3. ASSUME NEW i \in 1 .. Len(rest), IsReady(rest[i])
        PROVE  /\ t = asker /\ rest[i].entity \in w2
               /\ \A j \in 1 .. Len(rest) :
                    IsReady(rest[j]) /\ rest[j].entity = rest[i].entity => i = j
    <2>1. i + 1 \in 1 .. Len(s) /\ 1 \in 1 .. Len(s) /\ i + 1 # 1
      BY <1>2
    <2>2. /\ t = asker /\ s[i + 1].entity \in w
          /\ \A j \in 1 .. Len(s) :
               IsReady(s[j]) /\ s[j].entity = s[i + 1].entity => i + 1 = j
      BY <1>2, <1>3, <2>1 DEF Orderly
    <2>3. rest[i].entity \in w2
      BY <1>2, <2>1, <2>2
    <2>4. ASSUME NEW j \in 1 .. Len(rest), IsReady(rest[j]), rest[j].entity = rest[i].entity
          PROVE  i = j
      <3>1. j + 1 \in 1 .. Len(s)
        BY <1>2
      <3>2. rest[j] = s[j + 1] /\ rest[i] = s[i + 1]
        BY <1>2
      <3>3. i + 1 = j + 1
        BY <2>2, <2>4, <3>1, <3>2
      <3>4. QED
        BY <3>3
    <2>5. QED
      BY <2>2, <2>3, <2>4
  <1>4. QED
    BY <1>1, <1>2, <1>3 DEF Orderly

\* Where nothing is announced, it does not matter what is awaited.
LEMMA OrderlyElsewhere ==
  ASSUME NEW t, t # asker, NEW s, NEW w, NEW w2, Orderly(t, s, w)
  PROVE  Orderly(t, s, w2)
  BY DEF Orderly

LEMMA OrderlyMore ==
  ASSUME NEW t, NEW s, NEW w, NEW w2, Orderly(t, s, w), w \subseteq w2
  PROVE  Orderly(t, s, w2)
  BY DEF Orderly

LEMMA OrderlyEmpty ==
  ASSUME NEW t, NEW w
  PROVE  Orderly(t, <<>>, w)
  BY DEF Orderly

\* Requests publish what they had to publish, or less of it.
LEMMA TodoShrinks ==
  ASSUME Shape, EventsStep \/ \E c \in Call : LoseCall(c), NEW d \in Call
  PROVE  \/ Todo(d)' = Todo(d)
         \/ Todo(d) # <<>> /\ Todo(d)' = Tail(Todo(d))
         \/ Todo(d)' = <<>>
  <1>1. DOMAIN call = Call /\ call[d] = call[d]
    BY DEF Shape
  <1>2. ASSUME NEW c \in Call, Finish(c), Todo(c) # <<>>
        PROVE  Todo(d)' = Todo(d) \/ (Todo(d) # <<>> /\ Todo(d)' = Tail(Todo(d)))
    <2>1. call'[d] = IF d = c THEN [todo |-> Tail(call[c].todo), step |-> "begin", place |-> 0]
                     ELSE call[d]
      BY <1>1, <1>2 DEF Finish
    <2>2. call'[d].todo = IF d = c THEN Tail(call[c].todo) ELSE call[d].todo
      BY <2>1
    <2>3. CASE d = c
      <3>1. call'[d].todo = Tail(call[d].todo) /\ call[d].todo # <<>>
        BY <1>2, <2>2, <2>3 DEF Todo
      <3>2. QED
        BY <3>1 DEF Todo
    <2>4. CASE d # c
      <3>1. call'[d].todo = call[d].todo
        BY <2>2, <2>4
      <3>2. QED
        BY <3>1 DEF Todo
    <2>5. QED
      BY <2>3, <2>4
  <1>3. ASSUME NEW c \in Call, NEW step, Becomes(c, step)
        PROVE  Todo(d)' = Todo(d)
    <2>1. call \in [Call -> [todo : Seq(Publication), step : Steps, place : Nat]]
      BY DEF Shape
    <2>2. call'[d].todo = call[d].todo
      BY <1>3, <2>1 DEF Becomes
    <2>3. QED
      BY <2>2 DEF Todo
  <1>4. ASSUME NEW c \in Call, IncrementCap(c)
        PROVE  Todo(d)' = Todo(d) \/ (Todo(d) # <<>> /\ Todo(d)' = Tail(Todo(d)))
    <2>1. CASE Finish(c)
      BY <1>2, <1>4, <2>1 DEF IncrementCap, Counted, At
    <2>2. CASE \E next, n : call' = [call EXCEPT ![c] = [todo |-> @.todo, step |-> next, place |-> n]]
      <3>1. PICK next, n : call' = [call EXCEPT ![c] = [todo |-> @.todo, step |-> next, place |-> n]]
        BY <2>2
      <3>2. call'[d] = IF d = c THEN [todo |-> call[c].todo, step |-> next, place |-> n] ELSE call[d]
        BY <1>1, <3>1
      <3>3. call'[d].todo = call[d].todo
        <4>1. CASE d = c
          BY <3>2, <4>1
        <4>2. CASE d # c
          BY <3>2, <4>2
        <4>3. QED
          BY <4>1, <4>2
      <3>4. Todo(d)' = Todo(d)
        BY <3>3 DEF Todo
      <3>5. QED
        BY <3>4
    <2>3. QED
      BY <1>4, <2>1, <2>2 DEF IncrementCap, Counted
  <1>5. ASSUME NEW c \in Call, LoseCall(c)
        PROVE  Todo(d)' = Todo(d) \/ Todo(d)' = <<>>
    BY <1>1, <1>5 DEF LoseCall, Todo
  <1>6. CASE (\E k \in Keys : TokenExpires(k)) \/ \E t \in Tenant : WindowEnds(t)
    BY <1>6 DEF TokenExpires, WindowEnds, Todo
  <1>7. CASE \E c \in Call : PublishPlain(c) \/ NotFresh(c) \/ Deliver(c)
    BY <1>2, <1>7 DEF PublishPlain, NotFresh, Deliver, At
  <1>8. CASE \E c \in Call : ClaimDedupToken(c) \/ SetExpiry(c)
    BY <1>3, <1>8 DEF ClaimDedupToken, SetExpiry
  <1>9. QED
    BY <1>4, <1>5, <1>6, <1>7, <1>8 DEF EventsStep

LEMMA PublishKeepsPlain ==
  ASSUME Shape, PlainTodo, EventsStep \/ \E c \in Call : LoseCall(c)
  PROVE  PlainTodo'
  <1>1. SUFFICES ASSUME NEW d \in Call, NEW i \in 1 .. Len(Todo(d)')
                 PROVE  ~IsReady(Todo(d)'[i].event)
    BY DEF PlainTodo
  <1>2. PICK old, new : old = Todo(d) /\ new = Todo(d)'
    OBVIOUS
  <1>3. old \in Seq(Publication) /\ \A j \in 1 .. Len(old) : ~IsReady(old[j].event)
    BY <1>2 DEF Shape, PlainTodo, Todo
  <1>4. new = old \/ (old # <<>> /\ new = Tail(old)) \/ new = <<>>
    BY <1>2, TodoShrinks
  <1>5. i \in 1 .. Len(new)
    BY <1>1, <1>2
  <1>6. CASE old # <<>> /\ new = Tail(old)
    <2>1. i + 1 \in 1 .. Len(old) /\ new[i] = old[i + 1]
      BY <1>3, <1>5, <1>6
    <2>2. QED
      BY <1>2, <1>3, <2>1
  <1>7. CASE new = <<>>
    BY <1>5, <1>7
  <1>8. QED
    BY <1>2, <1>3, <1>4, <1>5, <1>6, <1>7

\* What a request publishes next.
LEMMA PlainNext ==
  ASSUME Shape, PlainTodo, NEW c \in Call, Todo(c) # <<>>
  PROVE  To(c) \in Tenant /\ Next1(c).event \in Frame /\ ~IsReady(Next1(c).event)
  <1>1. PICK s \in Seq(Publication) : s = Todo(c)
    BY DEF Shape, Todo
  <1>2. 1 \in 1 .. Len(s) /\ Head(s) = s[1] /\ s[1] \in Publication
    BY <1>1
  <1>3. QED
    BY <1>1, <1>2 DEF To, Next1, PlainTodo, Publication, Frame

\* A frame of a request, or none.
LEMMA PlainFrames ==
  ASSUME FramesOK, NEW t \in Tenant, NEW e \in Frame, ~IsReady(e), Publish(t, e),
         Awaited' = Awaited
  PROVE  FramesOK'
  <1>1. CASE t \in open
    <2>1. \A u \in Tenant : frames'[u] = IF u = t THEN Append(frames[t], e) ELSE frames[u]
      BY <1>1 DEF Publish, FramesOK
    <2>2. frames[t] \in Seq(Frame) /\ Orderly(t, frames[t], Awaited)
      BY DEF FramesOK
    <2>3. Append(frames[t], e) \in Seq(Frame) /\ Orderly(t, Append(frames[t], e), Awaited)
      BY <2>2, OrderlyPlain
    <2>4. frames' \in [Tenant -> Seq(Frame)]
      BY <1>1, <2>3 DEF Publish, FramesOK
    <2>5. ASSUME NEW u \in Tenant PROVE Orderly(u, frames'[u], Awaited)
      BY <2>1, <2>3 DEF FramesOK
    <2>6. QED
      BY <2>4, <2>5 DEF FramesOK
  <1>2. CASE t \notin open
    BY <1>2 DEF Publish, FramesOK
  <1>3. QED
    BY <1>1, <1>2

LEMMA PublishKeepsReports ==
  ASSUME ReportsInv, Shape, PublishStep \/ PublisherDies
  PROVE  ReportsInv'
  <1>1. UNCHANGED <<reportsVars, wanted>>
    BY DEF PublishStep, PublisherDies, given
  <1>2. UNCHANGED <<asking, row, artifact, job, worker, documents, wanted>>
    BY <1>1 DEF reportsVars
  <1>3. ReportDomains' /\ \A r \in Report : ReportOK(r)'
    BY <1>2 DEF ReportsInv, ReportDomains, ReportOK
  <1>4. EventsStep \/ \E c \in Call : LoseCall(c)
    BY DEF PublishStep, PublisherDies
  <1>5. PlainTodo'
    BY <1>4, PublishKeepsPlain DEF ReportsInv
  <1>6. Awaited' = Awaited
    BY <1>2 DEF Awaited
  <1>7. FramesOK'
    <2>1. CASE \E c \in Call : PublishPlain(c) \/ Deliver(c)
      <3>1. PICK c \in Call : PublishPlain(c) \/ Deliver(c)
        BY <2>1
      <3>2. Todo(c) # <<>> /\ Publish(To(c), Next1(c).event)
        BY <3>1 DEF PublishPlain, Deliver, At
      <3>3. To(c) \in Tenant /\ Next1(c).event \in Frame /\ ~IsReady(Next1(c).event)
        BY <3>2, PlainNext DEF ReportsInv
      <3>4. QED
        BY <1>6, <3>2, <3>3, PlainFrames DEF ReportsInv
    <2>2. CASE UNCHANGED frames
      BY <1>6, <2>2 DEF ReportsInv, FramesOK
    <2>3. QED
      BY <1>4, <2>1, <2>2
      DEF EventsStep, ClaimDedupToken, NotFresh, IncrementCap, Counted, SetExpiry,
          LoseCall, TokenExpires, WindowEnds, channelVars
  <1>8. QED
    BY <1>2, <1>3, <1>5, <1>7 DEF ReportsInv

\* The bot's side of the streams: nothing is added to them.
LEMMA ConnectFrames ==
  ASSUME ConnectStep \/ BotDies, frames \in [Tenant -> Seq(Frame)]
  PROVE  /\ frames' \in [Tenant -> Seq(Frame)]
         /\ \A t \in Tenant : frames'[t] = frames[t] \/ frames'[t] = <<>>
  <1>1. CASE UNCHANGED frames
    BY <1>1
  <1>2. CASE \E ts : CloseStreams(ts)
    BY <1>2 DEF CloseStreams
  <1>3. UNCHANGED frames \/ \E ts : CloseStreams(ts)
    <2>1. CASE BotDies
      BY <2>1 DEF BotDies, BotCrash
    <2>2. CASE ConnectStep
      BY <2>2
      DEF ConnectStep, BridgeStep, StartBridge, ReadKnown, StoreSession, RegisterTenant,
          SessionAges, LoopStep, CheckSession, Refresh, ClearSession, Fetch, Renew,
          Subscribe, Backoff, StreamEnds, OpenStream, channelVars
    <2>3. QED
      BY <2>1, <2>2
  <1>4. QED
    BY <1>1, <1>2, <1>3

LEMMA ConnectKeepsReports ==
  ASSUME ReportsInv, ConnectStep \/ BotDies
  PROVE  ReportsInv'
  <1>1. UNCHANGED <<row, artifact, job, worker, documents, wanted, call>>
    BY DEF ConnectStep, BotDies, given, reportsVars, jobVars, eventsOnly
  <1>2. DOMAIN asking' = Report
    BY DEF ConnectStep, BotDies, reportsVars, ReportsInv, ReportDomains
  <1>3. \A r \in Report : asking'[r] = asking[r] \/ asking'[r] = "over"
    BY DEF ConnectStep, BotDies, reportsVars
  <1>4. ReportDomains' /\ \A r \in Report : ReportOK(r)'
    BY <1>1, <1>2, <1>3 DEF ReportsInv, ReportDomains, ReportOK
  <1>5. PlainTodo'
    BY <1>1 DEF ReportsInv, PlainTodo, Todo
  <1>6. Awaited' = Awaited
    BY <1>1 DEF Awaited
  <1>7. FramesOK'
    BY <1>6, ConnectFrames, OrderlyEmpty DEF ReportsInv, FramesOK
  <1>8. QED
    BY <1>1, <1>4, <1>5, <1>7 DEF ReportsInv

\* A report's own steps: what is awaited stays so.
LEMMA ReportStepKeeps ==
  ASSUME ReportsInv, ReportStep \/ ReportFault
  PROVE  ReportsInv'
  <1>1. UNCHANGED <<wanted, call, frames>>
    BY DEF ReportStep, ReportFault, given, eventsVars
  <1>2. PICK r \in Report :
          \/ RequestStep(r) \/ WorkerStep(r)
          \/ ChatRecordExpires(r) \/ BuildThrows(r) \/ WriteFails(r)
          \/ LoseRequest(r) \/ WorkerCrash(r)
    BY DEF ReportStep, ReportFault, ReportsInv
  <1>3. ReportDomains /\ ReportOK(r) /\ \A q \in Report : ReportOK(q)
    BY DEF ReportsInv
  <1>4. ReportDomains'
    BY <1>2, <1>3
    DEF ReportDomains, RequestStep, InsertReport, ScheduleReportRender, RecordReportChat,
        WorkerStep, TakeJob, StartRender, Build, WriteArtifact, MarkSucceeded, CompleteJob,
        ChatRecordExpires, BuildThrows, WriteFails, LoseRequest, WorkerCrash, Works,
        UpdateReportStatus, jobVars
  <1>5. documents' = documents
    BY <1>2
    DEF RequestStep, InsertReport, ScheduleReportRender, RecordReportChat,
        WorkerStep, TakeJob, StartRender, Build, WriteArtifact, MarkSucceeded, CompleteJob,
        ChatRecordExpires, BuildThrows, WriteFails, LoseRequest, WorkerCrash
  <1>6. \A q \in Report : q # r =>
          /\ asking'[q] = asking[q] /\ row'[q] = row[q] /\ artifact'[q] = artifact[q]
          /\ job'[q] = job[q] /\ worker'[q] = worker[q]
    BY <1>2, <1>3
    DEF ReportDomains, RequestStep, InsertReport, ScheduleReportRender, RecordReportChat,
        WorkerStep, TakeJob, StartRender, Build, WriteArtifact, MarkSucceeded, CompleteJob,
        ChatRecordExpires, BuildThrows, WriteFails, LoseRequest, WorkerCrash, Works,
        UpdateReportStatus, jobVars
  <1>7. /\ ReportOK(r)'
        /\ job[r] = "done" /\ worker[r] = "idle" => job'[r] = "done" /\ worker'[r] = "idle"
    <2> USE <1>3, <1>5 DEF ReportDomains, ReportOK, Works, UpdateReportStatus, jobVars, WorkerSteps
    <2>1. CASE InsertReport(r)
      BY <2>1 DEF InsertReport
    <2>2. CASE ScheduleReportRender(r)
      BY <2>2 DEF ScheduleReportRender
    <2>3. CASE RecordReportChat(r) \/ LoseRequest(r) \/ ChatRecordExpires(r)
      BY <2>3 DEF RecordReportChat, LoseRequest, ChatRecordExpires
    <2>4. CASE TakeJob(r)
      BY <2>4 DEF TakeJob
    <2>5. CASE StartRender(r) \/ Build(r) \/ BuildThrows(r)
      BY <2>5 DEF StartRender, Build, BuildThrows
    <2>6. CASE WriteArtifact(r)
      BY <2>6 DEF WriteArtifact
    <2>7. CASE WriteFails(r) \/ MarkSucceeded(r)
      BY <2>7 DEF WriteFails, MarkSucceeded
    <2>8. CASE CompleteJob(r)
      BY <2>8 DEF CompleteJob
    <2>9. CASE WorkerCrash(r)
      BY <2>9 DEF WorkerCrash
    <2>10. QED
      BY <1>2, <2>1, <2>2, <2>3, <2>4, <2>5, <2>6, <2>7, <2>8, <2>9
      DEF RequestStep, WorkerStep
  <1>8. \A q \in Report : ReportOK(q)'
    BY <1>3, <1>5, <1>6, <1>7 DEF ReportOK
  <1>9. Awaited \subseteq Awaited'
    BY <1>5, <1>6, <1>7 DEF Awaited
  <1>10. FramesOK'
    BY <1>1, <1>9, OrderlyMore DEF ReportsInv, FramesOK
  <1>11. PlainTodo'
    BY <1>1 DEF ReportsInv, PlainTodo, Todo
  <1>12. QED
    BY <1>1, <1>4, <1>8, <1>10, <1>11 DEF ReportsInv

LEMMA AnnounceKeepsReports ==
  ASSUME ReportsInv, AnnounceReady
  PROVE  ReportsInv'
  <1>1. PICK r \in Report : Announce(r) /\ Publish(asker, Ready(r))
    BY DEF AnnounceReady, ReportsInv
  <1>2. UNCHANGED <<wanted, call>>
    BY DEF AnnounceReady, given, eventsOnly
  <1>3. /\ UNCHANGED <<asking, row, artifact, job, documents>>
        /\ worker[r] = "announce" /\ worker' = [worker EXCEPT ![r] = "idle"]
    BY <1>1 DEF Announce, Works
  <1>4. ReportDomains /\ \A q \in Report : ReportOK(q)
    BY DEF ReportsInv
  <1>5. ReportDomains' /\ \A q \in Report : ReportOK(q)'
    BY <1>3, <1>4 DEF ReportDomains, ReportOK, WorkerSteps
  <1>6. Awaited \subseteq Awaited' /\ r \in Awaited' \ Awaited
    BY <1>3, <1>4 DEF Awaited, ReportDomains, ReportOK
  <1>7. FramesOK'
    <2>1. asker \in Tenant /\ r \in Entity
      BY DeliveryAssumption
    <2>2. Ready(r) \in Frame /\ Ready(r).entity = r
      BY DEF Ready, Frame
    <2>3. CASE asker \in open
      <3>1. \A u \in Tenant :
              frames'[u] = IF u = asker THEN Append(frames[asker], Ready(r)) ELSE frames[u]
        BY <1>1, <2>3 DEF Publish, ReportsInv, FramesOK
      <3>2. frames[asker] \in Seq(Frame) /\ Orderly(asker, frames[asker], Awaited)
        BY <2>1 DEF ReportsInv, FramesOK
      <3>3. /\ Append(frames[asker], Ready(r)) \in Seq(Frame)
            /\ Orderly(asker, Append(frames[asker], Ready(r)), Awaited')
        BY <1>6, <2>2, <3>2, OrderlyReady
      <3>4. frames' \in [Tenant -> Seq(Frame)]
        BY <1>1, <2>3, <3>3 DEF Publish, ReportsInv, FramesOK
      <3>5. ASSUME NEW u \in Tenant PROVE Orderly(u, frames'[u], Awaited')
        BY <1>6, <3>1, <3>3, OrderlyMore DEF ReportsInv, FramesOK
      <3>6. QED
        BY <3>4, <3>5 DEF FramesOK
    <2>4. CASE asker \notin open
      BY <1>1, <1>6, <2>4, OrderlyMore DEF Publish, ReportsInv, FramesOK
    <2>5. QED
      BY <2>3, <2>4
  <1>8. PlainTodo'
    BY <1>2 DEF ReportsInv, PlainTodo, Todo
  <1>9. QED
    BY <1>2, <1>5, <1>7, <1>8 DEF ReportsInv

\* A frame is read: a report that is sent is awaited no longer.
LEMMA ReadKeepsReports ==
  ASSUME ReportsInv, SendCards \/ PushReport
  PROVE  ReportsInv'
  <1>1. PICK t \in Tenant :
          /\ Reading(t) /\ ReadFrame(t)
          /\ \/ UNCHANGED reportsVars
             \/ IsReady(Head(frames[t])) /\ SendReport(Head(frames[t]).entity)
    BY DEF SendCards, PushReport, IsReady
  <1>2. UNCHANGED <<wanted, call>>
    BY DEF SendCards, PushReport, given, eventsOnly
  <1>3. PICK s \in Seq(Frame) : s = frames[t] /\ s # <<>> /\ Orderly(t, s, Awaited)
    BY <1>1 DEF Reading, ReportsInv, FramesOK
  <1>4. \A u \in Tenant : frames'[u] = IF u = t THEN Tail(s) ELSE frames[u]
    BY <1>1, <1>3 DEF ReadFrame, ReportsInv, FramesOK
  <1>5. ReportDomains /\ \A q \in Report : ReportOK(q)
    BY DEF ReportsInv
  <1>6. UNCHANGED <<asking, row, artifact, job, worker>>
    BY <1>1 DEF SendReport, reportsVars, jobVars
  <1>7. CASE UNCHANGED documents
    <2>1. Awaited' = Awaited
      BY <1>6, <1>7 DEF Awaited
    <2>2. Tail(s) \in Seq(Frame) /\ Orderly(t, Tail(s), Awaited)
      BY <1>3, OrderlyTail
    <2>3. frames' \in [Tenant -> Seq(Frame)]
      BY <1>1, <1>3, <2>2 DEF ReadFrame, ReportsInv, FramesOK
    <2>4. FramesOK'
      BY <1>4, <2>1, <2>2, <2>3 DEF ReportsInv, FramesOK
    <2>5. ReportDomains' /\ \A q \in Report : ReportOK(q)'
      BY <1>5, <1>6, <1>7 DEF ReportDomains, ReportOK
    <2>6. QED
      BY <1>2, <2>4, <2>5 DEF ReportsInv, PlainTodo, Todo
  <1>8. CASE ~UNCHANGED documents
    <2>1. PICK e : e = Head(s).entity
      OBVIOUS
    <2>2. /\ IsReady(Head(s)) /\ row[e] = "succeeded"
          /\ documents' = [documents EXCEPT ![e] = Append(@, artifact[e])]
      BY <1>1, <1>3, <1>8, <2>1 DEF SendReport, reportsVars
    <2>3. 1 \in 1 .. Len(s) /\ Head(s) = s[1]
      BY <1>3
    <2>4. t = asker /\ e \in Awaited
      BY <1>3, <2>1, <2>2, <2>3 DEF Orderly
    <2>5. e \in Report /\ documents[e] = <<>> /\ job[e] = "done" /\ worker[e] = "idle"
      BY <2>4 DEF Awaited
    <2>6. documents'[e] = <<rendered[e]>>
      <3>1. artifact[e] = rendered[e]
        BY <1>5, <2>2, <2>5 DEF ReportOK
      <3>2. documents'[e] = Append(<<>>, artifact[e])
        BY <1>5, <2>2, <2>5 DEF ReportDomains
      <3>3. QED
        BY <3>1, <3>2
    <2>7. DOMAIN documents' = Report /\ \A q \in Report : q # e => documents'[q] = documents[q]
      BY <1>5, <2>2 DEF ReportDomains
    <2>8. ReportDomains' /\ \A q \in Report : ReportOK(q)'
      <3>1. ReportDomains'
        BY <1>5, <1>6, <2>7 DEF ReportDomains
      <3>2. ASSUME NEW q \in Report, q # e PROVE ReportOK(q)'
        BY <1>5, <1>6, <2>7, <3>2 DEF ReportOK
      <3>3. ReportOK(e)'
        <4>1. ReportOK(e) /\ rendered' = rendered
          BY <1>5, <2>5 DEF rendered
        <4>2. QED
          BY <1>6, <2>5, <2>6, <4>1 DEF ReportOK
      <3>4. QED
        BY <3>1, <3>2, <3>3
    <2>9. \A q \in Awaited \ Awaited' : IsReady(Head(s)) /\ q = Head(s).entity
      BY <1>6, <2>1, <2>2, <2>7 DEF Awaited
    <2>10. Tail(s) \in Seq(Frame) /\ Orderly(t, Tail(s), Awaited')
      BY <1>3, <2>9, OrderlyTail
    <2>11. frames' \in [Tenant -> Seq(Frame)]
      BY <1>1, <1>3, <2>10 DEF ReadFrame, ReportsInv, FramesOK
    <2>12. ASSUME NEW u \in Tenant PROVE Orderly(u, frames'[u], Awaited')
      <3>1. CASE u = t
        BY <1>4, <2>10, <3>1
      <3>2. CASE u # t
        BY <1>4, <2>4, <3>2, OrderlyElsewhere DEF ReportsInv, FramesOK
      <3>3. QED
        BY <3>1, <3>2
    <2>13. QED
      BY <1>2, <2>8, <2>11, <2>12 DEF ReportsInv, FramesOK, PlainTodo, Todo
  <1>9. QED
    BY <1>7, <1>8

LEMMA ReportsInductive ==
  ASSUME ReportsInv, Shape, [Next]_vars
  PROVE  ReportsInv'
  <1>1. CASE UNCHANGED vars
    <2>1. UNCHANGED <<asking, row, artifact, job, worker, documents, wanted, frames, call>>
      BY <1>1 DEF vars, reportsVars, eventsVars, given
    <2>2. Awaited' = Awaited
      BY <2>1 DEF Awaited
    <2>3. QED
      BY <2>1, <2>2
      DEF ReportsInv, ReportDomains, ReportOK, FramesOK, PlainTodo, Todo
  <1>2. QED
    BY <1>1, PublishKeepsReports, ConnectKeepsReports, ReportStepKeeps,
       AnnounceKeepsReports, ReadKeepsReports
    DEF Next

LEMMA ReportsBegin ==
  ASSUME Init
  PROVE  ReportsInv
  <1>1. PICK agenda \in Agendas : call = InitialCall(agenda)
    BY DEF Init, EventsInit
  <1>2. agenda \in [Call -> Seq(Publication)]
    BY EventsAssumption
  <1>3. PlainTodo
    <2>1. SUFFICES ASSUME NEW c \in Call, NEW i \in 1 .. Len(agenda[c])
                   PROVE  ~IsReady(agenda[c][i].event)
      BY <1>1 DEF PlainTodo, Todo, InitialCall
    <2>2. agenda[c] \in Seq(Publication) /\ i \in DOMAIN agenda[c]
      BY <1>2
    <2>3. QED
      BY <2>2, AnnouncementsAssumption DEF IsReady
  <1>4. FramesOK
    <2>1. frames = [t \in Tenant |-> <<>>]
      BY DEF Init, EventsInit, ChannelInit
    <2>2. QED
      BY <2>1, OrderlyEmpty DEF FramesOK
  <1>5. wanted \subseteq Report
    BY DeliveryAssumption DEF Init
  <1>6. ReportDomains /\ \A r \in Report : ReportOK(r)
    BY DEF Init, ReportsInit, ReportDomains, ReportOK, WorkerSteps
  <1>7. QED
    BY <1>3, <1>4, <1>5, <1>6 DEF ReportsInv

(***************************************************************************)
(* A report that says it succeeded has its file, also while a job that was *)
(* given out again renders it once more; and one that says it is queued or *)
(* running is in somebody's hands, whatever died, unless its request or    *)
(* its job was given up.                                                   *)
(***************************************************************************)
THEOREM StatusStaysTrue == Spec => []StatusIsTrue
  <1>1. ReportsInv => StatusIsTrue
    <2>1. SUFFICES ASSUME ReportsInv, NEW r \in Report
                   PROVE  /\ row[r] = "succeeded" => artifact[r] # <<>>
                          /\ row[r] \in {"queued", "running"} => InHand(r) \/ GivenUp(r)
      BY DEF StatusIsTrue
    <2>2. row[r] = "succeeded" => artifact[r] # <<>>
      <3>1. row[r] = "succeeded" => artifact[r] = RenderReportPdf(rowCount[r])
        BY <2>1 DEF ReportsInv, ReportOK, rendered
      <3>2. QED
        BY <3>1, RenderedIsWhole, ReportsAssumption
    <2>3. row[r] \in {"queued", "running"} => InHand(r) \/ GivenUp(r)
      BY <2>1 DEF ReportsInv, ReportOK, InHand, GivenUp
    <2>4. QED
      BY <2>2, <2>3
  <1>2. EventsInv => Shape
    BY DEF EventsInv, TokensInv
  <1>3. Init => EventsInv /\ ReportsInv
    BY EventsBegin, ReportsBegin DEF Init
  <1>4. EventsInv /\ ReportsInv /\ [Next]_vars => EventsInv' /\ ReportsInv'
    BY <1>2, EventsInductive, ReportsInductive
  <1>5. QED
    BY <1>1, <1>3, <1>4, PTL DEF Spec

(***************************************************************************)
(* The chat gets a report once at most, with every row of its table on a   *)
(* page with room for it, whatever dies, is given out again or reconnects. *)
(***************************************************************************)
THEOREM ReportsArriveWhole == Spec => []DocumentIsWhole
  <1>1. ReportsInv => DocumentIsWhole
    <2>1. SUFFICES ASSUME ReportsInv, NEW r \in Report
                   PROVE  /\ Len(documents[r]) <= 1
                          /\ \A i \in DOMAIN documents[r] :
                               ShowsEveryRow(documents[r][i], rowCount[r])
      BY DEF DocumentIsWhole
    <2>2. documents[r] = <<>> \/ documents[r] = <<RenderReportPdf(rowCount[r])>>
      BY <2>1 DEF ReportsInv, ReportOK, rendered
    <2>3. ShowsEveryRow(RenderReportPdf(rowCount[r]), rowCount[r])
      BY RenderedIsWhole, ReportsAssumption
    <2>4. PICK pages : pages = RenderReportPdf(rowCount[r])
      OBVIOUS
    <2>5. CASE documents[r] = <<>>
      BY <2>5
    <2>6. CASE documents[r] = <<pages>>
      <3>1. Len(documents[r]) = 1 /\ DOMAIN documents[r] = {1} /\ documents[r][1] = pages
        BY <2>6
      <3>2. ShowsEveryRow(documents[r][1], rowCount[r])
        BY <2>3, <2>4, <3>1
      <3>3. QED
        BY <3>1, <3>2
    <2>7. QED
      BY <2>2, <2>4, <2>5, <2>6
  <1>2. EventsInv => Shape
    BY DEF EventsInv, TokensInv
  <1>3. Init => EventsInv /\ ReportsInv
    BY EventsBegin, ReportsBegin DEF Init
  <1>4. EventsInv /\ ReportsInv /\ [Next]_vars => EventsInv' /\ ReportsInv'
    BY <1>2, EventsInductive, ReportsInductive
  <1>5. QED
    BY <1>1, <1>3, <1>4, PTL DEF Spec
=============================================================================

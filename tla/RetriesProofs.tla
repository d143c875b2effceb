----------------------------- MODULE RetriesProofs -----------------------------
(***************************************************************************)
(* Calls with a key, for any number of listings and of requests: the       *)
(* invariant of Retries is inductive, so that a call that is sent again is *)
(* answered as Retries says (RetryRepeatsAnswer).                          *)
(***************************************************************************)
EXTENDS Retries, SequenceTheorems, TLAPS

LEMMA KeyOfCall == \A c \in Calls : c.key \in Keys
  BY DEF Keys

\* Calls with the same key and body are the same call or share a card.
LEMMA OneBodyOneCall ==
  ASSUME NEW c \in Calls, NEW d \in Calls, c.key = d.key, c.body = d.body
  PROVE  c = d \/ ShareACard(c, d)
  <1>1. \/ \E x \in Goods : c = Call(<<"claim", x>>, "claim", x)
        \/ c \in ListingCardCalls /\ \E x \in Goods : c.key = <<"card", x>>
        \/ \E x \in Goods : c = Call(<<"pickups">>, "complete", x)
        \/ \E x \in Goods : c = Call(<<"update">>, "claim", x)
        \/ c = Call(<<"update">>, "prep", "prep")
    BY DEF Calls, ClaimButtonCalls, ListingCardCalls, PickupsPageCalls, UpdateCalls, Call
  <1>2. \/ \E x \in Goods : d = Call(<<"claim", x>>, "claim", x)
        \/ d \in ListingCardCalls /\ \E x \in Goods : d.key = <<"card", x>>
        \/ \E x \in Goods : d = Call(<<"pickups">>, "complete", x)
        \/ \E x \in Goods : d = Call(<<"update">>, "claim", x)
        \/ d = Call(<<"update">>, "prep", "prep")
    BY DEF Calls, ClaimButtonCalls, ListingCardCalls, PickupsPageCalls, UpdateCalls, Call
  <1>3. \A x, y \in Goods :
          /\ <<"claim", x>> # <<"card", y>> /\ <<"claim", x>> # <<"pickups">>
          /\ <<"claim", x>> # <<"update">> /\ <<"card", x>> # <<"pickups">>
          /\ <<"card", x>> # <<"update">> /\ <<"pickups">> # <<"update">>
          /\ <<"claim", x>> = <<"claim", y>> => x = y
    OBVIOUS
  <1>4. QED
    BY <1>1, <1>2, <1>3, RetriesAssumption DEF Call, ShareACard

\* Executing one more call adds it, and takes nothing away.
LEMMA ExecutedAppend ==
  ASSUME NEW S, NEW s \in Seq(S), NEW e \in S
  PROVE  /\ Append(s, e) \in Seq(S) /\ Append(s, e) # <<>>
         /\ Len(Append(s, e)) = Len(s) + 1
         /\ {Append(s, e)[i] : i \in DOMAIN Append(s, e)} = {s[i] : i \in DOMAIN s} \cup {e}
  <1>1. Append(s, e) \in Seq(S) /\ Append(s, e) # <<>> /\ Len(Append(s, e)) = Len(s) + 1
    BY AppendProperties
  <1>2. DOMAIN Append(s, e) = DOMAIN s \cup {Len(s) + 1}
    <2>1. DOMAIN s = 1..Len(s) /\ Len(s) \in Nat
      OBVIOUS
    <2>2. DOMAIN Append(s, e) = 1..(Len(s) + 1)
      BY <1>1
    <2>3. QED
      BY <2>1, <2>2
  <1>3. \A i \in DOMAIN s : Append(s, e)[i] = s[i]
    BY AppendProperties
  <1>4. Append(s, e)[Len(s) + 1] = e
    BY AppendProperties
  <1>5. QED
    BY <1>1, <1>2, <1>3, <1>4

LEMMA RetriesStart == RetriesInit => RetriesInv
  <1>1. SUFFICES ASSUME RetriesInit PROVE RetriesInv
    OBVIOUS
  <1>2. \A k \in Keys : done[k] = <<>> /\ Len(done[k]) = 0
    BY <1>1 DEF RetriesInit
  <1>3. RetriesTypeOK
    BY <1>1, RetriesAssumption DEF RetriesInit, RetriesTypeOK
  <1>4. RetryRepeatsAnswer
    BY <1>1, <1>2 DEF RetriesInit, RetryRepeatsAnswer
  <1>5. WasExecuted /\ OneAtATime /\ FirstOfItsKey /\ IsOnRecord
    BY <1>1, <1>2 DEF RetriesInit, WasExecuted, OneAtATime, FirstOfItsKey, IsOnRecord, Executing, Free
  <1>6. QED
    BY <1>3, <1>4, <1>5 DEF RetriesInv

\* The value of a copy that is past its reading, or about to read.
LEMMA CopyCases ==
  ASSUME RetriesTypeOK, NEW c \in Copies
  PROVE  /\ copies[c] = Free \/ copies[c].at \in {"read", "execute", "record"}
         /\ copies[c].at \in {"read", "execute", "record"} =>
              copies[c].call \in Calls /\ copies[c].call.key \in Keys
  <1>1. copies[c] \in {Free} \cup [at : {"read", "execute", "record"}, call : Calls]
    BY DEF RetriesTypeOK
  <1>2. QED
    BY <1>1, KeyOfCall DEF Free

\* Sending adds a copy that reads.
LEMMA SendKeeps ==
  ASSUME RetriesInv, NEW c \in Copies, Send(c)
  PROVE  RetriesInv'
  <1>1. PICK call \in Calls : copies' = [copies EXCEPT ![c] = [at |-> "read", call |-> call]]
    BY DEF Send
  <1>2. UNCHANGED <<record, done, answers, excused>> /\ RetriesTypeOK
    BY DEF Send, RetriesInv
  <1>3. \A d \in Copies : copies'[d].at \in {"execute", "record"} =>
          copies'[d] = copies[d]
    BY <1>1, <1>2 DEF RetriesTypeOK
  <1>4. \A d \in Copies : copies[d].at \in {"execute", "record"} => copies'[d] = copies[d]
    BY <1>1, <1>2 DEF RetriesTypeOK, Send, Free
  <1>5. RetriesTypeOK'
    <2>1. sends' \in 0..MaxSends
      BY <1>2, RetriesAssumption DEF RetriesTypeOK, Send
    <2>2. QED
      BY <1>1, <1>2, <2>1 DEF RetriesTypeOK
  <1>6. RetryRepeatsAnswer'
    BY <1>2 DEF RetriesInv, RetryRepeatsAnswer, Executed
  <1>7. WasExecuted'
    BY <1>2, <1>3 DEF RetriesInv, WasExecuted, Executed
  <1>8. OneAtATime'
    BY <1>2, <1>3 DEF RetriesInv, OneAtATime, Executing
  <1>9. FirstOfItsKey'
    BY <1>2, <1>3 DEF RetriesInv, FirstOfItsKey
  <1>10. IsOnRecord'
    BY <1>2, <1>3, <1>4 DEF RetriesInv, IsOnRecord
  <1>11. QED
    BY <1>5, <1>6, <1>7, <1>8, <1>9, <1>10 DEF RetriesInv

\* Reading a key that has no record.
LEMMA ReadNothingKeeps ==
  ASSUME RetriesInv, NEW c \in Copies, ReadIdempotent(c),
         {r \in record : r.key = copies[c].call.key} = {}
  PROVE  RetriesInv'
  <1> DEFINE call == copies[c].call
             k == call.key
  <1>1. /\ copies' = [copies EXCEPT ![c] = [copies[c] EXCEPT !.at = "execute"]]
        /\ copies[c].at = "read" /\ UNCHANGED <<record, done, answers, sends>>
        /\ excused' = excused \cup {k : o \in {o \in Executing : copies[o].call.key = k}}
    BY DEF ReadIdempotent, Moves
  <1>2. RetriesTypeOK
    BY DEF RetriesInv
  <1>3. call \in Calls /\ k \in Keys
    BY <1>1, <1>2, CopyCases
  <1>4. copies[c] = [at |-> "read", call |-> call]
    <2>1. copies[c] \in {Free} \cup [at : {"read", "execute", "record"}, call : Calls]
      BY <1>2 DEF RetriesTypeOK
    <2>2. QED
      BY <1>1, <2>1 DEF Free
  <1>5. copies'[c] = [at |-> "execute", call |-> call] /\ \A d \in Copies \ {c} : copies'[d] = copies[d]
    BY <1>1, <1>2, <1>4 DEF RetriesTypeOK
  <1>6. excused \subseteq excused' /\ excused' \subseteq excused \cup {k}
        /\ \A d \in Executing : copies[d].call.key = k => k \in excused'
    BY <1>1
  <1>7. RetriesTypeOK'
    BY <1>1, <1>2, <1>3, <1>4, <1>6 DEF RetriesTypeOK
  <1>8. RetryRepeatsAnswer'
    BY <1>1, <1>6 DEF RetriesInv, RetryRepeatsAnswer, Executed
  <1>9. WasExecuted'
    BY <1>1, <1>5 DEF RetriesInv, WasExecuted, Executed
  <1>10. OneAtATime'
    BY <1>5, <1>6 DEF RetriesInv, OneAtATime, Executing
  <1>11. FirstOfItsKey'
    <2>1. done[k] = <<>> \/ k \in excused'
      BY <1>3, <1>6 DEF RetriesInv, IsOnRecord, Executing
    <2>2. QED
      BY <1>1, <1>5, <1>6, <2>1 DEF RetriesInv, FirstOfItsKey
  <1>12. IsOnRecord'
    BY <1>1, <1>5, <1>6 DEF RetriesInv, IsOnRecord
  <1>13. QED
    BY <1>7, <1>8, <1>9, <1>10, <1>11, <1>12 DEF RetriesInv

\* A copy that ends: it answers with the kind it should, and if it was about
\* to record, the key has the record or an excuse.
LEMMA EndKeeps ==
  ASSUME RetriesInv, NEW c \in Copies,
         copies' = [copies EXCEPT ![c] = Free],
         UNCHANGED <<done, sends>>,
         RetriesTypeOK', excused \subseteq excused',
         RetryRepeatsAnswer',
         \A r \in record' : r \in Executed(r.key),
         \A k \in Keys \ excused' :
           (\E r \in record : r.key = k) => \E r \in record' : r.key = k,
         copies[c].at = "record" =>
           \/ copies[c].call.key \in excused'
           \/ \E r \in record' : r.key = copies[c].call.key
  PROVE  RetriesInv'
  <1>1. RetriesTypeOK
    BY DEF RetriesInv
  <1>2. copies'[c].at = "free" /\ \A d \in Copies \ {c} : copies'[d] = copies[d]
    BY <1>1 DEF RetriesTypeOK, Free
  <1>3. WasExecuted'
    BY <1>2 DEF RetriesInv, WasExecuted, Executed
  <1>4. OneAtATime'
    BY <1>2 DEF RetriesInv, OneAtATime, Executing
  <1>5. FirstOfItsKey'
    BY <1>2 DEF RetriesInv, FirstOfItsKey
  <1>6. IsOnRecord'
    BY <1>2 DEF RetriesInv, IsOnRecord
  <1>7. QED
    BY <1>3, <1>4, <1>5, <1>6 DEF RetriesInv

\* Reading a key that has a record: the answer is the record's, or a conflict.
LEMMA ReadRecordKeeps ==
  ASSUME RetriesInv, NEW c \in Copies, ReadIdempotent(c),
         {r \in record : r.key = copies[c].call.key} # {}
  PROVE  RetriesInv'
  <1> DEFINE call == copies[c].call
             kept == {r \in record : r.key = call.key}
             kind == IF \E r \in kept : r.body = call.body THEN "repeated" ELSE "conflict"
  <1>1. /\ copies' = [copies EXCEPT ![c] = Free]
        /\ answers' = answers \cup {[call |-> call, kind |-> kind]}
        /\ copies[c].at = "read" /\ UNCHANGED <<record, done, excused, sends>>
    BY DEF ReadIdempotent, Answers
  <1>2. RetriesTypeOK /\ RetryRepeatsAnswer /\ WasExecuted
    BY DEF RetriesInv
  <1>3. call \in Calls
    BY <1>1, <1>2, CopyCases
  <1>4. RetriesTypeOK'
    BY <1>1, <1>2, <1>3 DEF RetriesTypeOK
  <1>5. PICK r \in kept : r.body = call.body \/ \A q \in kept : q.body # call.body
    OBVIOUS
  <1>6. r \in Executed(call.key)
    BY <1>2, <1>5 DEF WasExecuted
  <1>7. /\ kind = "repeated" =>
             \E q \in Executed(call.key) : q = call \/ ShareACard(q, call)
        /\ kind = "conflict" => \E q \in Executed(call.key) : q.body # call.body
        /\ kind # "done"
    <2>1. r \in Calls /\ r.key = call.key
      BY <1>2, <1>5 DEF RetriesTypeOK
    <2>2. r.body = call.body => r = call \/ ShareACard(r, call)
      BY <1>3, <2>1, OneBodyOneCall
    <2>3. QED
      BY <1>5, <1>6, <2>2
  <1>8. RetryRepeatsAnswer'
    <2>1. \A k \in Keys : Len(done'[k]) > 1 => k \in excused'
      BY <1>1, <1>2 DEF RetryRepeatsAnswer
    <2>2. ASSUME NEW a \in answers'
          PROVE  /\ a.kind = "done" => a.call \in Executed(a.call.key)
                 /\ a.kind = "repeated" =>
                      \E q \in Executed(a.call.key) : q = a.call \/ ShareACard(q, a.call)
                 /\ a.kind = "conflict" => \E q \in Executed(a.call.key) : q.body # a.call.body
      <3>1. CASE a \in answers
        BY <1>2, <3>1 DEF RetryRepeatsAnswer
      <3>2. CASE a = [call |-> call, kind |-> kind]
        <4> HIDE DEF call, kept, kind
        <4>1. a.call = call /\ a.kind = kind
          BY <3>2
        <4>2. QED
          BY <1>7, <4>1
      <3>3. QED
        BY <1>1, <3>1, <3>2
    <2>3. \A k : Executed(k)' = Executed(k)
      BY <1>1 DEF Executed
    <2>4. QED
      BY <2>1, <2>2, <2>3 DEF RetryRepeatsAnswer
  <1>9. \A q \in record' : q \in Executed(q.key)
    BY <1>1, <1>2 DEF WasExecuted
  <1>10. QED
    BY <1>1, <1>4, <1>8, <1>9, EndKeeps

\* Executing: the first of its key, or the key has its excuse.
LEMMA ExecuteKeeps ==
  ASSUME RetriesInv, NEW c \in Copies, Executes(c)
  PROVE  RetriesInv'
  <1> DEFINE call == copies[c].call
             k == call.key
             Ran(j) == {done'[j][i] : i \in DOMAIN done'[j]}
  <1>1. /\ done' = [done EXCEPT ![k] = Append(done[k], call)]
        /\ copies' = [copies EXCEPT ![c] = [copies[c] EXCEPT !.at = "record"]]
        /\ copies[c].at = "execute" /\ UNCHANGED <<record, answers, excused, sends>>
    BY DEF Executes, Moves
  <1>2. RetriesTypeOK
    BY DEF RetriesInv
  <1>3. call \in Calls /\ k \in Keys
    BY <1>1, <1>2, CopyCases
  <1>4. copies[c] = [at |-> "execute", call |-> call]
    <2>1. copies[c] \in {Free} \cup [at : {"read", "execute", "record"}, call : Calls]
      BY <1>2 DEF RetriesTypeOK
    <2>2. QED
      BY <1>1, <2>1 DEF Free
  <1>5. copies'[c] = [at |-> "record", call |-> call] /\ \A d \in Copies \ {c} : copies'[d] = copies[d]
    BY <1>1, <1>2, <1>4 DEF RetriesTypeOK
  <1>6. done[k] \in Seq(Calls) /\ \A j \in Keys \ {k} : done'[j] = done[j]
    BY <1>1, <1>2, <1>3 DEF RetriesTypeOK
  <1>7. /\ done'[k] \in Seq(Calls) /\ Len(done'[k]) = Len(done[k]) + 1
        /\ Ran(k) = Executed(k) \cup {call}
    <2>1. done'[k] = Append(done[k], call)
      BY <1>1, <1>2, <1>3 DEF RetriesTypeOK
    <2>2. /\ Append(done[k], call) \in Seq(Calls) /\ Len(Append(done[k], call)) = Len(done[k]) + 1
          /\ {Append(done[k], call)[i] : i \in DOMAIN Append(done[k], call)} =
               {done[k][i] : i \in DOMAIN done[k]} \cup {call}
      <3>1. \A s \in Seq(Calls), e \in Calls :
              /\ Append(s, e) \in Seq(Calls) /\ Len(Append(s, e)) = Len(s) + 1
              /\ {Append(s, e)[i] : i \in DOMAIN Append(s, e)} = {s[i] : i \in DOMAIN s} \cup {e}
        BY ExecutedAppend
      <3>2. done[k] \in Seq(Calls) /\ call \in Calls
        BY <1>3, <1>6
      <3> HIDE DEF call, k
      <3>3. QED
        BY ONLY <3>1, <3>2
    <2>3. Ran(k) = {Append(done[k], call)[i] : i \in DOMAIN Append(done[k], call)}
      BY <2>1
    <2>4. Executed(k) = {done[k][i] : i \in DOMAIN done[k]}
      BY DEF Executed
    <2>5. QED
      BY <2>1, <2>2, <2>3, <2>4
  <1>8. \A j \in Keys : Executed(j) \subseteq Ran(j)
    <2>1. ASSUME NEW j \in Keys \ {k} PROVE Ran(j) = Executed(j)
      BY <1>6 DEF Executed
    <2>2. QED
      BY <1>7, <2>1
  <1>8a. \A j \in Keys : Ran(j) = {done'[j][i] : i \in DOMAIN done'[j]}
    OBVIOUS
  <1> HIDE DEF Ran
  <1>9. RetriesTypeOK'
    <2>1. done' \in [Keys -> Seq(Calls)]
      BY <1>1, <1>2, <1>3, <1>6, <1>7 DEF RetriesTypeOK
    <2>2. copies' \in [Copies -> {Free} \cup [at : {"read", "execute", "record"}, call : Calls]]
      BY <1>1, <1>2, <1>3, <1>4 DEF RetriesTypeOK
    <2>3. QED
      BY <1>1, <1>2, <2>1, <2>2 DEF RetriesTypeOK
  <1>10. RetryRepeatsAnswer'
    <2>1. done[k] = <<>> \/ k \in excused
      BY <1>1 DEF RetriesInv, FirstOfItsKey
    <2>2. \A j \in Keys : Len(done'[j]) > 1 => j \in excused'
      BY <1>1, <1>6, <1>7, <2>1, EmptySeq DEF RetriesInv, RetryRepeatsAnswer
    <2>3. \A a \in answers : a.call \in Calls /\ a.call.key \in Keys
      BY <1>2, KeyOfCall DEF RetriesTypeOK
    <2>4. \A a \in answers :
            /\ a.kind = "done" => a.call \in Ran(a.call.key)
            /\ a.kind = "repeated" =>
                 \E q \in Ran(a.call.key) : q = a.call \/ ShareACard(q, a.call)
            /\ a.kind = "conflict" => \E q \in Ran(a.call.key) : q.body # a.call.body
      BY <1>8, <2>3 DEF RetriesInv, RetryRepeatsAnswer
    <2>5. QED
      BY <1>1, <1>8a, <2>2, <2>3, <2>4 DEF RetryRepeatsAnswer, Executed
  <1>11. WasExecuted'
    <2>1. \A r \in record : r \in Calls /\ r.key \in Keys
      BY <1>2, KeyOfCall DEF RetriesTypeOK
    <2>2. \A r \in record : r \in Ran(r.key)
      BY <1>8, <2>1 DEF RetriesInv, WasExecuted
    <2>3. ASSUME NEW d \in Copies, copies'[d].at = "record"
          PROVE  copies'[d].call.key \in Keys /\ copies'[d].call \in Ran(copies'[d].call.key)
      <3>1. CASE d = c
        <4>1. copies'[d].call = call
          BY <1>5, <3>1
        <4>2. QED
          BY <1>3, <1>7, <4>1
      <3>2. CASE d # c
        <4>1. copies'[d] = copies[d] /\ copies[d].at = "record"
          BY <1>5, <2>3, <3>2
        <4>2. copies[d].call.key \in Keys
          BY <1>2, <4>1, CopyCases
        <4>3. copies[d].call \in Executed(copies[d].call.key)
          BY <4>1 DEF RetriesInv, WasExecuted
        <4>4. QED
          BY <1>8, <4>1, <4>2, <4>3
      <3>3. QED
        BY <3>1, <3>2
    <2>4. QED
      BY <1>1, <1>8a, <2>1, <2>2, <2>3 DEF WasExecuted, Executed
  <1>12. OneAtATime'
    BY <1>1, <1>5 DEF RetriesInv, OneAtATime, Executing
  <1>13. FirstOfItsKey'
    <2>1. ASSUME NEW d \in Copies, copies'[d].at = "execute"
          PROVE  done'[copies'[d].call.key] = <<>> \/ copies'[d].call.key \in excused'
      <3>1. d # c /\ copies'[d] = copies[d] /\ copies[d].call.key \in Keys
        BY <1>2, <1>5, <2>1, CopyCases
      <3>2. CASE copies[d].call.key = k
        BY <1>1, <2>1, <3>1, <3>2 DEF RetriesInv, OneAtATime, Executing
      <3>3. CASE copies[d].call.key # k
        BY <1>1, <1>6, <2>1, <3>1, <3>3 DEF RetriesInv, FirstOfItsKey
      <3>4. QED
        BY <3>2, <3>3
    <2>2. QED
      BY <2>1 DEF FirstOfItsKey
  <1>14. IsOnRecord'
    <2>1. ASSUME NEW j \in Keys \ excused, done'[j] # <<>>
          PROVE  \/ \E r \in record : r.key = j
                 \/ \E d \in Copies : copies'[d].at = "record" /\ copies'[d].call.key = j
      <3>1. CASE j = k
        BY <1>5, <3>1
      <3>2. CASE j # k
        BY <1>1, <1>5, <1>6, <2>1, <3>2 DEF RetriesInv, IsOnRecord
      <3>3. QED
        BY <3>1, <3>2
    <2>2. QED
      BY <1>1, <2>1 DEF IsOnRecord
  <1>15. QED
    BY <1>9, <1>10, <1>11, <1>12, <1>13, <1>14 DEF RetriesInv

\* An end that answers an error, or nothing at all.
LEMMA IsRefusedKeeps ==
  ASSUME RetriesInv, NEW c \in Copies, IsRefused(c)
  PROVE  RetriesInv'
  <1> DEFINE call == copies[c].call
  <1>1. /\ copies' = [copies EXCEPT ![c] = Free]
        /\ answers' = answers \cup {[call |-> call, kind |-> "error"]}
        /\ copies[c].at = "execute" /\ UNCHANGED <<record, done, excused, sends>>
    BY DEF IsRefused, Answers
  <1>2. RetriesTypeOK /\ RetryRepeatsAnswer /\ WasExecuted
    BY DEF RetriesInv
  <1>3. call \in Calls
    BY <1>1, <1>2, CopyCases
  <1>4. RetriesTypeOK'
    BY <1>1, <1>2, <1>3 DEF RetriesTypeOK
  <1>5. RetryRepeatsAnswer'
    <2>1. \A a \in answers' : a \in answers \/ a.kind = "error"
      BY <1>1
    <2>2. QED
      BY <1>1, <1>2, <2>1 DEF RetryRepeatsAnswer, Executed
  <1>6. \A r \in record' : r \in Executed(r.key)
    BY <1>1, <1>2 DEF WasExecuted
  <1>7. QED
    BY <1>1, <1>4, <1>5, <1>6, EndKeeps

LEMMA CrashesKeeps ==
  ASSUME RetriesInv, NEW c \in Copies, Crashes(c)
  PROVE  RetriesInv'
  <1>1. /\ copies' = [copies EXCEPT ![c] = Free] /\ copies[c] # Free
        /\ excused' = IF copies[c].at = "record"
                      THEN excused \cup {copies[c].call.key} ELSE excused
        /\ UNCHANGED <<record, done, answers, sends>>
    BY DEF Crashes
  <1>2. RetriesTypeOK /\ RetryRepeatsAnswer /\ WasExecuted
    BY DEF RetriesInv
  <1>3. copies[c].call.key \in Keys
    BY <1>1, <1>2, CopyCases
  <1>4. RetriesTypeOK'
    BY <1>1, <1>2, <1>3 DEF RetriesTypeOK
  <1>5. RetryRepeatsAnswer'
    BY <1>1, <1>2 DEF RetryRepeatsAnswer, Executed
  <1>6. \A r \in record' : r \in Executed(r.key)
    BY <1>1, <1>2 DEF WasExecuted
  <1>7. QED
    BY <1>1, <1>4, <1>5, <1>6, EndKeeps

\* Recording the answer: what was executed is now on record.
LEMMA WriteKeeps ==
  ASSUME RetriesInv, NEW c \in Copies, WriteIdempotent(c)
  PROVE  RetriesInv'
  <1> DEFINE call == copies[c].call
  <1>1. /\ copies' = [copies EXCEPT ![c] = Free]
        /\ answers' = answers \cup {[call |-> call, kind |-> "done"]}
        /\ record' = {r \in record : r.key # call.key} \cup {call}
        /\ copies[c].at = "record" /\ UNCHANGED <<done, excused, sends>>
    BY DEF WriteIdempotent, Answers
  <1>2. RetriesTypeOK /\ RetryRepeatsAnswer /\ WasExecuted
    BY DEF RetriesInv
  <1>3. call \in Calls /\ call \in Executed(call.key)
    BY <1>1, <1>2, CopyCases DEF WasExecuted
  <1>4. RetriesTypeOK'
    BY <1>1, <1>2, <1>3 DEF RetriesTypeOK
  <1>5. RetryRepeatsAnswer'
    <2>1. \A a \in answers' : a \in answers \/ (a.kind = "done" /\ a.call = call)
      BY <1>1
    <2>2. QED
      BY <1>1, <1>2, <1>3, <2>1 DEF RetryRepeatsAnswer, Executed
  <1>6. \A r \in record' : r \in Executed(r.key)
    BY <1>1, <1>2, <1>3 DEF WasExecuted
  <1>7. \A k \in Keys : (\E r \in record : r.key = k) => \E r \in record' : r.key = k
    BY <1>1
  <1>8. \E r \in record' : r.key = call.key
    BY <1>1
  <1>9. QED
    BY <1>1, <1>4, <1>5, <1>6, <1>7, <1>8, EndKeeps

\* A record that expires leaves its key with an excuse.
LEMMA ExpiryKeeps ==
  ASSUME RetriesInv, RecordExpires
  PROVE  RetriesInv'
  <1>1. PICK r \in record : record' = record \ {r} /\ excused' = excused \cup {r.key}
    BY DEF RecordExpires
  <1>2. UNCHANGED <<done, copies, answers, sends>>
    BY DEF RecordExpires
  <1>3. RetriesTypeOK'
    BY <1>1, <1>2, KeyOfCall DEF RetriesInv, RetriesTypeOK
  <1>4. RetryRepeatsAnswer'
    BY <1>1, <1>2 DEF RetriesInv, RetryRepeatsAnswer, Executed
  <1>5. WasExecuted' /\ OneAtATime' /\ FirstOfItsKey'
    BY <1>1, <1>2 DEF RetriesInv, WasExecuted, Executed, OneAtATime, Executing, FirstOfItsKey
  <1>6. IsOnRecord'
    BY <1>1, <1>2 DEF RetriesInv, IsOnRecord
  <1>7. QED
    BY <1>3, <1>4, <1>5, <1>6 DEF RetriesInv

LEMMA RetriesStepKeeps == RetriesInv /\ [RetriesStep]_retriesVars => RetriesInv'
  <1>1. SUFFICES ASSUME RetriesInv, [RetriesStep]_retriesVars PROVE RetriesInv'
    OBVIOUS
  <1>2. CASE UNCHANGED retriesVars
    BY <1>1, <1>2 DEF retriesVars, RetriesInv, RetriesTypeOK, RetryRepeatsAnswer, Executed,
      WasExecuted, OneAtATime, Executing, FirstOfItsKey, IsOnRecord
  <1>3. ASSUME NEW c \in Copies, Send(c) PROVE RetriesInv'
    BY <1>1, <1>3, SendKeeps
  <1>4. ASSUME NEW c \in Copies, ReadIdempotent(c) PROVE RetriesInv'
    BY <1>1, <1>4, ReadNothingKeeps, ReadRecordKeeps
  <1>5. ASSUME NEW c \in Copies, Executes(c) PROVE RetriesInv'
    BY <1>1, <1>5, ExecuteKeeps
  <1>6. ASSUME NEW c \in Copies, IsRefused(c) PROVE RetriesInv'
    BY <1>1, <1>6, IsRefusedKeeps
  <1>7. ASSUME NEW c \in Copies, WriteIdempotent(c) PROVE RetriesInv'
    BY <1>1, <1>7, WriteKeeps
  <1>8. ASSUME NEW c \in Copies, Crashes(c) PROVE RetriesInv'
    BY <1>1, <1>8, CrashesKeeps
  <1>9. CASE RecordExpires
    BY <1>1, <1>9, ExpiryKeeps
  <1>10. QED
    BY <1>1, <1>2, <1>3, <1>4, <1>5, <1>6, <1>7, <1>8, <1>9 DEF RetriesStep

\* A retried call is executed once and answered with its own answer, or on a
\* listing's card with that of another of its actions (readIdempotent looks at
\* key and body only), unless copies overlap, the process stops or a day passes.
THEOREM RetriesAnswered == RetriesSpec => []RetryRepeatsAnswer
  <1>1. RetriesInv => RetryRepeatsAnswer
    BY DEF RetriesInv
  <1>2. QED
    BY <1>1, RetriesStart, RetriesStepKeeps, PTL DEF RetriesSpec
=============================================================================

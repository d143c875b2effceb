-------------------------- MODULE LeftoversProofs --------------------------
(***************************************************************************)
(* Proofs about Leftovers, for any kitchen, any leftovers, any splits and  *)
(* any bounds.                                                             *)
(***************************************************************************)
EXTENDS Suggestion, Analytics, FoldTheorems, TLAPS

\* Rounding to a unit moves a quantity by half a unit at most.
LEMMA RoundIsNear ==
  ASSUME NEW x \in Nat
  PROVE  /\ Round3(x) \in Nat
         /\ 100 * Round3(x) - x <= 50 /\ x - 100 * Round3(x) <= 50
  BY DEF Round3

LEMMA StoredIsSplit ==
  ASSUME NEW s \in Splits
  PROVE  /\ Stored(s) \in Split
         /\ Stored(s).sell = Round3(s.sell) /\ Stored(s).donate = Round3(s.donate)
<1>1. s \in Split BY SplitsAssumption
<1> QED BY <1>1, RoundIsNear DEF Stored, Split

\* What adds up as sent adds up as stored, but for the rounding of each part.
LEMMA StoredAddsUp ==
  ASSUME NEW s \in Splits, NEW qty \in Nat, AddsUp(s, qty)
  PROVE  Total(Stored(s)) - qty \in -StoredTolerance .. StoredTolerance
<1>1. PICK a \in Nat, b \in Nat, c \in Nat, d \in Nat :
        s.retain = a /\ s.sell = b /\ s.donate = c /\ s.waste = d
  BY SplitsAssumption DEF Split
<1>2. PICK e \in Nat, f \in Nat, g \in Nat, h \in Nat :
        e = Round3(a) /\ f = Round3(b) /\ g = Round3(c) /\ h = Round3(d)
  BY RoundIsNear
<1>3. /\ 100 * e - a <= 50 /\ a - 100 * e <= 50
      /\ 100 * f - b <= 50 /\ b - 100 * f <= 50
      /\ 100 * g - c <= 50 /\ c - 100 * g <= 50
      /\ 100 * h - d <= 50 /\ d - 100 * h <= 50
  BY <1>2, RoundIsNear
<1>4. SplitTolerance \in Nat BY LimitsAssumption
<1>5. a + b + c + d - 100 * qty \in -(100 * SplitTolerance) .. 100 * SplitTolerance
  BY <1>1 DEF AddsUp, Total
<1>6. e + f + g + h - qty \in -(SplitTolerance + 2) .. SplitTolerance + 2
  BY <1>3, <1>4, <1>5
<1>7. Total(Stored(s)) = e + f + g + h BY <1>1, <1>2 DEF Total, Stored
<1> QED BY <1>6, <1>7 DEF StoredTolerance

RequestOK(r) ==
  \/ r \in {Idle} \cup Reuse
  \/ \E S \in (SUBSET Leftover) \ {{}} : r \in Commit(S)

LEMMA TypeInit == Init => TypeOK
  BY DEF Init, TypeOK, Row, Idle, Nothing

\* A step of one user replaces that user's request by a well-formed one.
LEMMA RequestType ==
  ASSUME TypeOK, NEW u \in User, NEW r, RequestOK(r), SetRequest(u, r)
  PROVE  /\ DOMAIN request' = User
         /\ \A v \in User : RequestOK(request'[v])
  BY DEF TypeOK, RequestOK, SetRequest

LEMMA IdleOK == RequestOK(Idle)
  BY DEF RequestOK

\* A close in flight has a split for each of its leftovers.
LEMMA CommitShape ==
  ASSUME TypeOK, NEW u \in User, request[u].step = "commit"
  PROVE  /\ request[u].at \in Nat
         /\ DOMAIN request[u].split \in (SUBSET Leftover) \ {{}}
         /\ request[u].split \in [DOMAIN request[u].split -> Splits]
<1>1. request[u] \notin {Idle} \cup Reuse
  BY DEF Idle, Reuse
<1>2. PICK S \in (SUBSET Leftover) \ {{}} : request[u] \in Commit(S)
  BY <1>1 DEF TypeOK
<1> QED BY <1>2 DEF Commit

\* A reuse confirmation in flight names its leftover and two quantities.
LEMMA ReuseShape ==
  ASSUME TypeOK, NEW u \in User, request[u].step \in {"confirm", "setStatus"}
  PROVE  request[u] \in Reuse
<1>1. request[u] # Idle
  BY DEF Idle
<1>2. ASSUME NEW S \in (SUBSET Leftover) \ {{}}, request[u] \in Commit(S)
      PROVE  FALSE
  BY <1>2 DEF Commit
<1> QED BY <1>1, <1>2 DEF TypeOK

LEMMA UserType ==
  ASSUME TypeOK, NEW u \in User, UserStep(u)
  PROVE  TypeOK'
<1> USE SplitsAssumption, LimitsAssumption
<1> DEFINE RequestsOK == /\ DOMAIN request = User
                         /\ \A v \in User : RequestOK(request[v])
<1>0. RequestsOK BY DEF TypeOK, RequestOK
<1>1. CASE \E l \in Leftover, qty \in Quantities, safeUntil \in 0..MaxSafe :
             RecordLeftover(u, l, qty, safeUntil)
  <2>1. PICK l \in Leftover, qty \in Quantities, safeUntil \in 0..MaxSafe :
          RecordLeftover(u, l, qty, safeUntil)
    BY <1>1
  <2>2. [status |-> "pending_disposition", qty |-> qty, safeUntil |-> safeUntil] \in Row
    BY DEF Row
  <2> QED BY <2>1, <2>2 DEF RecordLeftover, TypeOK
<1>2. CASE \E S \in (SUBSET Leftover) \ {{}} : \E split \in [S -> Splits] :
             ReadCommit(u, S, split)
  <2>1. PICK S \in (SUBSET Leftover) \ {{}} : \E split \in [S -> Splits] :
          ReadCommit(u, S, split)
    BY <1>2
  <2>2. PICK split \in [S -> Splits] : ReadCommit(u, S, split)
    BY <2>1
  <2>3. RequestOK([step |-> "commit", split |-> split, at |-> now])
    BY <2>2 DEF RequestOK, Commit, TypeOK
  <2>4. RequestsOK' BY <2>2, <2>3, RequestType DEF ReadCommit
  <2> QED BY <2>2, <2>4 DEF ReadCommit, TypeOK, RequestOK
<1>3. CASE WriteCommit(u)
  <2> DEFINE split == request[u].split
             S == DOMAIN request[u].split
  <2>1. /\ S \in SUBSET Leftover
        /\ \A l \in S : split[l] \in Splits
        /\ request[u].at \in Nat
    BY <1>3, CommitShape DEF WriteCommit
  <2>2. decided' \in [Leftover -> Disposition \cup {Undecided}]
    <3>1. ASSUME NEW l \in S
          PROVE  NewDisposition(split[l], request[u].at) \in Disposition
      BY <2>1, StoredIsSplit DEF NewDisposition, Disposition
    <3> QED BY <1>3, <2>1, <3>1 DEF WriteCommit, InsertDispositions, TypeOK
  <2>3. leftover' \in [Leftover -> Row]
    <3>1. ASSUME NEW l \in Leftover
          PROVE  [leftover[l] EXCEPT !.status = StatusAfter(split[l])] \in Row
      <4>1. leftover[l] \in Row BY DEF TypeOK
      <4> QED BY <4>1 DEF Row, StatusAfter
    <3> QED BY <1>3, <3>1 DEF WriteCommit, TypeOK
  <2>4. listed' \in [Leftover -> [b2b : Nat, ngo : Nat]]
    <3>1. ASSUME NEW l \in S
          PROVE  [b2b |-> listed[l].b2b + Round3(split[l].sell),
                  ngo |-> listed[l].ngo + Round3(split[l].donate)] \in [b2b : Nat, ngo : Nat]
      <4>1. listed[l] \in [b2b : Nat, ngo : Nat] BY <2>1 DEF TypeOK
      <4>2. Round3(split[l].sell) \in Nat /\ Round3(split[l].donate) \in Nat
        BY <2>1, StoredIsSplit DEF Split
      <4> QED BY <4>1, <4>2
    <3> QED BY <1>3, <3>1 DEF WriteCommit, TypeOK
  <2>5. RequestsOK' BY <1>3, IdleOK, RequestType DEF WriteCommit
  <2> QED BY <1>3, <2>2, <2>3, <2>4, <2>5 DEF WriteCommit, TypeOK, RequestOK
<1>4. CASE CommitRejected(u)
  <2>1. RequestsOK' BY <1>4, IdleOK, RequestType DEF CommitRejected
  <2> QED BY <1>4, <2>1 DEF CommitRejected, TypeOK, RequestOK
<1>5. CASE \E l \in Leftover, qty \in Confirmations : ReadReuse(u, l, qty)
  <2>1. PICK l \in Leftover, qty \in Confirmations : ReadReuse(u, l, qty)
    BY <1>5
  <2>2. decided[l] \in Disposition
    BY <2>1 DEF ReadReuse, MayReuse, TypeOK
  <2>3. decided[l].split.retain \in Nat BY <2>2 DEF Disposition, Split
  <2>4. RequestOK([step |-> "confirm", leftover |-> l, qty |-> qty,
                   retain |-> decided[l].split.retain])
    BY <2>3 DEF RequestOK, Reuse
  <2>5. RequestsOK' BY <2>1, <2>4, RequestType DEF ReadReuse
  <2> QED BY <2>1, <2>5 DEF ReadReuse, TypeOK, RequestOK
<1>6. CASE InsertReuseConfirmation(u)
  <2>1. request[u] \in Reuse
    BY <1>6, ReuseShape DEF InsertReuseConfirmation
  <2>2. RequestOK([request[u] EXCEPT !.step = "setStatus"])
    BY <2>1 DEF RequestOK, Reuse
  <2>3. RequestsOK' BY <1>6, <2>2, RequestType DEF InsertReuseConfirmation
  <2>4. confirmed' \in [Leftover -> Nat]
    <3>1. Round3(request[u].qty) \in Nat BY <2>1, RoundIsNear DEF Reuse
    <3> QED BY <1>6, <2>1, <3>1 DEF InsertReuseConfirmation, Reuse, TypeOK
  <2> QED BY <1>6, <2>3, <2>4 DEF InsertReuseConfirmation, TypeOK, RequestOK
<1>7. CASE SetReuseStatus(u)
  <2>1. request[u] \in Reuse
    BY <1>7, ReuseShape DEF SetReuseStatus
  <2>2. leftover' \in [Leftover -> Row]
    <3>1. request[u].leftover \in Leftover BY <2>1 DEF Reuse
    <3>2. leftover[request[u].leftover] \in Row BY <3>1 DEF TypeOK
    <3>3. [leftover[request[u].leftover] EXCEPT !.status =
             StatusAfterReuse(request[u].qty, request[u].retain)] \in Row
      BY <3>2 DEF StatusAfterReuse, Row
    <3>4. leftover' = [leftover EXCEPT ![request[u].leftover] =
                         [leftover[request[u].leftover] EXCEPT !.status =
                            StatusAfterReuse(request[u].qty, request[u].retain)]]
      BY <1>7 DEF SetReuseStatus
    <3>5. leftover \in [Leftover -> Row] BY DEF TypeOK
    <3> HIDE DEF Row
    <3> QED BY <3>1, <3>3, <3>4, <3>5
  <2>3. RequestsOK' BY <1>7, IdleOK, RequestType DEF SetReuseStatus
  <2> QED BY <1>7, <2>2, <2>3 DEF SetReuseStatus, TypeOK, RequestOK
<1>8. CASE LoseRequest(u)
  <2>1. RequestsOK' BY <1>8, IdleOK, RequestType DEF LoseRequest
  <2> QED BY <1>8, <2>1 DEF LoseRequest, TypeOK, RequestOK
<1> QED BY <1>1, <1>2, <1>3, <1>4, <1>5, <1>6, <1>7, <1>8 DEF UserStep

(***************************************************************************)
(* The tables and the requests keep their shape.                           *)
(***************************************************************************)
THEOREM TypeCorrect == Spec => []TypeOK
<1>1. TypeOK /\ [Next]_vars => TypeOK'
  <2>1. ASSUME TypeOK, Tick PROVE TypeOK'
    <3>1. now' \in Nat BY <2>1 DEF TypeOK, Tick
    <3>2. UNCHANGED <<leftover, decided, listed, confirmed, request>>
      BY <2>1 DEF Tick
    <3> QED BY <2>1, <3>1, <3>2 DEF TypeOK
  <2>2. ASSUME TypeOK, UNCHANGED vars PROVE TypeOK' BY <2>2 DEF TypeOK, vars
  <2> QED BY <2>1, <2>2, UserType DEF Next
<1> QED BY TypeInit, <1>1, PTL DEF Spec

-----------------------------------------------------------------------------
(***************************************************************************)
(* What no step undoes: a split once written, the existence of a leftover, *)
(* its quantity and its safe_until.                                        *)
(***************************************************************************)
Lasting(l) ==
  /\ decided[l] # Undecided => decided'[l] = decided[l]
  /\ leftover[l].status # "absent" =>
       /\ leftover'[l].status # "absent"
       /\ leftover'[l].qty = leftover[l].qty
       /\ leftover'[l].safeUntil = leftover[l].safeUntil

LEMMA LeftoversLast ==
  ASSUME TypeOK, NEW u \in User, UserStep(u), NEW k \in Leftover
  PROVE  Lasting(k)
<1>0. leftover \in [Leftover -> Row] /\ leftover[k] \in Row
  BY DEF TypeOK
<1>1. CASE \E l \in Leftover, qty \in Quantities, safeUntil \in 0..MaxSafe :
             RecordLeftover(u, l, qty, safeUntil)
  BY <1>0, <1>1 DEF RecordLeftover, Lasting
<1>2. CASE WriteCommit(u)
  <2>1. leftover'[k] = leftover[k]
          \/ leftover'[k] = [leftover[k] EXCEPT !.status =
                               StatusAfter(request[u].split[k])]
    BY <1>2 DEF WriteCommit
  <2>2. decided[k] # Undecided => decided'[k] = decided[k]
    BY <1>2 DEF WriteCommit, InsertDispositions
  <2> QED BY <1>0, <2>1, <2>2 DEF Lasting, StatusAfter, Row
<1>3. CASE SetReuseStatus(u)
  <2>1. leftover'[k] = leftover[k]
          \/ leftover'[k] = [leftover[k] EXCEPT !.status =
                StatusAfterReuse(request[u].qty, request[u].retain)]
    BY <1>0, <1>3 DEF SetReuseStatus
  <2>2. decided' = decided BY <1>3 DEF SetReuseStatus
  <2> QED BY <1>0, <2>1, <2>2 DEF Lasting, StatusAfterReuse, Row
<1>4. CASE UNCHANGED <<leftover, decided>>
  BY <1>4 DEF Lasting
<1> QED
  BY <1>1, <1>2, <1>3, <1>4
  DEF UserStep, ReadCommit, CommitRejected, ReadReuse, InsertReuseConfirmation,
      LoseRequest

(***************************************************************************)
(* What a request has read stays true while others work.                   *)
(***************************************************************************)
Backed(u) ==
  /\ request[u].step \in {"confirm", "setStatus"} =>
       /\ decided[request[u].leftover] # Undecided
       /\ request[u].retain = decided[request[u].leftover].split.retain
       /\ decided[request[u].leftover].sent.retain > 0
  /\ request[u].step = "commit" =>
       \A l \in DOMAIN request[u].split :
         /\ leftover[l].status # "absent"
         /\ AddsUp(request[u].split[l], leftover[l].qty)
         /\ Offers(request[u].split[l]) => request[u].at < leftover[l].safeUntil

LEMMA BackedIs == ReuseIsBacked /\ CommitIsBacked <=> \A u \in User : Backed(u)
  BY DEF ReuseIsBacked, CommitIsBacked, Backed

LEMMA StaysBacked ==
  ASSUME TypeOK, NEW v \in User, Backed(v), request'[v] = request[v],
         \A l \in Leftover : Lasting(l)
  PROVE  Backed(v)'
<1>1. CASE request[v].step \in {"confirm", "setStatus"}
  <2>1. request[v].leftover \in Leftover BY <1>1, ReuseShape DEF Reuse
  <2> QED BY <1>1, <2>1 DEF Backed, Lasting
<1>2. CASE request[v].step = "commit"
  <2>1. DOMAIN request[v].split \subseteq Leftover BY <1>2, CommitShape
  <2> QED BY <1>2, <2>1 DEF Backed, Lasting, AddsUp
<1> QED BY <1>1, <1>2 DEF Backed

LEMMA UserBacked ==
  ASSUME TypeOK, CloseInv, NEW u \in User, UserStep(u), NEW v \in User
  PROVE  Backed(v)'
<1>0. /\ Backed(v) /\ Backed(u)
      /\ \A l \in Leftover : Lasting(l)
  BY BackedIs, LeftoversLast DEF CloseInv
<1>1. CASE request'[v] = request[v]
  BY <1>0, <1>1, StaysBacked
<1>2. CASE request'[v] = Idle
  BY <1>2 DEF Backed, Idle
<1>3. CASE v = u /\ \E S \in (SUBSET Leftover) \ {{}} : \E split \in [S -> Splits] :
                     ReadCommit(u, S, split)
  <2>1. PICK S \in (SUBSET Leftover) \ {{}} : \E split \in [S -> Splits] :
          ReadCommit(u, S, split)
    BY <1>3
  <2>2. PICK split \in [S -> Splits] : ReadCommit(u, S, split)
    BY <2>1
  <2>3. request'[v] = [step |-> "commit", split |-> split, at |-> now]
    BY <1>3, <2>2 DEF ReadCommit, SetRequest, TypeOK
  <2>4. leftover' = leftover /\ \A l \in S : MaySplit(l, split[l])
    BY <2>2 DEF ReadCommit
  <2> QED BY <2>3, <2>4 DEF Backed, MaySplit
<1>4. CASE v = u /\ \E l \in Leftover, qty \in Confirmations : ReadReuse(u, l, qty)
  <2>1. PICK l \in Leftover, qty \in Confirmations : ReadReuse(u, l, qty)
    BY <1>4
  <2>2. request'[v] = [step |-> "confirm", leftover |-> l, qty |-> qty,
                       retain |-> decided[l].split.retain]
    BY <1>4, <2>1 DEF ReadReuse, SetRequest, TypeOK
  <2>3. decided' = decided /\ decided[l] # Undecided
          /\ leftover[l].status = "awaiting_reuse"
    BY <2>1 DEF ReadReuse, MayReuse
  <2>4. decided[l].sent.retain > 0
    BY <2>3 DEF CloseInv, StatusMatchesDecision
  <2> QED BY <2>2, <2>3, <2>4 DEF Backed
<1>5. CASE v = u /\ InsertReuseConfirmation(u)
  <2>1. request[u] \in Reuse
    BY <1>5, ReuseShape DEF InsertReuseConfirmation
  <2>2. request'[v] = [request[u] EXCEPT !.step = "setStatus"]
    BY <1>5 DEF InsertReuseConfirmation, SetRequest, TypeOK
  <2>3. decided' = decided /\ request[u].step = "confirm"
    BY <1>5 DEF InsertReuseConfirmation
  <2> QED BY <1>0, <2>1, <2>2, <2>3 DEF Backed, Reuse
<1>6. \/ request'[v] = request[v]
      \/ v = u /\ request'[v] = Idle
      \/ v = u /\ \E S \in (SUBSET Leftover) \ {{}} : \E split \in [S -> Splits] :
                     ReadCommit(u, S, split)
      \/ v = u /\ \E l \in Leftover, qty \in Confirmations : ReadReuse(u, l, qty)
      \/ v = u /\ InsertReuseConfirmation(u)
  BY DEF TypeOK, UserStep, RecordLeftover, ReadCommit, WriteCommit, CommitRejected,
         ReadReuse, InsertReuseConfirmation, SetReuseStatus, LoseRequest, SetRequest
<1> QED BY <1>1, <1>2, <1>3, <1>4, <1>5, <1>6

-----------------------------------------------------------------------------
LEMMA CloseInit == Init => CloseInv
  BY DEF Init, CloseInv, StatusMatchesDecision, OfferedAsDecided, SplitIsSound,
         ReuseIsBacked, CommitIsBacked, ReusedWasKept, Idle, Nothing

LEMMA WriteCommitKeeps ==
  ASSUME TypeOK, CloseInv, NEW u \in User, WriteCommit(u)
  PROVE  StatusMatchesDecision' /\ OfferedAsDecided' /\ SplitIsSound'
<1> DEFINE split == request[u].split
           S == DOMAIN request[u].split
<1>1. /\ S \in SUBSET Leftover
      /\ \A l \in S : split[l] \in Splits
      /\ request[u].at \in Nat
      /\ Backed(u)
  BY CommitShape, BackedIs DEF WriteCommit, CloseInv
<1>2. ASSUME NEW l \in S
      PROVE  /\ decided[l] = Undecided
             /\ decided'[l] # Undecided
             /\ decided'[l].split = Stored(split[l])
             /\ decided'[l].sent = split[l]
             /\ decided'[l].at = request[u].at
             /\ leftover'[l] = [leftover[l] EXCEPT !.status = StatusAfter(split[l])]
             /\ listed'[l] = [b2b |-> listed[l].b2b + Round3(split[l].sell),
                              ngo |-> listed[l].ngo + Round3(split[l].donate)]
  <2>1. NewDisposition(split[l], request[u].at) # Undecided
    BY <1>1, StoredIsSplit, SplitsAssumption DEF NewDisposition, Disposition
  <2>2. /\ decided[l] = Undecided
        /\ decided'[l] = NewDisposition(split[l], request[u].at)
        /\ leftover'[l] = [leftover[l] EXCEPT !.status = StatusAfter(split[l])]
        /\ listed'[l] = [b2b |-> listed[l].b2b + Round3(split[l].sell),
                         ngo |-> listed[l].ngo + Round3(split[l].donate)]
    BY <1>1 DEF WriteCommit, InsertDispositions
  <2> QED BY <2>1, <2>2 DEF NewDisposition
<1>3. ASSUME NEW l \in Leftover \ S
      PROVE  /\ decided'[l] = decided[l]
             /\ leftover'[l] = leftover[l]
             /\ listed'[l] = listed[l]
  BY DEF WriteCommit, InsertDispositions
<1>4. StatusMatchesDecision'
  <2>1. ASSUME NEW l \in S
        PROVE  /\ leftover'[l].status \notin {"absent", "pending_disposition"}
               /\ leftover'[l].status = "awaiting_reuse" => split[l].retain > 0
    <3>1. leftover[l] \in Row BY <1>1 DEF TypeOK
    <3> QED BY <1>2, <3>1 DEF StatusAfter, Row
  <2>2. ASSUME NEW l \in Leftover \ S
        PROVE  /\ decided'[l] = Undecided <=>
                    leftover'[l].status \in {"absent", "pending_disposition"}
               /\ leftover'[l].status = "awaiting_reuse" =>
                    decided'[l].sent.retain > 0
    BY <1>3 DEF StatusMatchesDecision, CloseInv
  <2> QED BY <1>2, <2>1, <2>2 DEF StatusMatchesDecision
<1>5. OfferedAsDecided'
  <2>1. ASSUME NEW l \in S
        PROVE  listed'[l] = [b2b |-> Stored(split[l]).sell,
                             ngo |-> Stored(split[l]).donate]
    <3>1. listed[l] = Nothing BY <1>1, <1>2 DEF CloseInv, OfferedAsDecided
    <3>2. /\ Stored(split[l]).sell \in Nat /\ Stored(split[l]).donate \in Nat
          /\ Stored(split[l]).sell = Round3(split[l].sell)
          /\ Stored(split[l]).donate = Round3(split[l].donate)
      BY <1>1, StoredIsSplit DEF Split
    <3>3. listed[l].b2b = 0 /\ listed[l].ngo = 0 BY <3>1 DEF Nothing
    <3>4. /\ listed[l].b2b + Round3(split[l].sell) = Stored(split[l]).sell
          /\ listed[l].ngo + Round3(split[l].donate) = Stored(split[l]).donate
      BY <3>2, <3>3
    <3> QED BY <1>2, <3>4
  <2>2. ASSUME NEW l \in Leftover \ S
        PROVE  listed'[l] = IF decided'[l] = Undecided THEN Nothing
                            ELSE [b2b |-> decided'[l].split.sell,
                                  ngo |-> decided'[l].split.donate]
    BY <1>3 DEF OfferedAsDecided, CloseInv
  <2>3. ASSUME NEW l \in S
        PROVE  listed'[l] = IF decided'[l] = Undecided THEN Nothing
                            ELSE [b2b |-> decided'[l].split.sell,
                                  ngo |-> decided'[l].split.donate]
    BY <1>2, <2>1
  <2> HIDE DEF S
  <2> QED BY <2>2, <2>3 DEF OfferedAsDecided
<1>6. SplitIsSound'
  <2>1. ASSUME NEW l \in S
        PROVE  /\ Total(Stored(split[l])) - leftover'[l].qty
                     \in -StoredTolerance .. StoredTolerance
               /\ Offers(split[l]) => request[u].at < leftover'[l].safeUntil
    <3>1. leftover[l] \in Row BY <1>1 DEF TypeOK
    <3>2. leftover'[l].qty = leftover[l].qty
            /\ leftover'[l].safeUntil = leftover[l].safeUntil
      BY <1>2, <3>1 DEF Row
    <3>3. request[u].step = "commit" BY DEF WriteCommit
    <3>4. leftover[l].qty \in Nat /\ AddsUp(split[l], leftover[l].qty)
            /\ (Offers(split[l]) => request[u].at < leftover[l].safeUntil)
      BY <1>1, <3>1, <3>3 DEF Backed, Row
    <3> QED BY <1>1, <3>2, <3>4, StoredAddsUp
  <2>2. ASSUME NEW l \in Leftover \ S, decided'[l] # Undecided
        PROVE  /\ Total(decided'[l].split) - leftover'[l].qty
                     \in -StoredTolerance .. StoredTolerance
               /\ Offers(decided'[l].sent) => decided'[l].at < leftover'[l].safeUntil
    BY <1>3, <2>2 DEF SplitIsSound, CloseInv
  <2> QED BY <1>2, <2>1, <2>2 DEF SplitIsSound
<1> QED BY <1>4, <1>5, <1>6

LEMMA SetReuseStatusKeeps ==
  ASSUME TypeOK, CloseInv, NEW u \in User, SetReuseStatus(u)
  PROVE  StatusMatchesDecision' /\ OfferedAsDecided' /\ SplitIsSound'
<1> DEFINE k == request[u].leftover
<1>1. request[u] \in Reuse /\ k \in Leftover
  BY ReuseShape DEF SetReuseStatus, Reuse
<1>2. decided[k] # Undecided /\ decided[k].sent.retain > 0
  BY DEF CloseInv, ReuseIsBacked, SetReuseStatus
<1>3. UNCHANGED <<decided, listed>> BY DEF SetReuseStatus
<1>4. leftover[k] \in Row BY <1>1 DEF TypeOK
<1>5. leftover'[k] = [leftover[k] EXCEPT !.status =
                        StatusAfterReuse(request[u].qty, request[u].retain)]
  BY <1>1 DEF SetReuseStatus, TypeOK
<1>6. /\ leftover'[k].status \in {"closed", "awaiting_reuse"}
      /\ leftover'[k].qty = leftover[k].qty
      /\ leftover'[k].safeUntil = leftover[k].safeUntil
  BY <1>4, <1>5 DEF Row, StatusAfterReuse
<1>7. \A l \in Leftover \ {k} : leftover'[l] = leftover[l]
  BY DEF SetReuseStatus, TypeOK
<1>8. StatusMatchesDecision'
  BY <1>2, <1>3, <1>6, <1>7 DEF StatusMatchesDecision, CloseInv
<1>9. OfferedAsDecided'
  BY <1>3 DEF OfferedAsDecided, CloseInv
<1>10. SplitIsSound'
  BY <1>3, <1>6, <1>7 DEF SplitIsSound, CloseInv
<1> QED BY <1>8, <1>9, <1>10

LEMMA RecordKeeps ==
  ASSUME TypeOK, CloseInv, NEW u \in User, NEW l \in Leftover,
         NEW qty, NEW safeUntil, RecordLeftover(u, l, qty, safeUntil)
  PROVE  StatusMatchesDecision' /\ OfferedAsDecided' /\ SplitIsSound'
<1>1. decided[l] = Undecided
  BY DEF RecordLeftover, CloseInv, StatusMatchesDecision
<1>2. /\ leftover'[l].status = "pending_disposition"
      /\ \A k \in Leftover \ {l} : leftover'[k] = leftover[k]
      /\ UNCHANGED <<decided, listed>>
  BY DEF RecordLeftover, TypeOK
<1> QED
  BY <1>1, <1>2 DEF StatusMatchesDecision, OfferedAsDecided, SplitIsSound, CloseInv

LEMMA UserKeeps ==
  ASSUME TypeOK, CloseInv, NEW u \in User, UserStep(u)
  PROVE  CloseInv'
<1>1. StatusMatchesDecision' /\ OfferedAsDecided' /\ SplitIsSound'
  <2>1. CASE \E l \in Leftover, qty \in Quantities, safeUntil \in 0..MaxSafe :
               RecordLeftover(u, l, qty, safeUntil)
    BY <2>1, RecordKeeps
  <2>2. CASE WriteCommit(u)
    BY <2>2, WriteCommitKeeps
  <2>3. CASE SetReuseStatus(u)
    BY <2>3, SetReuseStatusKeeps
  <2>4. CASE UNCHANGED <<leftover, decided, listed>>
    BY <2>4 DEF CloseInv, StatusMatchesDecision, OfferedAsDecided, SplitIsSound
  <2> QED
    BY <2>1, <2>2, <2>3, <2>4
    DEF UserStep, ReadCommit, CommitRejected, ReadReuse, InsertReuseConfirmation,
        LoseRequest
<1>2. ReuseIsBacked' /\ CommitIsBacked'
  BY UserBacked, BackedIs DEF ReuseIsBacked, CommitIsBacked, Backed
<1>3. ReusedWasKept'
  <2>1. CASE InsertReuseConfirmation(u)
    <3>1. request[u] \in Reuse /\ request[u].step = "confirm"
      BY <2>1, ReuseShape DEF InsertReuseConfirmation
    <3>2. LET l == request[u].leftover
          IN decided[l] # Undecided /\ decided[l].sent.retain > 0
      BY <3>1 DEF CloseInv, ReuseIsBacked
    <3>3. /\ decided' = decided
          /\ \A l \in Leftover \ {request[u].leftover} : confirmed'[l] = confirmed[l]
      BY <2>1 DEF InsertReuseConfirmation, TypeOK
    <3> QED BY <3>2, <3>3 DEF ReusedWasKept, CloseInv
  <2>2. CASE confirmed' = confirmed
    <3>1. \A l \in Leftover : Lasting(l) BY LeftoversLast
    <3> QED BY <2>2, <3>1 DEF ReusedWasKept, CloseInv, Lasting
  <2> QED
    BY <2>1, <2>2
    DEF UserStep, RecordLeftover, ReadCommit, WriteCommit, CommitRejected,
        ReadReuse, SetReuseStatus, LoseRequest
<1> QED BY <1>1, <1>2, <1>3 DEF CloseInv

(***************************************************************************)
(* The inductive invariant of the close: whatever requests read stays true *)
(* until they write, because splits and quantities are never changed.      *)
(***************************************************************************)
THEOREM CloseInvariant == Spec => []CloseInv
<1>1. TypeOK /\ CloseInv /\ [Next]_vars => CloseInv'
  <2>1. ASSUME CloseInv, Tick PROVE CloseInv'
    BY <2>1
    DEF Tick, CloseInv, StatusMatchesDecision, OfferedAsDecided, SplitIsSound,
        ReuseIsBacked, CommitIsBacked, ReusedWasKept
  <2>2. ASSUME CloseInv, UNCHANGED vars PROVE CloseInv'
    BY <2>2
    DEF vars, CloseInv, StatusMatchesDecision, OfferedAsDecided, SplitIsSound,
        ReuseIsBacked, CommitIsBacked, ReusedWasKept
  <2> QED BY <2>1, <2>2, UserKeeps DEF Next
<1> QED BY CloseInit, <1>1, TypeCorrect, PTL DEF Spec

(***************************************************************************)
(* The status column never contradicts the dispositions, although a reuse  *)
(* confirmation writes it unconditionally.                                 *)
(***************************************************************************)
THEOREM StatusFollowsDecision == Spec => []StatusMatchesDecision
<1>1. CloseInv => StatusMatchesDecision BY DEF CloseInv
<1> QED BY CloseInvariant, <1>1, PTL

(***************************************************************************)
(* Overlapping closes never offer the same food twice.                     *)
(***************************************************************************)
THEOREM OfferedOnce == Spec => []OfferedAsDecided
<1>1. CloseInv => OfferedAsDecided BY DEF CloseInv
<1> QED BY CloseInvariant, <1>1, PTL

(***************************************************************************)
(* A split accounts for what was recorded, up to the tolerance of the      *)
(* close and the rounding of its four parts, and never promises food that  *)
(* was off when the close began. That it accounts for it exactly is false. *)
(***************************************************************************)
THEOREM SplitsAreSound == Spec => []SplitIsSound
<1>1. CloseInv => SplitIsSound BY DEF CloseInv
<1> QED BY CloseInvariant, <1>1, PTL

-----------------------------------------------------------------------------
LEMMA WriteCommitRefines ==
  ASSUME TypeOK, CloseInv, NEW u \in User, WriteCommit(u)
  PROVE  Abstract!Next
<1>0. PICK S \in (SUBSET Leftover) \ {{}} :
        DOMAIN request[u].split = S /\ request[u].split \in [S -> Splits]
  BY CommitShape DEF WriteCommit
<1>1. PICK split \in [S -> Splits] : request[u].split = split /\ DOMAIN request[u].split = S
  BY <1>0
<1>2. ASSUME NEW l \in S
      PROVE  /\ decided[l] = Undecided
             /\ decided'[l] # Undecided
             /\ decided'[l].sent = split[l]
             /\ listed'[l] = [b2b |-> Promise(split[l]).sell,
                              ngo |-> Promise(split[l]).donate]
  <2>0. split[l] \in Splits /\ request[u].at \in Nat
    BY <1>1, CommitShape DEF WriteCommit
  <2>1. NewDisposition(split[l], request[u].at) # Undecided
    BY <2>0, StoredIsSplit, SplitsAssumption DEF NewDisposition, Disposition
  <2>2. decided[l] = Undecided
          /\ decided'[l] = NewDisposition(split[l], request[u].at)
    BY <1>1 DEF WriteCommit, InsertDispositions
  <2>3. OfferedAsDecided' BY WriteCommitKeeps
  <2>4. listed'[l] = [b2b |-> decided'[l].split.sell, ngo |-> decided'[l].split.donate]
    BY <1>1, <2>1, <2>2, <2>3 DEF OfferedAsDecided
  <2> QED BY <2>0, <2>1, <2>2, <2>4, StoredIsSplit DEF NewDisposition, Promise
<1>3. ASSUME NEW l \in Leftover \ S
      PROVE  decided'[l] = decided[l] /\ listed'[l] = listed[l]
  BY <1>1 DEF WriteCommit, InsertDispositions
<1> DEFINE promise == [l \in S |-> Promise(split[l])]
<1>4. Abstract!Decide(S, promise)
  <2>1. listed' = [l \in Leftover |->
          IF l \in S THEN [b2b |-> promise[l].sell, ngo |-> promise[l].donate]
          ELSE listed[l]]
    <3>1. listed' = [l \in Leftover |-> listed'[l]]
      BY DEF WriteCommit
    <3> QED BY <1>2, <1>3, <3>1
  <2>2. \A l \in S : decided[l] = Undecided BY <1>2
  <2>3. \A l \in Leftover :
          (IF decided'[l] = Undecided THEN Undecided ELSE Promise(decided'[l].sent)) =
            IF l \in S THEN promise[l]
            ELSE IF decided[l] = Undecided THEN Undecided ELSE Promise(decided[l].sent)
    BY <1>2, <1>3
  <2>4. confirmed' = confirmed BY DEF WriteCommit
  <2> HIDE DEF promise
  <2> QED BY <1>1, <2>1, <2>2, <2>3, <2>4 DEF Abstract!Decide
<1>5. promise \in [S -> {Promise(s) : s \in Splits}]
  BY <1>1
<1> QED BY <1>4, <1>5 DEF Abstract!Next

\* A confirmation that rounds to nothing changes nothing that was promised.
LEMMA ConfirmationRefines ==
  ASSUME TypeOK, CloseInv, NEW u \in User, InsertReuseConfirmation(u)
  PROVE  Abstract!Next \/ UNCHANGED Abstract!vars
<1>1. PICK k \in Leftover : request[u].leftover = k
  BY ReuseShape DEF InsertReuseConfirmation, Reuse
<1>2. decided[k] # Undecided /\ decided[k].sent.retain > 0
  BY <1>1 DEF CloseInv, ReuseIsBacked, InsertReuseConfirmation
<1>3. PICK q \in Nat : q = Round3(request[u].qty)
  BY ReuseShape, RoundIsNear DEF InsertReuseConfirmation, Reuse
<1>4. /\ confirmed' = [confirmed EXCEPT ![k] = @ + q]
      /\ confirmed \in [Leftover -> Nat]
      /\ UNCHANGED <<decided, listed>>
  BY <1>1, <1>3 DEF InsertReuseConfirmation, TypeOK
<1>5. CASE q = 0
  <2>1. confirmed' = confirmed BY <1>4, <1>5
  <2> QED BY <1>4, <2>1 DEF Abstract!vars
<1>6. CASE q > 0
  <2> DEFINE decision == [l \in Leftover |->
                IF decided[l] = Undecided THEN Undecided ELSE Promise(decided[l].sent)]
  <2>1. {l \in Leftover : confirmed'[l] > 0} = {l \in Leftover : confirmed[l] > 0} \cup {k}
    BY <1>4, <1>6
  <2>2. decision[k] = Promise(decided[k].sent) BY <1>2
  <2>3. decision[k] # Undecided
    <3>1. decided[k].sent \in Split
      BY <1>2, SplitsAssumption DEF TypeOK, Disposition
    <3>2. Promise(decided[k].sent) \in Promises
      <4>1. PICK a \in Nat, b \in Nat :
              a = Round3(decided[k].sent.sell) /\ b = Round3(decided[k].sent.donate)
        BY <3>1, RoundIsNear DEF Split
      <4>2. Promise(decided[k].sent) =
              [sell |-> a, donate |-> b, retain |-> decided[k].sent.retain]
        BY <4>1 DEF Promise
      <4> QED BY <3>1, <4>2 DEF Promises, Split
    <3> QED BY <2>2, <3>2, SplitsAssumption
  <2>4. decision[k].retain > 0 BY <1>2, <2>2 DEF Promise
  <2>5. decision' = decision /\ listed' = listed BY <1>4
  <2> HIDE DEF decision
  <2>6. Abstract!Reuse(k)
    BY <2>1, <2>3, <2>4, <2>5 DEF Abstract!Reuse, decision
  <2> QED BY <2>6 DEF Abstract!Next
<1> QED BY <1>5, <1>6

(***************************************************************************)
(* The close implements "split once, together, and offer what was split".  *)
(***************************************************************************)
THEOREM CloseImplementsSplitOnce == Spec => ImplementsSplitOnce
<1>1. Init => Abstract!Init
  BY DEF Init, Abstract!Init, Abstract!Nothing, Nothing
<1>2. TypeOK /\ CloseInv /\ [Next]_vars => [Abstract!Next]_(Abstract!vars)
  <2>1. ASSUME UNCHANGED <<decided, listed, confirmed>>
        PROVE  UNCHANGED Abstract!vars
    BY <2>1 DEF Abstract!vars
  <2>2. ASSUME TypeOK, CloseInv, NEW u \in User, UserStep(u)
        PROVE  [Abstract!Next]_(Abstract!vars)
    BY <2>1, <2>2, WriteCommitRefines, ConfirmationRefines
    DEF UserStep, RecordLeftover, ReadCommit, CommitRejected, ReadReuse,
        SetReuseStatus, LoseRequest
  <2> QED BY <2>1, <2>2 DEF Next, Tick, vars
<1> QED
  BY <1>1, <1>2, TypeCorrect, CloseInvariant, PTL
  DEF Spec, ImplementsSplitOnce, Abstract!Spec

-----------------------------------------------------------------------------
(***************************************************************************)
(* What is suggested, for any recorded quantity, any dish, any answer of   *)
(* the agent and any rounding.                                             *)
(***************************************************************************)
\* Rounding a number of hundredths between nothing and n units gives between
\* nothing and n units.
LEMMA RoundStays ==
  ASSUME NEW x \in Int, NEW n \in Nat
  PROVE  Round3(Between(x, 0, 100 * n)) \in 0 .. n
<1> DEFINE y == Between(x, 0, 100 * n)
<1>1. y \in Int /\ 0 <= y /\ y <= 100 * n
  BY DEF Between, Least, Most
<1>2. (y + 50) \div 100 \in Int /\ 0 <= (y + 50) \div 100 /\ (y + 50) \div 100 <= n
  BY <1>1
<1> QED BY <1>2 DEF Round3

\* What clampSplit returns is an allocation of just the recorded quantity.
LEMMA ClampSplitAddsUp ==
  ASSUME NEW qty \in Nat, NEW retain \in Int, NEW sell \in Int, NEW donate \in Int
  PROVE  /\ IsAllocation(ClampSplit(qty, retain, sell, donate))
         /\ Total(ClampSplit(qty, retain, sell, donate)) = qty
<1> DEFINE kept == Round3(Between(retain, 0, 100 * qty))
           sold == Round3(Between(sell, 0, 100 * (qty - kept)))
           given == Round3(Between(donate, 0, 100 * (qty - kept - sold)))
<1>1. kept \in 0 .. qty
  BY RoundStays
<1>2. qty - kept \in Nat
  BY <1>1
<1>3. sold \in 0 .. qty - kept
  BY <1>2, RoundStays
<1>4. qty - kept - sold \in Nat
  BY <1>2, <1>3
<1>5. given \in 0 .. qty - kept - sold
  BY <1>4, RoundStays
<1>6. ClampSplit(qty, retain, sell, donate) =
        [retain |-> kept, sell |-> sold, donate |-> given, waste |-> qty - kept - sold - given]
  BY DEF ClampSplit
<1> HIDE DEF kept, sold, given
<1> QED BY <1>1, <1>2, <1>3, <1>4, <1>5, <1>6 DEF IsAllocation, Total, Split

\* Every answer of the agent is none or three whole quantities.
LEMMA AnswerShape ==
  ASSUME NEW row \in Row, NEW dish \in DishKinds, NEW answer \in Answers(row, dish), now \in Nat
  PROVE  answer = Unavailable \/
         (answer.retain \in Int /\ answer.sell \in Int /\ answer.donate \in Int)
<1> USE LimitsAssumption, SuggestionAssumption
<1>1. CASE answer \in ModelEstimates(row.qty)
  BY <1>1 DEF ModelEstimates, Row
<1>2. ASSUME NEW past \in {{}} \cup {{p} : p \in 0 .. row.qty + 1},
             answer = DeterministicEstimate(row, dish, past)
      PROVE  answer.retain \in Int /\ answer.sell \in Int /\ answer.donate \in Int
  <2> DEFINE retain == DeterministicRetain(row, dish, past)
             rest == row.qty - retain
             sell == IF row.safeUntil - now > NgoBuffer THEN Round3(70 * rest) ELSE 0
  <2>1. row.qty \in Nat
    BY DEF Row
  <2>2. retain \in Int
    <3>1. CASE past = {}
      BY <2>1, <3>1 DEF DeterministicRetain, Round3
    <3>2. ASSUME NEW p \in 0 .. row.qty + 1, past = {p}
          PROVE  retain \in Int
      <4>1. {Least(row.qty, q) : q \in past} = {Least(row.qty, p)}
        BY <3>2
      <4>2. Least(row.qty, p) \in Int
        BY <2>1 DEF Least
      <4>3. (CHOOSE q \in {Least(row.qty, p)} : TRUE) = Least(row.qty, p)
        OBVIOUS
      <4> QED BY <3>2, <4>1, <4>2, <4>3 DEF DeterministicRetain
    <3> QED BY <1>2, <3>1, <3>2
  <2>3. rest \in Int
    BY <2>1, <2>2
  <2>4. sell \in Int
    BY <2>3 DEF Round3
  <2>5. answer = [retain |-> retain, sell |-> sell, donate |-> rest - sell]
    BY <1>2 DEF DeterministicEstimate
  <2> HIDE DEF retain, rest, sell
  <2> QED BY <2>2, <2>3, <2>4, <2>5
<1> QED BY <1>1, <1>2 DEF Answers

\* Whatever the agent answers, the suggestion is an allocation of the whole
\* quantity.
LEMMA SuggestionAddsUp ==
  ASSUME NEW row \in Row, NEW dish \in DishKinds, NEW answer \in Answers(row, dish), now \in Nat
  PROVE  /\ IsAllocation(SuggestDisposition(row, dish, answer))
         /\ Total(SuggestDisposition(row, dish, answer)) = row.qty
<1>1. row.qty \in Nat
  BY DEF Row
<1>2. CASE row.safeUntil - now < NgoBuffer
  BY <1>1, <1>2 DEF SuggestDisposition, PastSafeWindow, IsAllocation, Total, Split
<1>3. CASE ~(row.safeUntil - now < NgoBuffer) /\ answer = Unavailable
  <2> DEFINE retain == IF dish.reusable THEN 40 * row.qty ELSE 0
             rest == 100 * row.qty - retain
             sell == 100 * Round3((rest * 70) \div 100)
  <2>1. retain \in Int /\ rest \in Int
    BY <1>1
  <2>2. (rest * 70) \div 100 \in Int
    BY <2>1
  <2>3. sell \in Int
    BY <2>2 DEF Round3
  <2>4. SuggestDisposition(row, dish, answer) = ClampSplit(row.qty, retain, sell, rest - sell)
    BY <1>3 DEF SuggestDisposition, LocalFallback
  <2> HIDE DEF retain, rest, sell
  <2>5. rest - sell \in Int
    BY <2>1, <2>3
  <2>6. /\ IsAllocation(ClampSplit(row.qty, retain, sell, rest - sell))
        /\ Total(ClampSplit(row.qty, retain, sell, rest - sell)) = row.qty
    BY <1>1, <2>1, <2>3, <2>5, ClampSplitAddsUp
  <2> QED BY ONLY <2>4, <2>6
<1>4. CASE ~(row.safeUntil - now < NgoBuffer) /\ answer # Unavailable
  <2>1. answer.retain \in Int /\ answer.sell \in Int /\ answer.donate \in Int
    BY <1>4, AnswerShape
  <2>2. SuggestDisposition(row, dish, answer) =
          ClampSplit(row.qty, 100 * answer.retain, 100 * answer.sell, 100 * answer.donate)
    BY <1>4 DEF SuggestDisposition, FromEstimate
  <2>3. 100 * answer.retain \in Int /\ 100 * answer.sell \in Int /\ 100 * answer.donate \in Int
    BY <2>1
  <2> DEFINE a == 100 * answer.retain
             b == 100 * answer.sell
             c == 100 * answer.donate
  <2>4. a \in Int /\ b \in Int /\ c \in Int /\ SuggestDisposition(row, dish, answer) = ClampSplit(row.qty, a, b, c)
    BY <2>2, <2>3
  <2> HIDE DEF a, b, c
  <2>5. IsAllocation(ClampSplit(row.qty, a, b, c)) /\ Total(ClampSplit(row.qty, a, b, c)) = row.qty
    BY <1>1, <2>4, ClampSplitAddsUp
  <2> QED BY <2>4, <2>5, Zenon
<1> QED BY <1>2, <1>3, <1>4

(***************************************************************************)
(* A suggestion taken over as it stands is accepted by the close while     *)
(* somebody can still come for the food.                                   *)
(***************************************************************************)
THEOREM SuggestionsAccepted == Spec => []SuggestionIsAccepted
<1>1. TypeOK /\ CloseInv => SuggestionIsAccepted
  <2> SUFFICES ASSUME TypeOK, CloseInv, NEW l \in Leftover,
                      leftover[l].status = "pending_disposition",
                      NEW dish \in DishKinds, NEW answer \in Answers(leftover[l], dish)
               PROVE  LET s == SuggestDisposition(leftover[l], dish, answer)
                      IN  /\ IsAllocation(s)
                          /\ MaySplit(l, AsSent(s))
                          /\ Offers(s) => now + NgoBuffer <= leftover[l].safeUntil
    BY DEF SuggestionIsAccepted
  <2> DEFINE s == SuggestDisposition(leftover[l], dish, answer)
  <2>1. leftover[l] \in Row /\ now \in Nat
    BY DEF TypeOK
  <2>2. IsAllocation(s) /\ Total(s) = leftover[l].qty
    BY <2>1, SuggestionAddsUp
  <2>3. decided[l] = Undecided
    BY DEF CloseInv, StatusMatchesDecision
  <2>4. AddsUp(AsSent(s), leftover[l].qty)
    <3>1. PICK a \in Nat, b \in Nat, c \in Nat, d \in Nat :
            s.retain = a /\ s.sell = b /\ s.donate = c /\ s.waste = d
      BY <2>2 DEF IsAllocation, Split
    <3>2. leftover[l].qty \in Nat /\ SplitTolerance \in Nat
      BY <2>1, LimitsAssumption DEF Row
    <3>3. a + b + c + d = leftover[l].qty
      BY <2>2, <3>1 DEF Total
    <3>4. Total(AsSent(s)) = 100 * a + 100 * b + 100 * c + 100 * d
      BY <3>1 DEF Total, AsSent
    <3>5. Total(AsSent(s)) - 100 * leftover[l].qty = 0
      BY <3>2, <3>3, <3>4
    <3> QED BY <3>2, <3>5 DEF AddsUp
  <2>5. Offers(s) => now + NgoBuffer <= leftover[l].safeUntil
    <3>1. leftover[l].safeUntil - now < NgoBuffer => ~Offers(s)
      BY DEF SuggestDisposition, PastSafeWindow, Offers
    <3> QED BY <2>1, <3>1, SuggestionAssumption DEF Row
  <2>6. Offers(AsSent(s)) => now < leftover[l].safeUntil
    <3>1. s.sell \in Nat /\ s.donate \in Nat
      BY <2>2 DEF IsAllocation, Split
    <3>2. Offers(AsSent(s)) => Offers(s)
      BY <3>1 DEF Offers, AsSent
    <3> QED BY <2>1, <2>5, <3>2, SuggestionAssumption DEF Row
  <2> QED BY <2>2, <2>3, <2>4, <2>5, <2>6 DEF MaySplit
<1> QED BY <1>1, TypeCorrect, CloseInvariant, PTL

-----------------------------------------------------------------------------
(***************************************************************************)
(* What the dashboard, the charts and the reports say, for any number of   *)
(* leftovers, dishes and days. What they rest on: a recorded leftover is   *)
(* of some quantity, and splits are sound.                                 *)
(***************************************************************************)
SomeOfEach == \A l \in Leftover : leftover[l].status # "absent" => leftover[l].qty > 0

LEMMA SomeOfEachKept ==
  ASSUME TypeOK, CloseInv, SomeOfEach, [Next]_vars
  PROVE  SomeOfEach'
<1> SUFFICES ASSUME NEW k \in Leftover, leftover'[k].status # "absent"
             PROVE  leftover'[k].qty > 0
  BY DEF SomeOfEach
<1>1. CASE leftover' = leftover
  BY <1>1 DEF SomeOfEach
<1>2. ASSUME NEW u \in User, UserStep(u), leftover[k].status # "absent"
      PROVE  leftover'[k].qty > 0
  BY <1>2, LeftoversLast DEF Lasting, SomeOfEach
<1>3. ASSUME NEW u \in User, UserStep(u), leftover[k].status = "absent"
      PROVE  leftover'[k].qty > 0
  <2>1. CASE \E l \in Leftover, qty \in Quantities, safeUntil \in 0..MaxSafe :
               RecordLeftover(u, l, qty, safeUntil)
    <3>1. PICK l \in Leftover, qty \in Quantities, safeUntil \in 0..MaxSafe :
            RecordLeftover(u, l, qty, safeUntil)
      BY <2>1
    <3>2. k = l
      BY <1>3, <3>1 DEF RecordLeftover, TypeOK
    <3>3. leftover'[k].qty = qty
      BY <3>1, <3>2 DEF RecordLeftover, TypeOK
    <3> QED BY <3>3, LimitsAssumption
  <2>2. CASE WriteCommit(u)
    <3>1. k \notin DOMAIN request[u].split
      BY <1>3, <2>2, BackedIs DEF CloseInv, Backed, WriteCommit
    <3>2. leftover'[k] = leftover[k]
      BY <2>2, <3>1 DEF WriteCommit
    <3> QED BY <1>3, <3>2
  <2>3. CASE SetReuseStatus(u)
    <3>1. request[u].leftover # k
      BY <1>3, <2>3 DEF CloseInv, ReuseIsBacked, StatusMatchesDecision, SetReuseStatus
    <3>2. leftover'[k] = leftover[k]
      BY <2>3, <3>1 DEF SetReuseStatus, TypeOK
    <3> QED BY <1>3, <3>2
  <2>4. CASE leftover' = leftover
    BY <1>3, <2>4
  <2> QED
    BY <1>3, <2>1, <2>2, <2>3, <2>4
    DEF UserStep, ReadCommit, CommitRejected, ReadReuse, InsertReuseConfirmation, LoseRequest
<1> QED BY <1>1, <1>2, <1>3 DEF Next, Tick, vars

\* What a report reads of a leftover.
LEMMA ReportTypes ==
  ASSUME TypeOK, NEW l \in Leftover
  PROVE  /\ WeightPerUnit(l) \in Nat /\ leftover[l].qty \in Nat
         /\ ShareOf(l) \in [retain : Nat, sell : Nat, donate : Nat, waste : Nat]
<1>1. WeightPerUnit(l) \in Nat BY AnalyticsAssumption DEF WeightPerUnit
<1>2. leftover[l].qty \in Nat BY DEF TypeOK, Row
<1>3. CASE decided[l] = Undecided BY <1>1, <1>2, <1>3 DEF ShareOf
<1>4. CASE decided[l] # Undecided
  <2>1. decided[l].split \in Split BY <1>4 DEF TypeOK, Disposition
  <2> QED BY <1>1, <1>2, <1>4, <2>1 DEF ShareOf, Split
<1> QED BY <1>3, <1>4

\* The terms of Weighed.
Weight(part) == [l \in Leftover |-> part[l] * WeightPerUnit(l)]

Retained == [l \in Leftover |-> ShareOf(l).retain]
Sold == [l \in Leftover |-> ShareOf(l).sell]
Donated == [l \in Leftover |-> ShareOf(l).donate]
Binned == [l \in Leftover |-> ShareOf(l).waste]

Parts == {Recorded, Retained, Sold, Donated, Binned}

LEMMA PartsAreQuantities ==
  ASSUME TypeOK, NEW part \in Parts
  PROVE  part \in [Leftover -> Nat] /\ Weight(part) \in [Leftover -> Nat]
<1>1. part \in [Leftover -> Nat]
  BY ReportTypes DEF Parts, Recorded, Retained, Sold, Donated, Binned
<1>2. ASSUME NEW l \in Leftover PROVE part[l] * WeightPerUnit(l) \in Nat
  <2>1. PICK q \in Nat, g \in Nat : q = part[l] /\ g = WeightPerUnit(l)
    BY <1>1, ReportTypes
  <2>2. q * g \in Nat OBVIOUS
  <2> QED BY <2>1, <2>2
<1> QED BY <1>1, <1>2 DEF Weight

LEMMA FiguresAre ==
  ASSUME NEW S
  PROVE  Figures(S) = [leftover |-> SumFunctionOnSet(Weight(Recorded), S),
                       reused |-> SumFunctionOnSet(Weight(Retained), S),
                       sold |-> SumFunctionOnSet(Weight(Sold), S),
                       donated |-> SumFunctionOnSet(Weight(Donated), S),
                       binned |-> SumFunctionOnSet(Weight(Binned), S)]
  BY DEF Figures, Weighed, Weight, Retained, Sold, Donated, Binned

LEMMA WeightsAddUp ==
  ASSUME TypeOK, NEW part \in Parts, NEW S \in SUBSET Leftover
  PROVE  /\ IsFiniteSet(S) /\ \A l \in S : Weight(part)[l] \in Int
         /\ SumFunctionOnSet(Weight(part), S) \in Nat
<1>1. IsFiniteSet(S) BY AnalyticsAssumption, FS_Subset
<1>2. PICK f : f = Weight(part) OBVIOUS
<1>3. \A l \in S : f[l] \in Nat BY <1>2, PartsAreQuantities
<1>4. SumFunctionOnSet(f, S) \in Nat BY <1>1, <1>3, SumNat
<1> QED BY <1>1, <1>2, <1>3, <1>4

LEMMA FiguresType ==
  ASSUME TypeOK, NEW S \in SUBSET Leftover
  PROVE  /\ Figures(S) \in [leftover : Nat, reused : Nat, sold : Nat, donated : Nat, binned : Nat]
         /\ Figures(S) # NaN
<1>1. /\ SumFunctionOnSet(Weight(Recorded), S) \in Nat
      /\ SumFunctionOnSet(Weight(Retained), S) \in Nat
      /\ SumFunctionOnSet(Weight(Sold), S) \in Nat
      /\ SumFunctionOnSet(Weight(Donated), S) \in Nat
      /\ SumFunctionOnSet(Weight(Binned), S) \in Nat
  BY WeightsAddUp DEF Parts
<1>2. Figures(S) \in [leftover : Nat, reused : Nat, sold : Nat, donated : Nat, binned : Nat]
  BY <1>1, FiguresAre
<1>3. Figures(S) \in [leftover : Int, reused : Int, sold : Int, donated : Int, binned : Int]
  BY <1>1, FiguresAre
<1> QED BY <1>2, <1>3, AnalyticsAssumption

\* What is within a tolerance stays within it by weight.
LEMMA WithinByWeight ==
  ASSUME NEW x \in Int, NEW t \in Nat, NEW g \in Nat, x \in -t .. t
  PROVE  t * g \in Nat /\ x * g \in Int /\ t * g + x * g \in Nat /\ t * g - x * g \in Nat
<1>1. t + x \in Nat /\ t - x \in Nat OBVIOUS
<1>2. (t + x) * g \in Nat /\ (t - x) * g \in Nat /\ t * g \in Nat /\ x * g \in Int BY <1>1
<1>3. (t + x) * g = t * g + x * g /\ (t - x) * g = t * g - x * g OBVIOUS
<1> QED BY <1>2, <1>3

\* What is missing or too much of a leftover on the dashboard.
LEMMA LeftoverAccounted ==
  ASSUME TypeOK, SplitIsSound, NEW l \in Leftover
  PROVE  LET g == WeightPerUnit(l)
             open == IF decided[l] = Undecided THEN leftover[l].qty ELSE 0
             rest == leftover[l].qty * g - ShareOf(l).retain * g - ShareOf(l).sell * g
                       - ShareOf(l).donate * g - ShareOf(l).waste * g - open * g
         IN  /\ rest \in Int /\ open * g \in Int /\ StoredTolerance * g \in Nat
             /\ StoredTolerance * g + rest \in Nat /\ StoredTolerance * g - rest \in Nat
<1>1. PICK q \in Nat, g \in Nat, s \in [retain : Nat, sell : Nat, donate : Nat, waste : Nat] :
        q = leftover[l].qty /\ g = WeightPerUnit(l) /\ s = ShareOf(l)
  BY ReportTypes
<1>2. PICK o \in Nat : o = IF decided[l] = Undecided THEN leftover[l].qty ELSE 0
  BY <1>1
<1>3. PICK x \in Int : x = q - s.retain - s.sell - s.donate - s.waste - o
  OBVIOUS
<1>4. x \in -StoredTolerance .. StoredTolerance
  <2>1. StoredTolerance \in Nat BY LimitsAssumption DEF StoredTolerance
  <2>2. CASE decided[l] = Undecided
    <3>1. x = 0 BY <1>1, <1>2, <1>3, <2>2 DEF ShareOf
    <3> QED BY <2>1, <3>1
  <2>3. CASE decided[l] # Undecided
    <3>1. s = decided[l].split /\ o = 0 BY <1>1, <1>2, <2>3 DEF ShareOf
    <3>2. Total(s) - q \in -StoredTolerance .. StoredTolerance
      BY <1>1, <2>3, <3>1 DEF SplitIsSound
    <3>3. x = -(Total(s) - q) /\ Total(s) \in Nat BY <1>3, <3>1 DEF Total
    <3> QED BY <2>1, <3>2, <3>3
  <2> QED BY <2>2, <2>3
<1>5. x * g = q * g - s.retain * g - s.sell * g - s.donate * g - s.waste * g - o * g
  BY <1>3
<1>6. StoredTolerance \in Nat BY LimitsAssumption DEF StoredTolerance
<1>7. /\ StoredTolerance * g \in Nat /\ x * g \in Int /\ o * g \in Int
      /\ StoredTolerance * g + x * g \in Nat /\ StoredTolerance * g - x * g \in Nat
  BY <1>4, <1>6, WithinByWeight
<1> QED BY <1>1, <1>2, <1>5, <1>7

\* The leftovers of a range are accounted for by weight, those not decided yet
\* apart, up to the tolerance of each of them.
LEMMA RangeAccounted ==
  ASSUME TypeOK, SplitIsSound, NEW S \in SUBSET Leftover
  PROVE  LET open == {l \in S : decided[l] = Undecided}
             slack == Weighed(S, [l \in Leftover |-> StoredTolerance])
             f == Figures(S)
         IN  f.leftover - RecoveredQty(f) - f.binned - Weighed(open, Recorded)
               \in -slack .. slack
<1> DEFINE open == {l \in S : decided[l] = Undecided}
<1>0. IsFiniteSet(S) /\ open \in SUBSET S BY AnalyticsAssumption, FS_Subset
<1>1. PICK q, r, s, d, w, o, t :
        /\ q = Weight(Recorded) /\ r = Weight(Retained) /\ s = Weight(Sold)
        /\ d = Weight(Donated) /\ w = Weight(Binned)
        /\ t = Weight([l \in Leftover |-> StoredTolerance])
        /\ o = [l \in Leftover |-> (IF decided[l] = Undecided THEN leftover[l].qty ELSE 0) * WeightPerUnit(l)]
  OBVIOUS
<1>2. ASSUME NEW l \in S
      PROVE  /\ q[l] \in Int /\ r[l] \in Int /\ s[l] \in Int /\ d[l] \in Int /\ w[l] \in Int
             /\ o[l] \in Int /\ t[l] \in Nat
             /\ t[l] + (q[l] - r[l] - s[l] - d[l] - w[l] - o[l]) \in Nat
             /\ t[l] - (q[l] - r[l] - s[l] - d[l] - w[l] - o[l]) \in Nat
  <2>1. /\ q[l] = leftover[l].qty * WeightPerUnit(l)
        /\ r[l] = ShareOf(l).retain * WeightPerUnit(l) /\ s[l] = ShareOf(l).sell * WeightPerUnit(l)
        /\ d[l] = ShareOf(l).donate * WeightPerUnit(l) /\ w[l] = ShareOf(l).waste * WeightPerUnit(l)
        /\ t[l] = StoredTolerance * WeightPerUnit(l)
        /\ o[l] = (IF decided[l] = Undecided THEN leftover[l].qty ELSE 0) * WeightPerUnit(l)
    BY <1>1 DEF Weight, Recorded, Retained, Sold, Donated, Binned
  <2>2. q[l] \in Int /\ r[l] \in Int /\ s[l] \in Int /\ d[l] \in Int /\ w[l] \in Int
    BY <1>1, WeightsAddUp DEF Parts
  <2> QED BY <2>1, <2>2, LeftoverAccounted
<1> DEFINE a1 == [l \in S |-> q[l] - r[l]]
           a2 == [l \in S |-> q[l] - r[l] - s[l]]
           a3 == [l \in S |-> q[l] - r[l] - s[l] - d[l]]
           a4 == [l \in S |-> q[l] - r[l] - s[l] - d[l] - w[l]]
           e == [l \in S |-> q[l] - r[l] - s[l] - d[l] - w[l] - o[l]]
<1>3. \A l \in S : /\ a1[l] = q[l] - r[l] /\ a2[l] = a1[l] - s[l] /\ a3[l] = a2[l] - d[l]
                   /\ a4[l] = a3[l] - w[l] /\ e[l] = a4[l] - o[l]
                   /\ a1[l] \in Int /\ a2[l] \in Int /\ a3[l] \in Int /\ a4[l] \in Int /\ e[l] \in Int
                   /\ t[l] + e[l] \in Nat /\ t[l] - e[l] \in Nat
  BY <1>2
<1> HIDE DEF a1, a2, a3, a4, e
<1>4. SumFunctionOnSet(a1, S) = SumFunctionOnSet(q, S) - SumFunctionOnSet(r, S)
  BY <1>0, <1>2, <1>3, SumMinus
<1>5. SumFunctionOnSet(a2, S) = SumFunctionOnSet(a1, S) - SumFunctionOnSet(s, S)
  BY <1>0, <1>2, <1>3, SumMinus
<1>6. SumFunctionOnSet(a3, S) = SumFunctionOnSet(a2, S) - SumFunctionOnSet(d, S)
  BY <1>0, <1>2, <1>3, SumMinus
<1>7. SumFunctionOnSet(a4, S) = SumFunctionOnSet(a3, S) - SumFunctionOnSet(w, S)
  BY <1>0, <1>2, <1>3, SumMinus
<1>8. SumFunctionOnSet(e, S) = SumFunctionOnSet(a4, S) - SumFunctionOnSet(o, S)
  BY <1>0, <1>2, <1>3, SumMinus
<1>9. /\ SumFunctionOnSet(q, S) \in Nat /\ SumFunctionOnSet(r, S) \in Nat
      /\ SumFunctionOnSet(s, S) \in Nat /\ SumFunctionOnSet(d, S) \in Nat
      /\ SumFunctionOnSet(w, S) \in Nat
  BY <1>1, WeightsAddUp DEF Parts
<1>10. SumFunctionOnSet(o, S) \in Int /\ SumFunctionOnSet(t, S) \in Nat /\ SumFunctionOnSet(e, S) \in Int
  <2>1. SumFunctionOnSet(o, S) \in Int BY <1>0, <1>2, SumType
  <2>2. SumFunctionOnSet(t, S) \in Nat BY <1>0, <1>2, SumNat
  <2>3. SumFunctionOnSet(e, S) \in Int BY <1>0, <1>3, SumType
  <2> QED BY <2>1, <2>2, <2>3
<1>11. SumFunctionOnSet(o, S) = SumFunctionOnSet(q, open)
  <2>1. \A l \in open : q[l] \in Int /\ o[l] = q[l]
    BY <1>1, <1>2 DEF Weight, Recorded
  <2>2. \A l \in S \ open : o[l] = 0
    <3> SUFFICES ASSUME NEW l \in S \ open PROVE o[l] = 0 OBVIOUS
    <3>1. o[l] = 0 * WeightPerUnit(l) BY <1>1
    <3> QED BY <3>1, ReportTypes
  <2> HIDE DEF open
  <2> QED BY <1>0, <2>1, <2>2, SumPart
<1>12. SumFunctionOnSet(e, S) \in -SumFunctionOnSet(t, S) .. SumFunctionOnSet(t, S)
  <2> DEFINE p == [l \in S |-> t[l] + e[l]]
             m == [l \in S |-> t[l] - e[l]]
  <2>1. \A l \in S : p[l] \in Nat /\ p[l] = t[l] + e[l] /\ m[l] \in Nat /\ m[l] = t[l] - e[l]
                     /\ t[l] \in Int /\ e[l] \in Int
    BY <1>2, <1>3
  <2> HIDE DEF p, m
  <2>2. SumFunctionOnSet(p, S) = SumFunctionOnSet(t, S) + SumFunctionOnSet(e, S)
    BY <1>0, <2>1, SumPlus
  <2>3. SumFunctionOnSet(m, S) = SumFunctionOnSet(t, S) - SumFunctionOnSet(e, S)
    BY <1>0, <2>1, SumMinus
  <2>4. SumFunctionOnSet(p, S) \in Nat /\ SumFunctionOnSet(m, S) \in Nat
    BY <1>0, <2>1, SumNat
  <2> QED BY <1>10, <2>2, <2>3, <2>4
<1>13. /\ Figures(S).leftover = SumFunctionOnSet(q, S) /\ Figures(S).reused = SumFunctionOnSet(r, S)
       /\ Figures(S).sold = SumFunctionOnSet(s, S) /\ Figures(S).donated = SumFunctionOnSet(d, S)
       /\ Figures(S).binned = SumFunctionOnSet(w, S)
  BY <1>1, FiguresAre
<1>14. /\ Weighed(S, [l \in Leftover |-> StoredTolerance]) = SumFunctionOnSet(t, S)
       /\ Weighed(open, Recorded) = SumFunctionOnSet(q, open)
  BY <1>1 DEF Weighed, Weight
<1>15. Figures(S).leftover - RecoveredQty(Figures(S)) - Figures(S).binned - SumFunctionOnSet(q, open)
         = SumFunctionOnSet(e, S)
  BY <1>4, <1>5, <1>6, <1>7, <1>8, <1>9, <1>10, <1>11, <1>13 DEF RecoveredQty
<1> QED BY <1>12, <1>14, <1>15

(***************************************************************************)
(* The dashboard accounts for every leftover once, whatever closes and     *)
(* confirmations overlap, and names the dishes without a weight exactly    *)
(* when there is some of one.                                              *)
(***************************************************************************)
THEOREM DashboardAddsUp == Spec => []DashboardAccountsForAll
<1>1. TypeOK /\ SplitIsSound /\ SomeOfEach => DashboardAccountsForAll
  <2> SUFFICES ASSUME TypeOK, SplitIsSound, SomeOfEach, NEW range \in Ranges
               PROVE  LET board == Dashboard(range)
                          open == {l \in InRange(range) : decided[l] = Undecided}
                          slack == Weighed(InRange(range), [l \in Leftover |-> StoredTolerance])
                      IN  /\ board.leftover - board.recovered - board.binned
                               - Weighed(open, Recorded) \in -slack .. slack
                          /\ board.unconvertible = 0 <=> Unweighed(InRange(range)) = {}
    BY DEF DashboardAccountsForAll
  <2>1. PICK S \in SUBSET Leftover : S = InRange(range) BY DEF InRange
  <2>2. /\ Dashboard(range).leftover = Figures(S).leftover
        /\ Dashboard(range).recovered = RecoveredQty(Figures(S))
        /\ Dashboard(range).binned = Figures(S).binned
        /\ Dashboard(range).unconvertible = SumFunctionOnSet(Recorded, Unweighed(S))
    BY <2>1 DEF Dashboard
  <2>3. SumFunctionOnSet(Recorded, Unweighed(S)) = 0 <=> Unweighed(S) = {}
    <3>1. PICK U \in SUBSET S : U = Unweighed(S) BY DEF Unweighed
    <3>2. PICK f : f = Recorded OBVIOUS
    <3>3. \A l \in U : f[l] \in Nat /\ f[l] # 0
      <4> SUFFICES ASSUME NEW l \in U PROVE f[l] \in Nat /\ f[l] # 0 OBVIOUS
      <4>1. l \in Leftover /\ leftover[l].status # "absent" BY <2>1, <3>1 DEF InRange
      <4>2. f[l] = leftover[l].qty BY <3>2, <4>1 DEF Recorded
      <4>3. leftover[l].qty \in Nat /\ leftover[l].qty > 0 BY <4>1, ReportTypes DEF SomeOfEach
      <4> QED BY <4>2, <4>3
    <3>4. IsFiniteSet(U) BY <2>1, <3>1, AnalyticsAssumption, FS_Subset
    <3>5. SumFunctionOnSet(f, U) = 0 <=> \A l \in U : f[l] = 0
      BY <3>3, <3>4, SumPositive
    <3> QED BY <3>1, <3>2, <3>3, <3>5
  <2> QED BY <2>1, <2>2, <2>3, RangeAccounted
<1>2. Init => SomeOfEach
  BY DEF Init, SomeOfEach
<1>3. SomeOfEach /\ TypeOK /\ CloseInv /\ [Next]_vars => SomeOfEach'
  BY SomeOfEachKept
<1>4. CloseInv => SplitIsSound
  BY DEF CloseInv
<1> QED BY <1>1, <1>2, <1>3, <1>4, TypeCorrect, CloseInvariant, PTL DEF Spec

\* Groups of leftovers add up to the whole, figure by figure: k says which group
\* of B a leftover is in.
LEMMA GroupsAddUp ==
  ASSUME TypeOK, NEW S \in SUBSET Leftover, NEW B, IsFiniteSet(B),
         NEW k, \A l \in S : k[l] \in B,
         NEW g, \A b \in B : g[b] = Figures(GroupOf(S, k, b))
  PROVE  /\ \A h : (\A b \in B : h[b] = g[b].leftover)
                    => SumFunctionOnSet(h, B) = Figures(S).leftover
         /\ \A h : (\A b \in B : h[b] = g[b].binned)
                    => SumFunctionOnSet(h, B) = Figures(S).binned
         /\ \A h : (\A b \in B : h[b] = RecoveredQty(g[b]))
                    => SumFunctionOnSet(h, B) = RecoveredQty(Figures(S))
<1>1. ASSUME NEW part \in Parts, NEW h,
             \A b \in B : h[b] = SumFunctionOnSet(Weight(part), GroupOf(S, k, b))
      PROVE  SumFunctionOnSet(h, B) = SumFunctionOnSet(Weight(part), S)
  <2>1. PICK f : f = Weight(part) OBVIOUS
  <2>2. IsFiniteSet(S) /\ \A l \in S : f[l] \in Int BY <2>1, WeightsAddUp
  <2>3. \A b \in B : h[b] = SumFunctionOnSet(f, GroupOf(S, k, b)) BY <1>1, <2>1
  <2>4. SumFunctionOnSet(h, B) = SumFunctionOnSet(f, S) BY <2>2, <2>3, SumGroups
  <2> QED BY <2>1, <2>4
<1>2. ASSUME NEW b \in B
      PROVE  /\ g[b].leftover = SumFunctionOnSet(Weight(Recorded), GroupOf(S, k, b))
             /\ g[b].reused = SumFunctionOnSet(Weight(Retained), GroupOf(S, k, b))
             /\ g[b].sold = SumFunctionOnSet(Weight(Sold), GroupOf(S, k, b))
             /\ g[b].donated = SumFunctionOnSet(Weight(Donated), GroupOf(S, k, b))
             /\ g[b].binned = SumFunctionOnSet(Weight(Binned), GroupOf(S, k, b))
             /\ g[b].reused \in Int /\ g[b].sold \in Int /\ g[b].donated \in Int
  <2>1. PICK T \in SUBSET Leftover : T = GroupOf(S, k, b) BY DEF GroupOf
  <2>2. g[b] = Figures(T) BY <2>1
  <2>3. Figures(T) \in [leftover : Nat, reused : Nat, sold : Nat, donated : Nat, binned : Nat]
    BY FiguresType
  <2>4. /\ g[b].leftover = SumFunctionOnSet(Weight(Recorded), T)
        /\ g[b].reused = SumFunctionOnSet(Weight(Retained), T)
        /\ g[b].sold = SumFunctionOnSet(Weight(Sold), T)
        /\ g[b].donated = SumFunctionOnSet(Weight(Donated), T)
        /\ g[b].binned = SumFunctionOnSet(Weight(Binned), T)
    BY <2>2, FiguresAre
  <2> QED BY <2>1, <2>2, <2>3, <2>4
<1>3. ASSUME NEW h, \A b \in B : h[b] = g[b].leftover
      PROVE  SumFunctionOnSet(h, B) = Figures(S).leftover
  <2>1. \A b \in B : h[b] = SumFunctionOnSet(Weight(Recorded), GroupOf(S, k, b)) BY <1>2, <1>3
  <2>2. SumFunctionOnSet(h, B) = SumFunctionOnSet(Weight(Recorded), S) BY <1>1, <2>1 DEF Parts
  <2> QED BY <2>2, FiguresAre
<1>4. ASSUME NEW h, \A b \in B : h[b] = g[b].binned
      PROVE  SumFunctionOnSet(h, B) = Figures(S).binned
  <2>1. \A b \in B : h[b] = SumFunctionOnSet(Weight(Binned), GroupOf(S, k, b)) BY <1>2, <1>4
  <2>2. SumFunctionOnSet(h, B) = SumFunctionOnSet(Weight(Binned), S) BY <1>1, <2>1 DEF Parts
  <2> QED BY <2>2, FiguresAre
<1>5. ASSUME NEW h, \A b \in B : h[b] = RecoveredQty(g[b])
      PROVE  SumFunctionOnSet(h, B) = RecoveredQty(Figures(S))
  <2> DEFINE re == [b \in B |-> g[b].reused]
             so == [b \in B |-> g[b].sold]
             do == [b \in B |-> g[b].donated]
             rs == [b \in B |-> g[b].reused + g[b].sold]
  <2>1. /\ \A b \in B : re[b] = SumFunctionOnSet(Weight(Retained), GroupOf(S, k, b))
        /\ \A b \in B : so[b] = SumFunctionOnSet(Weight(Sold), GroupOf(S, k, b))
        /\ \A b \in B : do[b] = SumFunctionOnSet(Weight(Donated), GroupOf(S, k, b))
    BY <1>2
  <2>2. ASSUME NEW b \in B
        PROVE  /\ re[b] \in Int /\ so[b] \in Int /\ do[b] \in Int /\ rs[b] \in Int
               /\ rs[b] = re[b] + so[b] /\ h[b] = rs[b] + do[b]
    <3>1. /\ re[b] = g[b].reused /\ so[b] = g[b].sold /\ do[b] = g[b].donated
          /\ rs[b] = g[b].reused + g[b].sold
          /\ h[b] = g[b].reused + g[b].sold + g[b].donated
      BY <1>5 DEF RecoveredQty
    <3>2. g[b].reused \in Int /\ g[b].sold \in Int /\ g[b].donated \in Int BY <1>2
    <3> HIDE DEF re, so, do, rs
    <3> QED BY <3>1, <3>2
  <2> HIDE DEF re, so, do, rs
  <2>3. /\ SumFunctionOnSet(re, B) = SumFunctionOnSet(Weight(Retained), S)
        /\ SumFunctionOnSet(so, B) = SumFunctionOnSet(Weight(Sold), S)
        /\ SumFunctionOnSet(do, B) = SumFunctionOnSet(Weight(Donated), S)
    BY <1>1, <2>1 DEF Parts
  <2>4. SumFunctionOnSet(rs, B) = SumFunctionOnSet(re, B) + SumFunctionOnSet(so, B)
    BY <2>2, SumPlus
  <2>5. SumFunctionOnSet(h, B) = SumFunctionOnSet(rs, B) + SumFunctionOnSet(do, B)
    BY <2>2, SumPlus
  <2> QED BY <2>3, <2>4, <2>5, FiguresAre DEF RecoveredQty
<1> QED BY <1>3, <1>4, <1>5

\* The month a day is in.
LEMMA FirstOfMonthIs ==
  ASSUME NEW d \in Nat
  PROVE  /\ FirstOfMonth(d) \in firstsOfMonth /\ FirstOfMonth(d) <= d
         /\ \A m \in firstsOfMonth : m <= d => m <= FirstOfMonth(d)
<1>1. PICK M : M = {m \in firstsOfMonth : m <= d} OBVIOUS
<1>0. 0 \in firstsOfMonth /\ firstsOfMonth \subseteq Nat BY AnalyticsAssumption
<1>2. M \subseteq 0 .. d /\ 0 \in M /\ M \in SUBSET Int
  <2>1. 0 \in M BY <1>0, <1>1
  <2>2. \A m \in M : m \in Nat /\ m <= d BY <1>0, <1>1
  <2>3. \A m \in M : m \in 0 .. d /\ m \in Int BY <2>2
  <2> QED BY <2>1, <2>3
<1>3. IsFiniteSet(M)
  <2>1. IsFiniteSet(0 .. d) BY FS_Interval
  <2> QED BY <1>2, <2>1, FS_Subset
<1>4. Max(M) \in M /\ \A m \in M : Max(M) >= m BY <1>2, <1>3, MaxOfFinite
<1>5. \A m \in M : m \in Int /\ Max(M) \in Int BY <1>2, <1>4
<1> QED BY <1>1, <1>4, <1>5 DEF FirstOfMonth

Grains == {"day", "month"}

\* Every leftover of a range is in a bucket that the chart of the range shows.
LEMMA BucketsShown ==
  ASSUME NEW range \in Ranges, NEW grain \in Grains, NEW l \in InRange(range)
  PROVE  DateTrunc(grain, servedOn[l]) \in Keys(range, grain)
<1>1. range \in [from : Nat, to : Nat] BY AnalyticsAssumption
<1>2. PICK d \in Nat : d = servedOn[l] BY AnalyticsAssumption DEF InRange
<1>3. range.from \in Nat /\ range.to \in Nat /\ range.from <= d /\ d <= range.to
  BY <1>1, <1>2 DEF InRange
<1>4. CASE grain = "day"
  <2>1. DateTrunc(grain, d) = d /\ Keys(range, grain) = range.from .. range.to
    BY <1>4 DEF DateTrunc, Keys, EachDay
  <2> QED BY <1>2, <1>3, <2>1
<1>5. CASE grain = "month"
  <2>1. DateTrunc(grain, d) = FirstOfMonth(d) /\ Keys(range, grain) = EachMonth(range)
    BY <1>5 DEF DateTrunc, Keys
  <2>2. PICK m \in Nat, n \in Nat : m = FirstOfMonth(d) /\ n = FirstOfMonth(range.from)
    BY <1>3, FirstOfMonthIs, AnalyticsAssumption
  <2>3. m \in firstsOfMonth /\ m <= d /\ n \in firstsOfMonth /\ n <= range.from
    BY <1>3, <2>2, FirstOfMonthIs
  <2>4. n <= m
    <3>1. n <= d BY <1>3, <2>3
    <3> QED BY <2>2, <2>3, <3>1, FirstOfMonthIs
  <2>5. m <= range.to BY <1>3, <2>3
  <2> QED BY <1>2, <2>1, <2>2, <2>3, <2>4, <2>5 DEF EachMonth
<1> QED BY <1>4, <1>5 DEF Grains

\* The rows of a series: their buckets are shown, and they add up.
LEMMA SeriesRows ==
  ASSUME TypeOK, NEW range \in Ranges, NEW grain \in Grains,
         NEW rows, rows = OutcomeSeries(range, grain), NEW B, B = DOMAIN rows
  PROVE  /\ IsFiniteSet(B) /\ B \subseteq Keys(range, grain)
         /\ \A b \in B : rows[b] # NaN
         /\ \A h : (\A b \in B : h[b] = rows[b].binned)
                    => SumFunctionOnSet(h, B) = Figures(InRange(range)).binned
         /\ \A h : (\A b \in B : h[b] = RecoveredQty(rows[b]))
                    => SumFunctionOnSet(h, B) = RecoveredQty(Figures(InRange(range)))
<1>1. PICK S \in SUBSET Leftover : S = InRange(range) BY DEF InRange
<1>2. PICK k : k = [l \in S |-> DateTrunc(grain, servedOn[l])] OBVIOUS
<1>3. rows = [b \in {k[l] : l \in S} |-> Figures(GroupOf(S, k, b))]
  <2>1. rows = [b \in {DateTrunc(grain, servedOn[l]) : l \in S} |->
                  Figures({l \in S : DateTrunc(grain, servedOn[l]) = b})]
    BY <1>1 DEF OutcomeSeries
  <2>2. \A l \in S : k[l] = DateTrunc(grain, servedOn[l]) BY <1>2
  <2>3. {DateTrunc(grain, servedOn[l]) : l \in S} = {k[l] : l \in S} BY <2>2
  <2>4. \A b : {l \in S : DateTrunc(grain, servedOn[l]) = b} = GroupOf(S, k, b) BY <2>2 DEF GroupOf
  <2> QED BY <2>1, <2>3, <2>4
<1>4. /\ B = {k[l] : l \in S}
      /\ \A b \in B : rows[b] = Figures(GroupOf(S, k, b))
      /\ \A l \in S : k[l] \in B
  BY <1>3
<1>5. IsFiniteSet(B)
  <2>1. IsFiniteSet(S) BY AnalyticsAssumption, FS_Subset
  <2>2. k \in [S -> B] BY <1>2, <1>4
  <2>3. k \in Surjection(S, B) BY <1>4, <2>2 DEF Surjection
  <2> QED BY <2>1, <2>3, FS_Surjection
<1>6. B \subseteq Keys(range, grain)
  BY <1>1, <1>2, <1>4, BucketsShown
<1>7. \A b \in B : rows[b] # NaN
  <2> SUFFICES ASSUME NEW b \in B PROVE rows[b] # NaN OBVIOUS
  <2>1. PICK T \in SUBSET Leftover : T = GroupOf(S, k, b) BY DEF GroupOf
  <2> QED BY <1>4, <2>1, FiguresType
<1>8. /\ \A h : (\A b \in B : h[b] = rows[b].binned)
                 => SumFunctionOnSet(h, B) = Figures(S).binned
      /\ \A h : (\A b \in B : h[b] = RecoveredQty(rows[b]))
                 => SumFunctionOnSet(h, B) = RecoveredQty(Figures(S))
  <2>1. (\A l \in S : k[l] \in B) /\ \A b \in B : rows[b] = Figures(GroupOf(S, k, b))
    BY <1>4
  <2> QED BY <1>5, <2>1, GroupsAddUp
<1> QED BY <1>1, <1>5, <1>6, <1>7, <1>8

\* What the charts show of a bucket with history is what its row says.
LEMMA ChartsShow ==
  ASSUME TypeOK, NEW range \in Ranges, NEW grain \in Grains,
         NEW rows, rows = OutcomeSeries(range, grain), NEW B, B = DOMAIN rows
  PROVE  /\ \A w \in WasteSeries(range, grain) :
              B \subseteq DOMAIN w /\ \A b \in B : w[b].waste = rows[b].binned
         /\ \A r \in RecoverySeries(range, grain) :
              B \subseteq DOMAIN r /\ \A b \in B : r[b].recovered = RecoveredQty(rows[b])
<1>1. PICK K : K = Keys(range, grain) OBVIOUS
<1>2. B \subseteq K /\ \A b \in B : rows[b] # NaN BY <1>1, SeriesRows
<1>3. ASSUME NEW filled \in ZeroFillBuckets(rows, K)
      PROVE  B \subseteq DOMAIN filled /\ \A b \in B : filled[b] = rows[b]
  BY <1>2 DEF ZeroFillBuckets
<1>4. ASSUME NEW w \in WasteSeries(range, grain)
      PROVE  B \subseteq DOMAIN w /\ \A b \in B : w[b].waste = rows[b].binned
  <2>1. PICK filled \in ZeroFillBuckets(rows, K) :
          w = [k \in DOMAIN filled |-> WasteBucket(filled[k])]
    BY <1>1 DEF WasteSeries
  <2>2. B \subseteq DOMAIN filled /\ \A b \in B : filled[b] = rows[b] BY <1>3
  <2>3. \A b \in B : w[b] = WasteBucket(rows[b]) BY <2>1, <2>2
  <2> QED BY <1>2, <2>1, <2>2, <2>3 DEF WasteBucket
<1>5. ASSUME NEW r \in RecoverySeries(range, grain)
      PROVE  B \subseteq DOMAIN r /\ \A b \in B : r[b].recovered = RecoveredQty(rows[b])
  <2>1. PICK filled \in ZeroFillBuckets(rows, K) :
          r = [k \in DOMAIN filled |-> RecoveryBucket(filled[k])]
    BY <1>1 DEF RecoverySeries
  <2>2. B \subseteq DOMAIN filled /\ \A b \in B : filled[b] = rows[b] BY <1>3
  <2>3. \A b \in B : r[b] = RecoveryBucket(rows[b]) BY <2>1, <2>2
  <2> QED BY <1>2, <2>1, <2>2, <2>3 DEF RecoveryBucket
<1> QED BY <1>4, <1>5

\* A chart by month, and the table of a report by day, add up over what they
\* have of the history.
LEMMA MonthsAddUp ==
  ASSUME TypeOK, NEW range \in Ranges, NEW series \in WasteSeries(range, "month"),
         NEW months, months = DOMAIN OutcomeSeries(range, "month")
  PROVE  /\ months \subseteq DOMAIN series
         /\ SumFunction([m \in months |-> series[m].waste]) = Figures(InRange(range)).binned
<1>1. PICK rows : rows = OutcomeSeries(range, "month") OBVIOUS
<1>2. PICK h : h = [m \in months |-> series[m].waste] OBVIOUS
<1>0. "month" \in Grains BY DEF Grains
<1>3. months \subseteq DOMAIN series /\ \A m \in months : series[m].waste = rows[m].binned
  BY <1>0, <1>1, ChartsShow
<1>4. DOMAIN h = months /\ \A m \in months : h[m] = rows[m].binned BY <1>2, <1>3
<1>5. SumFunctionOnSet(h, months) = Figures(InRange(range)).binned
  BY <1>0, <1>1, <1>4, SeriesRows
<1> QED BY <1>2, <1>3, <1>4, <1>5 DEF SumFunction

LEMMA DaysAddUp ==
  ASSUME TypeOK, NEW range \in Ranges, NEW table \in ComprehensiveTables(range),
         NEW days, days = DOMAIN OutcomeSeries(range, "day")
  PROVE  /\ days \subseteq DOMAIN table
         /\ SumFunction([d \in days |-> table[d].waste]) = Figures(InRange(range)).binned
         /\ SumFunction([d \in days |-> table[d].recovered]) = RecoveredQty(Figures(InRange(range)))
<1>1. PICK rows : rows = OutcomeSeries(range, "day") OBVIOUS
<1>0. "day" \in Grains BY DEF Grains
<1>2. PICK w \in WasteSeries(range, "day"), r \in RecoverySeries(range, "day") :
        table = [day \in DOMAIN w \cup DOMAIN r |->
                   [waste |-> IF day \in DOMAIN w THEN w[day].waste ELSE 0,
                    recovered |-> IF day \in DOMAIN r THEN r[day].recovered ELSE 0]]
  BY DEF ComprehensiveTables
<1>3. /\ days \subseteq DOMAIN w /\ \A d \in days : w[d].waste = rows[d].binned
      /\ days \subseteq DOMAIN r /\ \A d \in days : r[d].recovered = RecoveredQty(rows[d])
  BY <1>0, <1>1, ChartsShow
<1>4. /\ days \subseteq DOMAIN table
      /\ \A d \in days : table[d].waste = w[d].waste /\ table[d].recovered = r[d].recovered
  BY <1>2, <1>3
<1>5. PICK h, k : /\ h = [d \in days |-> table[d].waste]
                  /\ k = [d \in days |-> table[d].recovered]
  OBVIOUS
<1>6. /\ DOMAIN h = days /\ \A d \in days : h[d] = rows[d].binned
      /\ DOMAIN k = days /\ \A d \in days : k[d] = RecoveredQty(rows[d])
  BY <1>3, <1>4, <1>5
<1>7. /\ SumFunctionOnSet(h, days) = Figures(InRange(range)).binned
      /\ SumFunctionOnSet(k, days) = RecoveredQty(Figures(InRange(range)))
  BY <1>0, <1>1, <1>6, SeriesRows
<1> QED BY <1>4, <1>5, <1>6, <1>7 DEF SumFunction

\* Two parts of a set of leftovers weigh what the set weighs.
LEMMA PartsOfASet ==
  ASSUME TypeOK, NEW S \in SUBSET Leftover, NEW T \in SUBSET S
  PROVE  Figures(S \ T).leftover + Figures(T).leftover = Figures(S).leftover
<1>1. PICK f : f = Weight(Recorded) OBVIOUS
<1>2. PICK R : R = S \ T OBVIOUS
<1>3. IsFiniteSet(R) /\ IsFiniteSet(T) /\ \A l \in R \cup T : f[l] \in Int
  BY <1>1, <1>2, WeightsAddUp DEF Parts
<1>4. R \cap T = {} /\ R \cup T = S BY <1>2
<1>5. SumFunctionOnSet(f, R \cup T) = SumFunctionOnSet(f, R) + SumFunctionOnSet(f, T)
  BY <1>3, <1>4, SumUnion
<1> QED BY <1>1, <1>2, <1>4, <1>5, FiguresAre

\* The dishes that are not archived, and the leftovers of those that are.
LEMMA DishesAddUp ==
  ASSUME TypeOK, NEW range \in Ranges, NEW dishes, dishes = DishRecovery(range)
  PROVE  SumFunction([d \in DOMAIN dishes |-> dishes[d].leftover])
           + Figures({l \in InRange(range) : menu.dish[l] \in menu.archived}).leftover
           = Figures(InRange(range)).leftover
<1>1. PICK S \in SUBSET Leftover : S = InRange(range) BY DEF InRange
<1>2. PICK gone \in SUBSET S : gone = {l \in S : menu.dish[l] \in menu.archived} OBVIOUS
<1>3. PICK R \in SUBSET Leftover : R = S \ gone OBVIOUS
<1>4. PICK B : B = Dish \ menu.archived OBVIOUS
<1>5. IsFiniteSet(B)
  <2>1. B \subseteq Dish BY <1>4
  <2> QED BY <2>1, AnalyticsAssumption, FS_Subset
<1>6. PICK k : k = menu.dish OBVIOUS
<1>7. \A l \in R : k[l] \in B
  BY <1>2, <1>3, <1>4, <1>6, AnalyticsAssumption
<1>8. DOMAIN dishes = B /\ \A d \in B : dishes[d] = Figures(GroupOf(R, k, d))
  <2>1. dishes = [d \in B |-> Figures({l \in S : menu.dish[l] = d})]
    BY <1>1, <1>4 DEF DishRecovery
  <2>2. \A d \in B : {l \in S : menu.dish[l] = d} = GroupOf(R, k, d)
    BY <1>2, <1>3, <1>4, <1>6 DEF GroupOf
  <2> QED BY <2>1, <2>2
<1>9. PICK h : h = [d \in DOMAIN dishes |-> dishes[d].leftover] OBVIOUS
<1>10. DOMAIN h = B /\ \A d \in B : h[d] = dishes[d].leftover BY <1>8, <1>9
<1>11. SumFunctionOnSet(h, B) = Figures(R).leftover
  BY <1>5, <1>7, <1>8, <1>10, GroupsAddUp
<1>12. SumFunction(h) = Figures(R).leftover BY <1>10, <1>11 DEF SumFunction
<1>13. Figures(R).leftover + Figures(gone).leftover = Figures(S).leftover
  BY <1>3, PartsOfASet
<1> QED BY <1>1, <1>2, <1>9, <1>12, <1>13

(***************************************************************************)
(* The rows of the day and month queries, as the report and the monthly    *)
(* chart show them, and the dishes add up to the dashboard over the same   *)
(* range, whatever the days that begin a month. Buckets without a row,     *)
(* which are copies of others, and weeks are outside the statement.        *)
(***************************************************************************)
THEOREM LinesAddUp == Spec => []SeriesAddUp
<1>1. TypeOK => SeriesAddUp
  <2> SUFFICES ASSUME TypeOK, NEW range \in Ranges
               PROVE  LET board == Dashboard(range)
                          days == DOMAIN OutcomeSeries(range, "day")
                          months == DOMAIN OutcomeSeries(range, "month")
                          gone == {l \in InRange(range) : menu.dish[l] \in menu.archived}
                          dishes == DishRecovery(range)
                      IN  /\ \A table \in ComprehensiveTables(range) :
                               /\ days \subseteq DOMAIN table
                               /\ SumFunction([d \in days |-> table[d].waste]) = board.binned
                               /\ SumFunction([d \in days |-> table[d].recovered]) = board.recovered
                          /\ \A series \in WasteSeries(range, "month") :
                               /\ months \subseteq DOMAIN series
                               /\ SumFunction([m \in months |-> series[m].waste]) = board.binned
                          /\ SumFunction([d \in DOMAIN dishes |-> dishes[d].leftover])
                               + Figures(gone).leftover = board.leftover
    BY DEF SeriesAddUp
  <2>1. /\ Dashboard(range).leftover = Figures(InRange(range)).leftover
        /\ Dashboard(range).recovered = RecoveredQty(Figures(InRange(range)))
        /\ Dashboard(range).binned = Figures(InRange(range)).binned
    BY DEF Dashboard
  <2> QED BY <2>1, DaysAddUp, MonthsAddUp, DishesAddUp
<1> QED BY <1>1, TypeCorrect, PTL DEF Spec
=============================================================================

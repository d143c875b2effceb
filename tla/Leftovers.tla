----------------------------- MODULE Leftovers -----------------------------
(***************************************************************************)
(* The nightly close of one restaurant: staff record what is left, commit  *)
(* a split of it into reuse, sale, donation and waste, and next day        *)
(* confirm what was really reused.  Several people of the kitchen do this  *)
(* at once, over the tables leftovers, leftover_dispositions,              *)
(* listing_items and reuse_confirmations.                                  *)
(*                                                                         *)
(* commitDispositions is one transaction: it reads and checks, then        *)
(* writes, and Postgres runs it at READ COMMITTED, so others commit in     *)
(* between.  recordReuseConfirmation is three transactions, because the    *)
(* queries it calls open their own inside the handler's.                   *)
(*                                                                         *)
(* The tables keep thousandths, and these are the units of every stored    *)
(* quantity. What users send is finer, in hundredths of a unit: the checks *)
(* look at what was sent, the tables at what was rounded. What a commit    *)
(* creates on the market is modelled here by its listing_items, in         *)
(* Marketplace by its listings.                                            *)
(***************************************************************************)
EXTENDS Integers

CONSTANTS
  Leftover,        \* leftover ids
  User,            \* people of the kitchen
  Undecided,       \* a leftover without a disposition
  Splits,          \* the splits users send in, in hundredths of a unit
  Confirmations,   \* the reused quantities they send in, in hundredths
  Quantities,      \* the quantities of recorded leftovers
  SplitTolerance,  \* SPLIT_TOLERANCE, in units
  ReuseSlack,      \* the 0.001 of recordReuseConfirmation, in units
  MaxTime,         \* bound: the clock stops here
  MaxSafe,         \* bound: latest safe_until
  MaxConfirmed     \* bound: no new confirmation beyond this total

Split == [retain : Nat, sell : Nat, donate : Nat, waste : Nat]

\* A disposition: its row, and of the split as sent what the row does not say.
Disposition == [split : Split, sent : Splits, at : Nat]

\* What a disposition promises to others.
Promises == [sell : Nat, donate : Nat, retain : Nat]

ASSUME SplitsAssumption ==
  /\ Splits \subseteq Split
  /\ Undecided \notin Disposition \cup Promises

ASSUME LimitsAssumption ==
  /\ Quantities \subseteq Nat \ {0}
  /\ Confirmations \subseteq Nat \ {0}
  /\ {SplitTolerance, ReuseSlack, MaxTime, MaxSafe, MaxConfirmed} \subseteq Nat

VARIABLES
  leftover,   \* the table leftovers
  decided,    \* leftover_dispositions
  listed,     \* listing_items: quantity on offer by channel
  confirmed,  \* reuse_confirmations: total per leftover
  request,    \* progress of each user's request
  now         \* the clock

vars == <<leftover, decided, listed, confirmed, request, now>>

Row == [status : {"absent", "pending_disposition", "awaiting_reuse", "closed"},
        qty : Nat, safeUntil : Nat]

Idle == [step |-> "idle"]

Commit(S) == [step : {"commit"}, split : [S -> Splits], at : Nat]

Reuse == [step : {"confirm", "setStatus"}, leftover : Leftover,
          qty : Nat \ {0}, retain : Nat]

Nothing == [b2b |-> 0, ngo |-> 0]

TypeOK ==
  /\ leftover \in [Leftover -> Row]
  /\ decided \in [Leftover -> Disposition \cup {Undecided}]
  /\ listed \in [Leftover -> [b2b : Nat, ngo : Nat]]
  /\ confirmed \in [Leftover -> Nat]
  /\ DOMAIN request = User
  /\ \A u \in User :
       \/ request[u] \in {Idle} \cup Reuse
       \/ \E S \in (SUBSET Leftover) \ {{}} : request[u] \in Commit(S)
  /\ now \in Nat

-----------------------------------------------------------------------------
IsIdle(u) == request[u].step = "idle"

SetRequest(u, r) == request' = [request EXCEPT ![u] = r]

\* recordLeftover; safe_until comes from the dish and the storage method, and
\* food can be recorded after it has gone off.
RecordLeftover(u, l, qty, safeUntil) ==
  /\ IsIdle(u)
  /\ leftover[l].status = "absent"
  /\ leftover' = [leftover EXCEPT ![l] =
       [status |-> "pending_disposition", qty |-> qty, safeUntil |-> safeUntil]]
  /\ UNCHANGED <<decided, listed, confirmed, request, now>>

\* round3, of hundredths to units.
Round3(x) == (x + 50) \div 100

\* The row of a split: each part is rounded by itself.
Stored(s) == [retain |-> Round3(s.retain), sell |-> Round3(s.sell),
              donate |-> Round3(s.donate), waste |-> Round3(s.waste)]

Total(s) == s.retain + s.sell + s.donate + s.waste

\* The parts as sent make up the quantity, within SPLIT_TOLERANCE.
AddsUp(s, qty) ==
  Total(s) - 100 * qty \in -(100 * SplitTolerance) .. 100 * SplitTolerance

Offers(s) == s.sell > 0 \/ s.donate > 0

\* Faulty variant: offers food that is no longer safe.
MaySplitAnyTime(l, s) ==
  /\ leftover[l].status = "pending_disposition"
  /\ decided[l] = Undecided
  /\ AddsUp(s, leftover[l].qty)

\* resolveAllocations, one allocation.
MaySplit(l, s) ==
  /\ leftover[l].status = "pending_disposition"
  /\ decided[l] = Undecided
  /\ AddsUp(s, leftover[l].qty)
  /\ Offers(s) => now < leftover[l].safeUntil

\* commitDispositions reads: any allocation that fails its check rejects all.
ReadCommit(u, S, split) ==
  /\ IsIdle(u)
  /\ \A l \in S : MaySplit(l, split[l])
  /\ SetRequest(u, [step |-> "commit", split |-> split, at |-> now])
  /\ UNCHANGED <<leftover, decided, listed, confirmed, now>>

NewDisposition(s, at) == [split |-> Stored(s), sent |-> s, at |-> at]

\* Faulty variant: no unique index, and a second disposition replaces the first.
InsertDispositionsTwice(S, split, at) ==
  decided' = [l \in Leftover |->
     IF l \in S THEN NewDisposition(split[l], at) ELSE decided[l]]

\* insertDispositionRow: the unique index on leftover_id lets one commit in.
InsertDispositions(S, split, at) ==
  /\ \A l \in S : decided[l] = Undecided
  /\ decided' = [l \in Leftover |->
       IF l \in S THEN NewDisposition(split[l], at) ELSE decided[l]]

\* Faulty variant: a status the column does not have.
StatusAfterNamesWaste(s) == IF s.waste > 0 THEN "wasted" ELSE "closed"

\* Of the split as sent: the row of a tiny retain says 0.
StatusAfter(s) == IF s.retain > 0 THEN "awaiting_reuse" ELSE "closed"

\* commitDispositions writes: dispositions, statuses and listing items of all
\* its leftovers, or nothing when one of them was decided meanwhile.
WriteCommit(u) ==
  LET split == request[u].split
      S == DOMAIN split
  IN  /\ request[u].step = "commit"
      /\ InsertDispositions(S, split, request[u].at)
      /\ leftover' = [l \in Leftover |->
           IF l \in S THEN [leftover[l] EXCEPT !.status = StatusAfter(split[l])]
           ELSE leftover[l]]
      /\ listed' = [l \in Leftover |->
           IF l \in S THEN [b2b |-> listed[l].b2b + Round3(split[l].sell),
                            ngo |-> listed[l].ngo + Round3(split[l].donate)]
           ELSE listed[l]]
      /\ SetRequest(u, Idle)
      /\ UNCHANGED <<confirmed, now>>

CommitRejected(u) ==
  /\ request[u].step = "commit"
  /\ \E l \in DOMAIN request[u].split : decided[l] # Undecided
  /\ SetRequest(u, Idle)
  /\ UNCHANGED <<leftover, decided, listed, confirmed, now>>

\* Faulty variant: takes confirmations for anything that was split.
MayReuseAnything(l, qty) == decided[l] # Undecided

\* recordReuseConfirmation reads, in a transaction of its own: the check looks
\* at this confirmation only, not at the ones before it, and compares what was
\* sent with what was stored.
MayReuse(l, qty) ==
  /\ decided[l] # Undecided
  /\ leftover[l].status = "awaiting_reuse"
  /\ qty <= 100 * (decided[l].split.retain + ReuseSlack)

ReadReuse(u, l, qty) ==
  /\ IsIdle(u)
  /\ confirmed[l] + Round3(qty) <= MaxConfirmed
  /\ MayReuse(l, qty)
  /\ SetRequest(u, [step |-> "confirm", leftover |-> l, qty |-> qty,
                    retain |-> decided[l].split.retain])
  /\ UNCHANGED <<leftover, decided, listed, confirmed, now>>

\* insertReuseConfirmation commits on its own, before the status changes.
InsertReuseConfirmation(u) ==
  /\ request[u].step = "confirm"
  /\ confirmed' = [confirmed EXCEPT ![request[u].leftover] = @ + Round3(request[u].qty)]
  /\ SetRequest(u, [request[u] EXCEPT !.step = "setStatus"])
  /\ UNCHANGED <<leftover, decided, listed, now>>

FullyReused(qty, retain) ==
  qty - 100 * retain \in 1 - 100 * ReuseSlack .. 100 * ReuseSlack - 1

\* Faulty variant: a partial confirmation hands the leftover back to the close.
StatusAfterReuseReopens(qty, retain) ==
  IF FullyReused(qty, retain) THEN "closed" ELSE "pending_disposition"

StatusAfterReuse(qty, retain) ==
  IF FullyReused(qty, retain) THEN "closed" ELSE "awaiting_reuse"

\* setLeftoverStatus, whatever the status is by now.
SetReuseStatus(u) ==
  LET r == request[u]
  IN  /\ r.step = "setStatus"
      /\ leftover' = [leftover EXCEPT ![r.leftover].status =
                        StatusAfterReuse(r.qty, r.retain)]
      /\ SetRequest(u, Idle)
      /\ UNCHANGED <<decided, listed, confirmed, now>>

\* The process dies or the database fails, or two closes lock their leftovers
\* in opposite orders and one is aborted: open transactions are rolled back.
LoseRequest(u) ==
  /\ ~IsIdle(u)
  /\ SetRequest(u, Idle)
  /\ UNCHANGED <<leftover, decided, listed, confirmed, now>>

Tick ==
  /\ now < MaxTime
  /\ now' = now + 1
  /\ UNCHANGED <<leftover, decided, listed, confirmed, request>>

-----------------------------------------------------------------------------
Init ==
  /\ leftover = [l \in Leftover |-> [status |-> "absent", qty |-> 0, safeUntil |-> 0]]
  /\ decided = [l \in Leftover |-> Undecided]
  /\ listed = [l \in Leftover |-> Nothing]
  /\ confirmed = [l \in Leftover |-> 0]
  /\ request = [u \in User |-> Idle]
  /\ now = 0

UserStep(u) ==
  \/ \E l \in Leftover, qty \in Quantities, safeUntil \in 0..MaxSafe :
       RecordLeftover(u, l, qty, safeUntil)
  \/ \E S \in (SUBSET Leftover) \ {{}} : \E split \in [S -> Splits] :
       ReadCommit(u, S, split)
  \/ WriteCommit(u)
  \/ CommitRejected(u)
  \/ \E l \in Leftover, qty \in Confirmations : ReadReuse(u, l, qty)
  \/ InsertReuseConfirmation(u)
  \/ SetReuseStatus(u)
  \/ LoseRequest(u)

Next == Tick \/ \E u \in User : UserStep(u)

Spec == Init /\ [][Next]_vars

-----------------------------------------------------------------------------
(***************************************************************************)
(* Properties.                                                             *)
(***************************************************************************)

\* The status column and the dispositions table agree, although the last step
\* of a reuse confirmation writes the status without looking at it: a leftover
\* waits for the close exactly until it is split, and waits for reuse only if
\* some of it was kept, be it so little that the row says 0.
StatusMatchesDecision ==
  \A l \in Leftover :
    /\ decided[l] = Undecided <=> leftover[l].status \in {"absent", "pending_disposition"}
    /\ leftover[l].status = "awaiting_reuse" => decided[l].sent.retain > 0

\* No food is offered twice or left off the market: what the listings carry of
\* a leftover is what its one disposition sells and donates, however closes by
\* several people overlap (db/seed/invariants.ts, "A listing offers more than
\* the disposition allocated to sell and donate").
OfferedAsDecided ==
  \A l \in Leftover :
    listed[l] = IF decided[l] = Undecided THEN Nothing
                ELSE [b2b |-> decided[l].split.sell, ngo |-> decided[l].split.donate]

\* Half a unit more for each of the four parts that are rounded.
StoredTolerance == SplitTolerance + 2

\* What was split, offered and thrown away of a leftover is what was recorded,
\* up to the tolerance and the rounding, and food on offer was safe when its close
\* began. It need not be exactly what was recorded: see SplitIsExact.
SplitIsSound ==
  \A l \in Leftover : decided[l] # Undecided =>
    /\ Total(decided[l].split) - leftover[l].qty
         \in -StoredTolerance .. StoredTolerance
    /\ Offers(decided[l].sent) => decided[l].at < leftover[l].safeUntil

\* A confirmation in flight concerns a leftover that was split and kept back
\* for reuse, and it still knows how much.
ReuseIsBacked ==
  \A u \in User : request[u].step \in {"confirm", "setStatus"} =>
    LET l == request[u].leftover
    IN  /\ decided[l] # Undecided
        /\ request[u].retain = decided[l].split.retain
        /\ decided[l].sent.retain > 0

\* A close in flight passed its checks, and they still describe the leftovers.
CommitIsBacked ==
  \A u \in User : request[u].step = "commit" =>
    \A l \in DOMAIN request[u].split :
      LET s == request[u].split[l]
      IN  /\ leftover[l].status # "absent"
          /\ AddsUp(s, leftover[l].qty)
          /\ Offers(s) => request[u].at < leftover[l].safeUntil

ReusedWasKept ==
  \A l \in Leftover : confirmed[l] > 0 =>
    decided[l] # Undecided /\ decided[l].sent.retain > 0

(***************************************************************************)
(* The inductive invariant: requests in flight carry what they read, and   *)
(* what they read stays true because splits are never changed.             *)
(***************************************************************************)
CloseInv ==
  /\ StatusMatchesDecision
  /\ OfferedAsDecided
  /\ SplitIsSound
  /\ ReuseIsBacked
  /\ CommitIsBacked
  /\ ReusedWasKept

\* Of a split as sent, what is put on offer of it and whether some was kept.
Promise(s) ==
  [sell |-> Round3(s.sell), donate |-> Round3(s.donate), retain |-> s.retain]

\* The close implements "split once, together, and offer what was split".
Abstract == INSTANCE SplitOnce WITH
  Split <- {Promise(s) : s \in Splits},
  decision <- [l \in Leftover |->
                 IF decided[l] = Undecided THEN Undecided ELSE Promise(decided[l].sent)],
  offered <- listed,
  reused <- {l \in Leftover : confirmed[l] > 0}

ImplementsSplitOnce == Abstract!Spec

\* tests/production.test.ts, "throws REUSE_EXCEEDS_RETAIN when confirmed >
\* retained": nobody reuses more of a leftover than was kept back of it.
ReuseWithinRetained ==
  \A l \in Leftover : confirmed[l] > 0 =>
    confirmed[l] <= decided[l].split.retain + ReuseSlack

\* db/seed/invariants.ts, "A disposition does not allocate exactly the leftover
\* quantity": the four parts of every disposition make up its leftover.
SplitIsExact ==
  \A l \in Leftover : decided[l] # Undecided =>
    Total(decided[l].split) = leftover[l].qty
=============================================================================

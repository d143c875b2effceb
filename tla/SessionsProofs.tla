--------------------------- MODULE SessionsProofs ---------------------------
(***************************************************************************)
(* The refresh tokens of a person, for any number of requests under way,   *)
(* of sign-ins and of tokens: nothing of a revoked sign-in can be rotated, *)
(* whatever calls of issueTokens, rotateRefresh, revokeFamily and          *)
(* completePasswordReset lie between each other.                           *)
(***************************************************************************)
EXTENDS Sessions, TLAPS

Calls == {"none", "del", "srem", "untrack", "set", "sadd", "track", "active", "members",
          "delete", "forget", "families", "next", "unindex"}

AnyToken == Families \X (Nat \ {0})

Work ==
  [task : {"none", "revoke", "reset"}, at : Calls, token : AnyToken \cup {<<>>},
   family : Families \cup {"no family"}, seen : SUBSET AnyToken,
   todo : SUBSET Families, claims : SUBSET Families]

OfOneFamily == Issuing \cup {"active", "members", "delete", "forget"}

Shape ==
  /\ live \subseteq AnyToken
  /\ members \in [Families -> SUBSET AnyToken]
  /\ index \subseteq Families
  /\ issued \in [Families -> Nat]
  /\ work \in [Workers -> Work]
  /\ \A w \in Workers : work[w].at \in OfOneFamily => work[w].family \in Families

\* Tokens are numbered by issueTokens, and one that is being removed is gone.
Numbered ==
  /\ \A t \in live : t[2] <= issued[t[1]]
  /\ \A f \in index : issued[f] > 0
  /\ \A w \in Workers :
       work[w].at \in {"del", "srem", "sadd"} =>
         /\ work[w].token \in AnyToken /\ work[w].token[1] = work[w].family
         /\ work[w].token[2] <= issued[work[w].family]
  /\ \A w \in Workers : work[w].at = "srem" => work[w].token \notin live
  /\ \A w \in Workers : work[w].at \in {"sadd", "track"} => issued[work[w].family] > 0

\* A family with a token that lives is found by who revokes it.
Found ==
  \A t \in live :
    \/ t[1] \in torn
    \/ /\ t[1] \in index \cup Busy
       /\ \/ t \in members[t[1]]
          \/ \E w \in Workers : work[w].at = "sadd" /\ work[w].token = t

\* What becomes of a family that a worker claims to revoke.
Handled(w, f) ==
  \/ f \in torn \/ LiveOf(f) = {} \/ f \in work[w].todo
  \/ work[w].at = "families"
  \/ work[w].at \in {"active", "members"} /\ work[w].family = f
  \/ work[w].at = "delete" /\ work[w].family = f /\ LiveOf(f) \subseteq work[w].seen

Claimed ==
  /\ \A w \in Workers : \A f \in work[w].claims :
       f \notin Busy /\ issued[f] > 0 /\ Handled(w, f)
  /\ \A w \in Workers : work[w].at \in Issuing => work[w].claims = {}
  /\ \A w \in Workers : work[w].at \in {"families", "next", "unindex"} => work[w].task = "reset"
  /\ \A w \in Workers :
       \/ work[w].at \in {"active", "members", "delete", "forget"} /\ work[w].task # "reset"
       \/ work[w].at = "unindex"
       => work[w].todo = {}

\* Nothing lives of a revoked family, and nothing is being issued.
Gone == \A f \in revoked : LiveOf(f) = {} /\ f \notin Busy /\ f \in Families /\ issued[f] > 0

SessionsInv == Shape /\ Numbered /\ Found /\ Claimed /\ Gone

-----------------------------------------------------------------------------
\* What a worker's next call leaves of the others, but for their claims.
Moves(w, next) ==
  /\ work' \in [Workers -> Work]
  /\ \A v \in Workers \ {w} :
       /\ work'[v].task = work[v].task /\ work'[v].at = work[v].at
       /\ work'[v].token = work[v].token /\ work'[v].family = work[v].family
       /\ work'[v].seen = work[v].seen /\ work'[v].todo = work[v].todo
       /\ work'[v].claims = work[v].claims \ Busy'
  /\ work'[w].task = next.task /\ work'[w].at = next.at
  /\ work'[w].token = next.token /\ work'[w].family = next.family
  /\ work'[w].seen = next.seen /\ work'[w].todo = next.todo
  /\ work'[w].claims = next.claims \ Busy'

LEMMA GoesMoves ==
  ASSUME Shape, NEW w \in Workers, NEW next \in Work, Goes(w, next)
  PROVE  Moves(w, next)
  <1> DEFINE moved == [work EXCEPT ![w] = next]
             busy == {moved[v].family : v \in {v \in Workers : moved[v].at \in Issuing}}
  <1>1. moved \in [Workers -> Work]
    BY DEF Shape
  <1>2. work' = [v \in Workers |-> [moved[v] EXCEPT !.claims = @ \ busy]]
    BY DEF Goes
  <1> HIDE DEF moved, busy
  <1>3. ASSUME NEW v \in Workers
        PROVE  /\ work'[v] \in Work
               /\ work'[v].task = moved[v].task /\ work'[v].at = moved[v].at
               /\ work'[v].token = moved[v].token /\ work'[v].family = moved[v].family
               /\ work'[v].seen = moved[v].seen /\ work'[v].todo = moved[v].todo
               /\ work'[v].claims = moved[v].claims \ busy
    BY <1>1, <1>2 DEF Work
  <1>4. busy = Busy'
    BY <1>3 DEF busy, Busy
  <1>5. moved[w] = next /\ \A v \in Workers \ {w} : moved[v] = work[v]
    BY DEF moved, Shape
  <1>6. work' \in [Workers -> Work]
    BY <1>2, <1>3
  <1>7. QED
    BY <1>3, <1>4, <1>5, <1>6 DEF Moves

LEMMA BusyMoves ==
  ASSUME NEW w \in Workers, NEW next, Moves(w, next)
  PROVE  /\ next.at \in Issuing => next.family \in Busy'
         /\ \A f \in Busy' : f \in Busy \/ (next.at \in Issuing /\ f = next.family)
         /\ \A f \in Busy : f \in Busy' \/ (work[w].at \in Issuing /\ f = work[w].family)
  BY DEF Moves, Busy

\* What a step has to show of its own worker, for each part of the invariant.
LEMMA NumberedKept ==
  ASSUME Numbered, NEW w \in Workers, NEW next \in Work, Moves(w, next),
         live' \subseteq live, UNCHANGED issued, \A f \in index' : issued[f] > 0,
         next.at \in {"del", "srem", "sadd"} =>
           /\ next.token \in AnyToken /\ next.token[1] = next.family
           /\ next.token[2] <= issued[next.family],
         next.at = "srem" => next.token \notin live',
         next.at \in {"sadd", "track"} => issued[next.family] > 0
  PROVE  Numbered'
  BY DEF Numbered, Moves

LEMMA FoundKept ==
  ASSUME Shape, Found, NEW w \in Workers, NEW next \in Work, Moves(w, next), torn \subseteq torn',
         \A t \in live' :
           \/ t \in live
           \/ t[1] \in Busy' /\ \E v \in Workers : work'[v].at = "sadd" /\ work'[v].token = t,
         \A t \in live \cap live' :
           /\ t[1] \in index => t[1] \in index' \cup Busy' \cup torn'
           /\ t \in members[t[1]] => t \in members'[t[1]] \/ t[1] \in torn'
           /\ work[w].at = "sadd" /\ work[w].token = t => t \in members'[t[1]] \/ t[1] \in torn',
         work[w].at \in Issuing => work[w].family \in index' \cup Busy' \cup torn'
  PROVE  Found'
  <1>1. ASSUME NEW t \in live \cap live', t[1] \notin torn'
        PROVE  /\ t[1] \in index' \cup Busy'
               /\ \/ t \in members'[t[1]]
                  \/ \E v \in Workers : work'[v].at = "sadd" /\ work'[v].token = t
    <2>1. /\ t[1] \in index \cup Busy
          /\ \/ t \in members[t[1]]
             \/ \E v \in Workers : work[v].at = "sadd" /\ work[v].token = t
      BY <1>1 DEF Found
    <2>2. t[1] \in index' \cup Busy'
      BY <1>1, <2>1, BusyMoves
    <2>3. \A v \in Workers \ {w} : work'[v].at = work[v].at /\ work'[v].token = work[v].token
      BY DEF Moves
    <2>4. QED
      BY <1>1, <2>1, <2>2, <2>3
  <1>2. QED
    BY <1>1 DEF Found

LEMMA ClaimedKept ==
  ASSUME Shape, Claimed, NEW w \in Workers, NEW next \in Work, Moves(w, next),
         torn \subseteq torn', \A f \in Families : issued[f] > 0 => issued'[f] > 0,
         \A f \in Families \ Busy' : LiveOf(f)' \subseteq LiveOf(f),
         \A f \in next.claims \ Busy' : issued'[f] > 0 /\ Handled(w, f)',
         next.at \in Issuing => next.claims = {},
         next.at \in {"families", "next", "unindex"} => next.task = "reset",
         \/ next.at \in {"active", "members", "delete", "forget"} /\ next.task # "reset"
         \/ next.at = "unindex"
         => next.todo = {}
  PROVE  Claimed'
  <1>1. ASSUME NEW v \in Workers \ {w}, NEW f \in work'[v].claims
        PROVE  f \notin Busy' /\ issued'[f] > 0 /\ Handled(v, f)'
    <2>1. f \in work[v].claims /\ f \notin Busy' /\ f \in Families
      BY <1>1 DEF Moves, Shape, Work
    <2>2. issued[f] > 0 /\ Handled(v, f)
      BY <2>1 DEF Claimed
    <2>3. LiveOf(f)' \subseteq LiveOf(f)
      BY <2>1
    <2>4. Handled(v, f)'
      BY <2>2, <2>3 DEF Handled, Moves
    <2>5. QED
      BY <2>1, <2>2, <2>4
  <1>2. \A f \in work'[w].claims : f \notin Busy' /\ issued'[f] > 0 /\ Handled(w, f)'
    BY DEF Moves
  <1>3. \A v \in Workers : work'[v].at \in Issuing => work'[v].claims = {}
    BY DEF Moves, Claimed
  <1>4. /\ \A v \in Workers : work'[v].at \in {"families", "next", "unindex"} => work'[v].task = "reset"
        /\ \A v \in Workers :
             \/ work'[v].at \in {"active", "members", "delete", "forget"} /\ work'[v].task # "reset"
             \/ work'[v].at = "unindex"
             => work'[v].todo = {}
    BY DEF Moves, Claimed
  <1>5. QED
    BY <1>1, <1>2, <1>3, <1>4 DEF Claimed

LEMMA GoneKept ==
  ASSUME Shape, Gone, NEW w \in Workers, NEW next \in Work, Moves(w, next),
         \A f \in Families : issued[f] > 0 => issued'[f] > 0,
         \A f \in Families \ Busy' : LiveOf(f)' \subseteq LiveOf(f),
         next.at \in Issuing => next.family \notin revoked,
         \A f \in revoked' \ revoked :
           f \in Families /\ issued'[f] > 0 /\ f \notin Busy' /\ LiveOf(f)' = {}
  PROVE  Gone'
  <1>1. ASSUME NEW f \in revoked
        PROVE  LiveOf(f)' = {} /\ f \notin Busy' /\ f \in Families /\ issued'[f] > 0
    <2>1. LiveOf(f) = {} /\ f \notin Busy /\ f \in Families /\ issued[f] > 0
      BY DEF Gone
    <2>2. f \notin Busy'
      BY <2>1, BusyMoves
    <2>3. QED
      BY <2>1, <2>2
  <1>2. QED
    BY <1>1 DEF Gone

LEMMA LiveShrinks ==
  ASSUME live' \subseteq live
  PROVE  \A f \in Families : LiveOf(f)' \subseteq LiveOf(f)
  BY DEF LiveOf

-----------------------------------------------------------------------------
\* Steps of a revocation that write nothing, or take tokens away.
LEMMA QuietKeeps ==
  ASSUME SessionsInv, NEW w \in Workers, NEW next \in Work, Goes(w, next),
         work[w].at \notin Issuing, next.at \notin Issuing, live' \subseteq live,
         UNCHANGED <<members, index, issued, torn, revoked>>,
         next.at \in OfOneFamily => next.family \in Families,
         \A f \in next.claims \ Busy' : issued[f] > 0 /\ Handled(w, f)',
         next.at \in {"families", "next", "unindex"} => next.task = "reset",
         \/ next.at \in {"active", "members", "delete", "forget"} /\ next.task # "reset"
         \/ next.at = "unindex"
         => next.todo = {}
  PROVE  SessionsInv'
  <1>1. Shape /\ Numbered /\ Found /\ Claimed /\ Gone
    BY DEF SessionsInv
  <1>2. Moves(w, next)
    BY <1>1, GoesMoves
  <1>3. Shape'
    BY <1>1, <1>2 DEF Shape, Moves
  <1>4. \A f \in Families : LiveOf(f)' \subseteq LiveOf(f)
    BY LiveShrinks
  <1>5. next.at \notin {"del", "srem", "sadd", "track"} /\ work[w].at # "sadd"
    BY DEF Issuing
  <1>6. Numbered'
    <2>1. \A f \in index' : issued[f] > 0
      BY <1>1 DEF Numbered
    <2>2. QED
      BY <1>1, <1>2, <1>5, <2>1, NumberedKept
  <1>7. Found'
    BY <1>1, <1>2, <1>5, FoundKept
  <1>8. Claimed'
    BY <1>1, <1>2, <1>4, ClaimedKept
  <1>9. Gone'
    BY <1>1, <1>2, <1>4, GoneKept
  <1>10. QED
    BY <1>3, <1>6, <1>7, <1>8, <1>9 DEF SessionsInv

LEMMA IdleType == Idle \in Work
  BY DEF Idle, Work, Calls

LEMMA EndsQuietly ==
  ASSUME SessionsInv, NEW w \in Workers, Ends(w), work[w].at \notin Issuing,
         UNCHANGED <<live, members, index, issued, torn, revoked>>
  PROVE  SessionsInv'
  <1>1. /\ Idle.at = "none" /\ Idle.claims = {}
        /\ "none" \notin Issuing \cup OfOneFamily
    BY DEF Idle, Issuing, OfOneFamily
  <1>2. QED
    BY <1>1, IdleType, QuietKeeps DEF Ends

LEMMA TokenFacts ==
  ASSUME SessionsInv, NEW t \in live
  PROVE  t \in AnyToken /\ t[1] \in Families /\ issued[t[1]] > 0 /\ t[1] \notin revoked
  <1>1. t \in AnyToken /\ t[1] \in Families /\ t[2] \in Nat \ {0}
    BY DEF SessionsInv, Shape, AnyToken
  <1>2. t[2] <= issued[t[1]] /\ issued[t[1]] \in Nat
    BY <1>1 DEF SessionsInv, Numbered, Shape
  <1>3. t[1] \notin revoked
    BY DEF SessionsInv, Gone, LiveOf
  <1>4. QED
    BY <1>1, <1>2, <1>3

LEMMA EndSessionKeeps ==
  ASSUME SessionsInv, NEW w \in Workers, EndSession(w)
  PROVE  SessionsInv'
  <1>1. PICK t \in live :
          Goes(w, [Idle EXCEPT !.task = "revoke", !.at = "members", !.family = t[1],
                               !.claims = {t[1]}])
    BY DEF EndSession
  <1> DEFINE next == [Idle EXCEPT !.task = "revoke", !.at = "members", !.family = t[1],
                                  !.claims = {t[1]}]
  <1>2. t[1] \in Families /\ issued[t[1]] > 0
    BY TokenFacts
  <1>3. /\ next \in Work /\ next.task = "revoke" /\ next.at = "members" /\ next.family = t[1]
        /\ next.todo = {} /\ next.claims = {t[1]}
    BY <1>2 DEF Idle, Work, Calls
  <1>4. /\ work[w].at = "none" /\ UNCHANGED <<live, members, index, issued, torn, revoked>>
        /\ "none" \notin Issuing /\ "members" \notin Issuing
    BY DEF EndSession, Is, redis, story, Issuing
  <1>5. Goes(w, next) /\ Shape
    BY <1>1 DEF SessionsInv
  <1> HIDE DEF next
  <1>6. Moves(w, next)
    BY <1>3, <1>5, GoesMoves
  <1>7. \A f \in next.claims \ Busy' : issued[f] > 0 /\ Handled(w, f)'
    BY <1>2, <1>3, <1>6 DEF Moves, Handled
  <1>8. QED
    BY <1>2, <1>3, <1>4, <1>5, <1>7, QuietKeeps

LEMMA FindFamiliesKeeps ==
  ASSUME SessionsInv, NEW w \in Workers, FindFamilies(w)
  PROVE  SessionsInv'
  <1>1. PICK f \in index :
          Goes(w, [Idle EXCEPT !.task = "revoke", !.at = "active", !.family = f, !.claims = {f}])
    BY DEF FindFamilies
  <1> DEFINE next == [Idle EXCEPT !.task = "revoke", !.at = "active", !.family = f, !.claims = {f}]
  <1>2. f \in Families /\ issued[f] > 0
    BY DEF SessionsInv, Shape, Numbered
  <1>3. /\ next \in Work /\ next.task = "revoke" /\ next.at = "active" /\ next.family = f
        /\ next.todo = {} /\ next.claims = {f}
    BY <1>2 DEF Idle, Work, Calls
  <1>4. /\ work[w].at = "none" /\ UNCHANGED <<live, members, index, issued, torn, revoked>>
        /\ "none" \notin Issuing /\ "active" \notin Issuing
    BY DEF FindFamilies, Is, redis, story, Issuing
  <1>5. Goes(w, next) /\ Shape
    BY <1>1 DEF SessionsInv
  <1> HIDE DEF next
  <1>6. Moves(w, next)
    BY <1>3, <1>5, GoesMoves
  <1>7. \A g \in next.claims \ Busy' : issued[g] > 0 /\ Handled(w, g)'
    BY <1>2, <1>3, <1>6 DEF Moves, Handled
  <1>8. QED
    BY <1>2, <1>3, <1>4, <1>5, <1>7, QuietKeeps

LEMMA FindActiveKeeps ==
  ASSUME SessionsInv, NEW w \in Workers, FindActive(w)
  PROVE  SessionsInv'
  <1>1. /\ work[w].at = "active" /\ UNCHANGED <<live, members, index, issued, torn, revoked>>
        /\ "active" \notin Issuing /\ "members" \notin Issuing
    BY DEF FindActive, Is, redis, story, Issuing
  <1>2. CASE Ends(w)
    BY <1>1, <1>2, EndsQuietly
  <1>3. CASE To(w, "members")
    <2> DEFINE next == [work[w] EXCEPT !.at = "members"]
    <2>1. work[w] \in Work /\ Shape /\ Goes(w, next)
      BY <1>3 DEF SessionsInv, Shape, To
    <2>2. /\ next \in Work /\ next.task = work[w].task /\ next.at = "members"
          /\ next.family = work[w].family /\ next.todo = work[w].todo
          /\ next.claims = work[w].claims
      BY <2>1 DEF Work, Calls
    <2> HIDE DEF next
    <2>3. Moves(w, next)
      BY <2>1, <2>2, GoesMoves
    <2>4. \A f \in work[w].claims : issued[f] > 0 /\ Handled(w, f)
      BY DEF SessionsInv, Claimed
    <2>5. \A f \in next.claims \ Busy' : issued[f] > 0 /\ Handled(w, f)'
      BY <1>1, <2>2, <2>3, <2>4 DEF Moves, Handled, LiveOf
    <2>6. work[w].family \in Families /\ (work[w].task # "reset" => work[w].todo = {})
      BY <1>1 DEF SessionsInv, Shape, OfOneFamily, Claimed
    <2>7. QED
      BY <1>1, <2>1, <2>2, <2>5, <2>6, QuietKeeps
  <1>4. QED
    BY <1>2, <1>3 DEF FindActive

\* A family that is not busy and not torn keeps the hash of each living token.
LEMMA QuietFamily ==
  ASSUME SessionsInv, NEW f \in Families \ Busy, f \notin torn
  PROVE  LiveOf(f) \subseteq members[f] /\ (LiveOf(f) # {} => f \in index)
  <1>1. ASSUME NEW t \in LiveOf(f)
        PROVE  t \in members[f] /\ f \in index
    <2>1. t \in live /\ t[1] = f
      BY DEF LiveOf
    <2>2. /\ f \in index
          /\ t \in members[f] \/ \E v \in Workers : work[v].at = "sadd" /\ work[v].token = t
      BY <2>1 DEF SessionsInv, Found
    <2>3. \A v \in Workers : work[v].at = "sadd" => work[v].token # t
      BY <2>1 DEF SessionsInv, Numbered, Busy, Issuing
    <2>4. QED
      BY <2>2, <2>3
  <1>2. QED
    BY <1>1

LEMMA ReadMembersKeeps ==
  ASSUME SessionsInv, NEW w \in Workers, ReadMembers(w)
  PROVE  SessionsInv'
  <1> DEFINE next == [work[w] EXCEPT !.at = "delete", !.seen = members[work[w].family]]
  <1>1. /\ work[w].at = "members" /\ UNCHANGED <<live, members, index, issued, torn, revoked>>
        /\ "members" \notin Issuing /\ "delete" \notin Issuing
    BY DEF ReadMembers, Is, redis, story, Issuing
  <1>2. work[w].family \in Families /\ (work[w].task # "reset" => work[w].todo = {})
    BY <1>1 DEF SessionsInv, Shape, OfOneFamily, Claimed
  <1>3. work[w] \in Work /\ Shape /\ Goes(w, next) /\ members[work[w].family] \subseteq AnyToken
    BY <1>2 DEF SessionsInv, Shape, ReadMembers
  <1>4. /\ next \in Work /\ next.task = work[w].task /\ next.at = "delete"
        /\ next.family = work[w].family /\ next.seen = members[work[w].family]
        /\ next.todo = work[w].todo /\ next.claims = work[w].claims
    BY <1>3 DEF Work, Calls
  <1> HIDE DEF next
  <1>5. Moves(w, next)
    BY <1>3, <1>4, GoesMoves
  <1>6. ASSUME NEW f \in next.claims
        PROVE  issued[f] > 0 /\ Handled(w, f)'
    <2>1. f \in Families \ Busy /\ issued[f] > 0 /\ Handled(w, f)
      BY <1>3, <1>4 DEF SessionsInv, Claimed, Work
    <2>2. f \in torn \/ LiveOf(f) \subseteq members[f]
      BY <2>1, QuietFamily
    <2>3. LiveOf(f)' = LiveOf(f)
      BY <1>1 DEF LiveOf
    <2>4. QED
      BY <1>1, <1>4, <1>5, <2>1, <2>2, <2>3 DEF Handled, Moves
  <1>7. QED
    BY <1>1, <1>2, <1>3, <1>4, <1>6, QuietKeeps

LEMMA DelMembersKeeps ==
  ASSUME SessionsInv, NEW w \in Workers, DelMembers(w)
  PROVE  SessionsInv'
  <1> DEFINE next == [work[w] EXCEPT !.at = "forget", !.seen = {}]
  <1>1. /\ work[w].at = "delete" /\ UNCHANGED <<members, index, issued, torn, revoked>>
        /\ live' = live \ work[w].seen
        /\ "delete" \notin Issuing /\ "forget" \notin Issuing
    BY DEF DelMembers, Is, story, Issuing
  <1>2. work[w].family \in Families /\ (work[w].task # "reset" => work[w].todo = {})
    BY <1>1 DEF SessionsInv, Shape, OfOneFamily, Claimed
  <1>3. work[w] \in Work /\ Shape /\ Goes(w, next)
    BY DEF SessionsInv, Shape, DelMembers
  <1>4. /\ next \in Work /\ next.task = work[w].task /\ next.at = "forget"
        /\ next.family = work[w].family
        /\ next.todo = work[w].todo /\ next.claims = work[w].claims
    BY <1>3 DEF Work, Calls
  <1> HIDE DEF next
  <1>5. Moves(w, next)
    BY <1>3, <1>4, GoesMoves
  <1>6. ASSUME NEW f \in next.claims
        PROVE  issued[f] > 0 /\ Handled(w, f)'
    <2>1. issued[f] > 0 /\ Handled(w, f)
      BY <1>4 DEF SessionsInv, Claimed
    <2>2. LiveOf(f)' = LiveOf(f) \ work[w].seen
      BY <1>1 DEF LiveOf
    <2>3. QED
      BY <1>1, <1>4, <1>5, <2>1, <2>2 DEF Handled, Moves
  <1>7. QED
    BY <1>1, <1>2, <1>3, <1>4, <1>6, QuietKeeps

LEMMA ResetKeeps ==
  ASSUME SessionsInv, NEW w \in Workers, CompletePasswordReset(w)
  PROVE  SessionsInv'
  <1> DEFINE next == [Idle EXCEPT !.task = "reset", !.at = "families",
                                  !.claims = {t[1] : t \in live} \ Busy]
  <1>1. /\ work[w].at = "none" /\ UNCHANGED <<live, members, index, issued, torn, revoked>>
        /\ "none" \notin Issuing /\ "families" \notin Issuing \cup OfOneFamily
    BY DEF CompletePasswordReset, Is, redis, story, Issuing, OfOneFamily
  <1>2. \A t \in live : t[1] \in Families /\ issued[t[1]] > 0
    BY TokenFacts
  <1>3. Shape /\ Goes(w, next)
    BY DEF SessionsInv, CompletePasswordReset
  <1>4. /\ next \in Work /\ next.task = "reset" /\ next.at = "families"
        /\ next.claims \subseteq {t[1] : t \in live}
    BY <1>2 DEF Work, Calls, Idle
  <1> HIDE DEF next
  <1>5. Moves(w, next)
    BY <1>3, <1>4, GoesMoves
  <1>6. \A f \in next.claims \ Busy' : issued[f] > 0 /\ Handled(w, f)'
    BY <1>2, <1>4, <1>5 DEF Handled, Moves
  <1>7. QED
    BY <1>1, <1>3, <1>4, <1>6, QuietKeeps

LEMMA ReadFamiliesKeeps ==
  ASSUME SessionsInv, NEW w \in Workers, ReadFamilies(w)
  PROVE  SessionsInv'
  <1> DEFINE next == [work[w] EXCEPT !.at = "next", !.todo = index]
  <1>1. /\ work[w].at = "families" /\ UNCHANGED <<live, members, index, issued, torn, revoked>>
        /\ "families" \notin Issuing /\ "next" \notin Issuing \cup OfOneFamily
    BY DEF ReadFamilies, Is, redis, story, Issuing, OfOneFamily
  <1>2. work[w].task = "reset"
    BY <1>1 DEF SessionsInv, Claimed
  <1>3. work[w] \in Work /\ Shape /\ Goes(w, next) /\ index \subseteq Families
    BY DEF SessionsInv, Shape, ReadFamilies
  <1>4. /\ next \in Work /\ next.task = work[w].task /\ next.at = "next"
        /\ next.todo = index /\ next.claims = work[w].claims
    BY <1>3 DEF Work, Calls
  <1> HIDE DEF next
  <1>5. Moves(w, next)
    BY <1>3, <1>4, GoesMoves
  <1>6. ASSUME NEW f \in next.claims
        PROVE  issued[f] > 0 /\ Handled(w, f)'
    <2>1. f \in Families \ Busy /\ issued[f] > 0
      BY <1>3, <1>4 DEF SessionsInv, Claimed, Work
    <2>2. f \in torn \/ LiveOf(f) = {} \/ f \in index
      BY <2>1, QuietFamily
    <2>3. LiveOf(f)' = LiveOf(f)
      BY <1>1 DEF LiveOf
    <2>4. QED
      BY <1>1, <1>4, <1>5, <2>1, <2>2, <2>3 DEF Handled, Moves
  <1>7. QED
    BY <1>1, <1>2, <1>3, <1>4, <1>6, QuietKeeps

LEMMA NextFamilyKeeps ==
  ASSUME SessionsInv, NEW w \in Workers, NextFamily(w)
  PROVE  SessionsInv'
  <1>1. /\ work[w].at = "next" /\ UNCHANGED <<live, members, index, issued, torn, revoked>>
        /\ "next" \notin Issuing /\ "members" \notin Issuing
        /\ "unindex" \notin Issuing \cup OfOneFamily
    BY DEF NextFamily, Is, redis, story, Issuing, OfOneFamily
  <1>2. work[w].task = "reset" /\ work[w] \in Work /\ Shape
    BY <1>1 DEF SessionsInv, Claimed, Shape
  <1>3. \A f \in work[w].claims :
          issued[f] > 0 /\ (f \in torn \/ LiveOf(f) = {} \/ f \in work[w].todo)
    BY <1>1 DEF SessionsInv, Claimed, Handled
  <1>4. \A f : LiveOf(f)' = LiveOf(f)
    BY <1>1 DEF LiveOf
  <1>5. CASE work[w].todo = {}
    <2> DEFINE next == [work[w] EXCEPT !.at = "unindex"]
    <2>1. Goes(w, next)
      BY <1>5 DEF NextFamily, To
    <2>2. /\ next \in Work /\ next.task = work[w].task /\ next.at = "unindex"
          /\ next.todo = {} /\ next.claims = work[w].claims
      BY <1>2, <1>5 DEF Work, Calls
    <2> HIDE DEF next
    <2>3. Moves(w, next)
      BY <1>2, <2>1, <2>2, GoesMoves
    <2>4. \A f \in next.claims : issued[f] > 0 /\ Handled(w, f)'
      BY <1>1, <1>3, <1>4, <1>5, <2>2, <2>3 DEF Handled, Moves
    <2>5. QED
      BY <1>1, <1>2, <2>1, <2>2, <2>4, QuietKeeps
  <1>6. CASE work[w].todo # {}
    <2>1. PICK f \in work[w].todo :
            Goes(w, [work[w] EXCEPT !.at = "members", !.family = f, !.todo = @ \ {f}])
      BY <1>6 DEF NextFamily
    <2> DEFINE next == [work[w] EXCEPT !.at = "members", !.family = f, !.todo = @ \ {f}]
    <2>2. f \in Families
      BY <1>2 DEF Work
    <2>3. /\ next \in Work /\ next.task = work[w].task /\ next.at = "members"
          /\ next.family = f /\ next.todo = work[w].todo \ {f} /\ next.claims = work[w].claims
      BY <1>2, <2>2 DEF Work, Calls
    <2>4. Goes(w, next)
      BY <2>1
    <2> HIDE DEF next
    <2>5. Moves(w, next)
      BY <1>2, <2>3, <2>4, GoesMoves
    <2>6. \A g \in next.claims : issued[g] > 0 /\ Handled(w, g)'
      BY <1>1, <1>3, <1>4, <2>3, <2>5 DEF Handled, Moves
    <2>7. QED
      BY <1>1, <1>2, <2>2, <2>3, <2>4, <2>6, QuietKeeps
  <1>7. QED
    BY <1>5, <1>6

-----------------------------------------------------------------------------
\* The last step of a family's revocation, where what escaped it is torn.
LEMMA DelFamilyKeeps ==
  ASSUME SessionsInv, NEW w \in Workers, DelFamily(w)
  PROVE  SessionsInv'
  <1> DEFINE f == work[w].family
             next == IF work[w].task = "reset" THEN [work[w] EXCEPT !.at = "next"] ELSE Idle
  <1>1. Shape /\ Numbered /\ Found /\ Claimed /\ Gone
    BY DEF SessionsInv
  <1>2. /\ work[w].at = "forget" /\ UNCHANGED <<live, index, issued>>
        /\ members' = [members EXCEPT ![f] = {}]
        /\ torn' = IF members[f] \cap live = {} THEN torn ELSE torn \cup {f}
        /\ Goes(w, next)
        /\ revoked' = IF work[w].task = "reset" THEN revoked
                      ELSE revoked \cup (work[w].claims \ torn')
    BY DEF DelFamily, Is, To, Ends, Revokes
  <1>3. f \in Families /\ (work[w].task # "reset" => work[w].todo = {}) /\ work[w] \in Work
    BY <1>1, <1>2 DEF Shape, OfOneFamily, Claimed
  <1>4. next \in Work /\ next.at = (IF work[w].task = "reset" THEN "next" ELSE "none")
    BY <1>3, IdleType DEF Work, Calls, Idle
  <1>5. /\ work[w].task = "reset" => /\ next.task = "reset" /\ next.todo = work[w].todo
                                     /\ next.claims = work[w].claims
        /\ work[w].task # "reset" => next.claims = {}
    BY <1>3 DEF Work, Idle
  <1> HIDE DEF next
  <1>6. Moves(w, next)
    BY <1>1, <1>2, <1>4, GoesMoves
  <1>7. next.at \notin Issuing \cup OfOneFamily /\ work[w].at \notin Issuing
    BY <1>2, <1>4 DEF Issuing, OfOneFamily
  <1>8. \A g : LiveOf(g)' = LiveOf(g)
    BY <1>2 DEF LiveOf
  <1>9. \A g \in work[w].claims :
          /\ g \in Families \ Busy /\ issued[g] > 0
          /\ g \in torn \/ LiveOf(g) = {} \/ g \in work[w].todo
    BY <1>1, <1>2, <1>3 DEF Claimed, Handled, Work
  <1>10. \A g \in Busy' : g \in Busy
    BY <1>6, <1>7, BusyMoves
  <1>11. Shape'
    BY <1>1, <1>2, <1>3, <1>6, <1>7 DEF Shape, Moves
  <1>12. Numbered'
    <2>1. \A g \in index' : issued[g] > 0
      BY <1>1, <1>2 DEF Numbered
    <2>2. next.at \notin {"del", "srem", "sadd", "track"}
      BY <1>4
    <2>3. QED
      BY <1>1, <1>2, <1>4, <1>6, <2>1, <2>2, NumberedKept
  <1>13. Found'
    <2>1. \A t \in live : t \in members[t[1]] => t \in members'[t[1]] \/ t[1] \in torn'
      <3>1. ASSUME NEW t \in live, t \in members[t[1]], t[1] = f
            PROVE  t[1] \in torn'
        BY <1>2, <3>1
      <3>2. ASSUME NEW t \in live, t \in members[t[1]], t[1] # f
            PROVE  t \in members'[t[1]]
        <4>1. t[1] \in Families /\ members \in [Families -> SUBSET AnyToken]
          BY TokenFacts, <1>1 DEF Shape
        <4>2. QED
          BY <1>2, <3>2, <4>1
      <3>3. QED
        BY <3>1, <3>2
    <2>2. torn \subseteq torn' /\ work[w].at # "sadd"
      BY <1>2
    <2>3. QED
      BY <1>1, <1>2, <1>4, <1>6, <1>7, <2>1, <2>2, FoundKept
  <1>14. Claimed'
    <2>1. \A g \in next.claims : issued'[g] > 0 /\ Handled(w, g)'
      BY <1>2, <1>4, <1>5, <1>6, <1>8, <1>9 DEF Handled, Moves
    <2>2. torn \subseteq torn'
      BY <1>2
    <2>3. /\ next.at \notin Issuing
          /\ next.at \in {"families", "next", "unindex"} => next.task = "reset"
          /\ next.at \notin {"active", "members", "delete", "forget", "unindex"}
      BY <1>4, <1>5, <1>7
    <2>4. QED
      BY <1>1, <1>2, <1>4, <1>6, <1>8, <2>1, <2>2, <2>3, ClaimedKept
  <1>15. Gone'
    <2>1. \A g \in revoked' \ revoked :
            g \in Families /\ issued'[g] > 0 /\ g \notin Busy' /\ LiveOf(g)' = {}
      <3>1. ASSUME NEW g \in revoked' \ revoked
            PROVE  g \in Families /\ issued'[g] > 0 /\ g \notin Busy' /\ LiveOf(g)' = {}
        <4>1. work[w].task # "reset" /\ g \in work[w].claims /\ g \notin torn'
          BY <1>2, <3>1
        <4>2. g \notin torn
          BY <1>2, <4>1
        <4>3. QED
          BY <1>2, <1>3, <1>8, <1>9, <1>10, <4>1, <4>2
      <3>2. QED
        BY <3>1
    <2>2. QED
      BY <1>1, <1>2, <1>4, <1>6, <1>7, <1>8, <2>1, GoneKept
  <1>16. QED
    BY <1>11, <1>12, <1>13, <1>14, <1>15 DEF SessionsInv

LEMMA DelIndexKeeps ==
  ASSUME SessionsInv, NEW w \in Workers, DelIndex(w)
  PROVE  SessionsInv'
  <1>1. Shape /\ Numbered /\ Found /\ Claimed /\ Gone
    BY DEF SessionsInv
  <1>2. /\ work[w].at = "unindex" /\ UNCHANGED <<live, members, issued>>
        /\ index' = {} /\ torn' = torn \cup {f \in index : LiveOf(f) # {}}
        /\ Goes(w, Idle) /\ revoked' = revoked \cup (work[w].claims \ torn')
    BY DEF DelIndex, Is, Ends, Revokes
  <1>3. Idle \in Work /\ Idle.at = "none" /\ Idle.claims = {}
    BY IdleType DEF Idle
  <1>4. Moves(w, Idle)
    BY <1>1, <1>2, <1>3, GoesMoves
  <1>5. work[w].at \notin Issuing /\ "none" \notin Issuing \cup OfOneFamily /\ work[w] \in Work
    BY <1>1, <1>2 DEF Issuing, OfOneFamily, Shape
  <1>6. \A g : LiveOf(g)' = LiveOf(g)
    BY <1>2 DEF LiveOf
  <1>7. \A g \in work[w].claims :
          g \in Families \ Busy /\ issued[g] > 0 /\ (g \in torn \/ LiveOf(g) = {})
    BY <1>1, <1>2, <1>5 DEF Claimed, Handled, Work
  <1>8. \A g \in Busy' : g \in Busy
    BY <1>3, <1>4, <1>5, BusyMoves
  <1>9. Shape'
    BY <1>1, <1>2, <1>3, <1>4, <1>5 DEF Shape, Moves
  <1>10. Numbered'
    BY <1>1, <1>2, <1>3, <1>4, NumberedKept
  <1>11. Found'
    <2>1. \A t \in live : t[1] \in index => t[1] \in torn'
      BY <1>2 DEF LiveOf
    <2>2. QED
      BY <1>1, <1>2, <1>3, <1>4, <1>5, <2>1, FoundKept
  <1>12. Claimed'
    BY <1>1, <1>2, <1>3, <1>4, <1>5, <1>6, ClaimedKept
  <1>13. Gone'
    <2>1. \A g \in revoked' \ revoked :
            g \in Families /\ issued'[g] > 0 /\ g \notin Busy' /\ LiveOf(g)' = {}
      BY <1>2, <1>6, <1>7, <1>8
    <2>2. QED
      BY <1>1, <1>2, <1>3, <1>4, <1>5, <1>6, <2>1, GoneKept
  <1>14. QED
    BY <1>9, <1>10, <1>11, <1>12, <1>13 DEF SessionsInv

-----------------------------------------------------------------------------
\* Steps of a request that issues a token, but for the one that sets it.
LEMMA IssueKeeps ==
  ASSUME SessionsInv, NEW w \in Workers, NEW next \in Work, Goes(w, next),
         next.at \in Issuing, next.family \in Families, next.claims = {},
         \/ work[w].at = "none" /\ next.family \notin revoked
         \/ work[w].at \in Issuing /\ next.family = work[w].family,
         live' \subseteq live, UNCHANGED <<issued, torn, revoked>>,
         index' \subseteq index, \A f \in index : f \in index' \/ f = next.family,
         members' \in [Families -> SUBSET AnyToken],
         \A t \in live' : t \in members[t[1]] => t \in members'[t[1]],
         work[w].at = "sadd" => work[w].token \in members'[work[w].family],
         next.at \in {"del", "srem", "sadd"} =>
           /\ next.token \in AnyToken /\ next.token[1] = next.family
           /\ next.token[2] <= issued[next.family],
         next.at = "srem" => next.token \notin live',
         next.at \in {"sadd", "track"} => issued[next.family] > 0
  PROVE  SessionsInv'
  <1>1. Shape /\ Numbered /\ Found /\ Claimed /\ Gone
    BY DEF SessionsInv
  <1>2. Moves(w, next)
    BY <1>1, GoesMoves
  <1>3. Shape'
    <2>1. live' \subseteq AnyToken /\ index' \subseteq Families
      BY <1>1 DEF Shape
    <2>2. QED
      BY <1>1, <1>2, <2>1 DEF Shape, Moves
  <1>4. \A f \in Families : LiveOf(f)' \subseteq LiveOf(f)
    BY LiveShrinks
  <1>5. next.family \in Busy'
    BY <1>2, BusyMoves
  <1>6. Numbered'
    <2>1. \A f \in index' : issued[f] > 0
      BY <1>1 DEF Numbered
    <2>2. QED
      BY <1>1, <1>2, <2>1, NumberedKept
  <1>7. Found'
    <2>1. \A t \in live \cap live' : t[1] \in index => t[1] \in index' \cup Busy' \cup torn'
      BY <1>5
    <2>2. \A t \in live \cap live' :
            work[w].at = "sadd" /\ work[w].token = t => t \in members'[t[1]]
      BY <1>1 DEF Numbered
    <2>3. work[w].at \in Issuing => work[w].family \in Busy'
      <3>1. "none" \notin Issuing
        BY DEF Issuing
      <3>2. QED
        BY <1>5, <3>1
    <2>4. QED
      BY <1>1, <1>2, <2>1, <2>2, <2>3, FoundKept
  <1>8. Claimed'
    <2>1. next.at \notin {"families", "next", "unindex", "active", "members", "delete", "forget"}
      BY DEF Issuing
    <2>2. QED
      BY <1>1, <1>2, <1>4, <2>1, ClaimedKept
  <1>9. Gone'
    <2>1. next.family \notin revoked
      BY <1>1 DEF Gone, Busy
    <2>2. QED
      BY <1>1, <1>2, <1>4, <2>1, GoneKept
  <1>10. QED
    BY <1>3, <1>6, <1>7, <1>8, <1>9 DEF SessionsInv

LEMMA LoginKeeps ==
  ASSUME SessionsInv, NEW w \in Workers, Login(w)
  PROVE  SessionsInv'
  <1>1. PICK f \in Families :
          issued[f] = 0 /\ Goes(w, [Idle EXCEPT !.at = "set", !.family = f])
    BY DEF Login
  <1> DEFINE next == [Idle EXCEPT !.at = "set", !.family = f]
  <1>2. /\ next \in Work /\ next.at = "set" /\ next.family = f /\ next.claims = {}
    BY DEF Idle, Work, Calls
  <1>3. /\ work[w].at = "none" /\ UNCHANGED <<live, members, index, issued, torn, revoked>>
        /\ "set" \in Issuing
    BY DEF Login, Is, redis, story, Issuing
  <1>4. f \notin revoked /\ members \in [Families -> SUBSET AnyToken]
    BY <1>1 DEF SessionsInv, Gone, Shape
  <1>5. Goes(w, next)
    BY <1>1
  <1> HIDE DEF next
  <1>6. QED
    BY <1>2, <1>3, <1>4, <1>5, IssueKeeps

LEMMA RotateKeeps ==
  ASSUME SessionsInv, NEW w \in Workers, RotateRefresh(w)
  PROVE  SessionsInv'
  <1>1. PICK t \in live :
          Goes(w, [Idle EXCEPT !.at = "del", !.token = t, !.family = t[1]])
    BY DEF RotateRefresh
  <1> DEFINE next == [Idle EXCEPT !.at = "del", !.token = t, !.family = t[1]]
  <1>2. t \in AnyToken /\ t[1] \in Families \ revoked /\ t[2] <= issued[t[1]]
    BY TokenFacts DEF SessionsInv, Numbered
  <1>3. /\ next \in Work /\ next.at = "del" /\ next.family = t[1] /\ next.claims = {}
        /\ next.token = t
    BY <1>2 DEF Idle, Work, Calls
  <1>4. /\ work[w].at = "none" /\ UNCHANGED <<live, members, index, issued, torn, revoked>>
        /\ "del" \in Issuing /\ members \in [Families -> SUBSET AnyToken]
    BY DEF RotateRefresh, Is, redis, story, Issuing, SessionsInv, Shape
  <1>5. Goes(w, next)
    BY <1>1
  <1> HIDE DEF next
  <1>6. QED
    BY <1>2, <1>3, <1>4, <1>5, IssueKeeps

LEMMA DelTokenKeeps ==
  ASSUME SessionsInv, NEW w \in Workers, DelToken(w)
  PROVE  SessionsInv'
  <1> DEFINE next == [work[w] EXCEPT !.at = "srem"]
  <1>1. /\ work[w].at = "del" /\ UNCHANGED <<members, index, issued, torn, revoked>>
        /\ live' = live \ {work[w].token} /\ "del" \in Issuing /\ "srem" \in Issuing
    BY DEF DelToken, Is, story, Issuing
  <1>2. /\ work[w] \in Work /\ work[w].family \in Families /\ work[w].claims = {}
        /\ members \in [Families -> SUBSET AnyToken]
    BY <1>1 DEF SessionsInv, Shape, OfOneFamily, Claimed
  <1>3. /\ work[w].token \in AnyToken /\ work[w].token[1] = work[w].family
        /\ work[w].token[2] <= issued[work[w].family]
    BY <1>1 DEF SessionsInv, Numbered
  <1>4. /\ next \in Work /\ next.at = "srem" /\ next.family = work[w].family
        /\ next.token = work[w].token /\ next.claims = {}
    BY <1>2 DEF Work, Calls
  <1>5. Goes(w, next)
    BY DEF DelToken, To
  <1> HIDE DEF next
  <1>6. QED
    BY <1>1, <1>2, <1>3, <1>4, <1>5, IssueKeeps

LEMMA RemoveMemberKeeps ==
  ASSUME SessionsInv, NEW w \in Workers, RemoveMember(w)
  PROVE  SessionsInv'
  <1> DEFINE next == [work[w] EXCEPT !.at = "untrack", !.token = <<>>]
  <1>1. /\ work[w].at = "srem" /\ UNCHANGED <<live, index, issued, torn, revoked>>
        /\ members' = [members EXCEPT ![work[w].family] = @ \ {work[w].token}]
        /\ "srem" \in Issuing /\ "untrack" \in Issuing
    BY DEF RemoveMember, Is, story, Issuing
  <1>2. /\ work[w] \in Work /\ work[w].family \in Families /\ work[w].claims = {}
        /\ members \in [Families -> SUBSET AnyToken] /\ work[w].token \notin live
    BY <1>1 DEF SessionsInv, Shape, OfOneFamily, Claimed, Numbered
  <1>3. members' \in [Families -> SUBSET AnyToken]
    BY <1>1, <1>2
  <1>4. \A t \in live : t \in members[t[1]] => t \in members'[t[1]]
    BY <1>1, <1>2, TokenFacts
  <1>5. /\ next \in Work /\ next.at = "untrack" /\ next.family = work[w].family
        /\ next.claims = {}
    BY <1>2 DEF Work, Calls
  <1>6. Goes(w, next)
    BY DEF RemoveMember
  <1> HIDE DEF next
  <1>7. QED
    BY <1>1, <1>2, <1>3, <1>4, <1>5, <1>6, IssueKeeps

LEMMA UntrackKeeps ==
  ASSUME SessionsInv, NEW w \in Workers, UntrackSession(w)
  PROVE  SessionsInv'
  <1> DEFINE next == [work[w] EXCEPT !.at = "set"]
  <1>1. /\ work[w].at = "untrack" /\ UNCHANGED <<live, members, issued, torn, revoked>>
        /\ index' = index \ {work[w].family} /\ "untrack" \in Issuing /\ "set" \in Issuing
    BY DEF UntrackSession, Is, story, Issuing
  <1>2. /\ work[w] \in Work /\ work[w].family \in Families /\ work[w].claims = {}
        /\ members \in [Families -> SUBSET AnyToken]
    BY <1>1 DEF SessionsInv, Shape, OfOneFamily, Claimed
  <1>3. /\ next \in Work /\ next.at = "set" /\ next.family = work[w].family
        /\ next.claims = {}
    BY <1>2 DEF Work, Calls
  <1>4. Goes(w, next)
    BY DEF UntrackSession, To
  <1> HIDE DEF next
  <1>5. QED
    BY <1>1, <1>2, <1>3, <1>4, IssueKeeps

LEMMA AddMemberKeeps ==
  ASSUME SessionsInv, NEW w \in Workers, AddMember(w)
  PROVE  SessionsInv'
  <1> DEFINE next == [work[w] EXCEPT !.at = "track"]
  <1>1. /\ work[w].at = "sadd" /\ UNCHANGED <<live, index, issued, torn, revoked>>
        /\ members' = [members EXCEPT ![work[w].family] = @ \cup {work[w].token}]
        /\ "sadd" \in Issuing /\ "track" \in Issuing
    BY DEF AddMember, Is, story, Issuing
  <1>2. /\ work[w] \in Work /\ work[w].family \in Families /\ work[w].claims = {}
        /\ members \in [Families -> SUBSET AnyToken] /\ work[w].token \in AnyToken
        /\ issued[work[w].family] > 0
    BY <1>1 DEF SessionsInv, Shape, OfOneFamily, Claimed, Numbered
  <1>3. members' \in [Families -> SUBSET AnyToken] /\ work[w].token \in members'[work[w].family]
    BY <1>1, <1>2
  <1>4. \A t \in live : t \in members[t[1]] => t \in members'[t[1]]
    BY <1>1, <1>2, TokenFacts
  <1>5. /\ next \in Work /\ next.at = "track" /\ next.family = work[w].family
        /\ next.claims = {}
    BY <1>2 DEF Work, Calls
  <1>6. Goes(w, next)
    BY DEF AddMember, To
  <1> HIDE DEF next
  <1>7. QED
    BY <1>1, <1>2, <1>3, <1>4, <1>5, <1>6, IssueKeeps

\* The step that sets a token: of a family that is busy, under a new number.
LEMMA SetTokenKeeps ==
  ASSUME SessionsInv, NEW w \in Workers, SetToken(w)
  PROVE  SessionsInv'
  <1> DEFINE f == work[w].family
             new == Hash(f)
             next == [work[w] EXCEPT !.at = "sadd", !.token = new]
  <1>1. Shape /\ Numbered /\ Found /\ Claimed /\ Gone
    BY DEF SessionsInv
  <1>2. /\ work[w].at = "set" /\ UNCHANGED <<members, index, torn, revoked>>
        /\ live' = live \cup {new} /\ issued' = [issued EXCEPT ![f] = @ + 1] /\ Goes(w, next)
        /\ {"set", "sadd"} \subseteq Issuing
    BY DEF SetToken, Is, story, Issuing
  <1>3. work[w] \in Work /\ f \in Families /\ work[w].claims = {} /\ issued \in [Families -> Nat]
    BY <1>1, <1>2 DEF Shape, OfOneFamily, Claimed
  <1>4. /\ new \in AnyToken /\ new[1] = f /\ new[2] = issued[f] + 1
    BY <1>3 DEF Hash, AnyToken
  <1>5. /\ next \in Work /\ next.at = "sadd" /\ next.family = f /\ next.token = new
        /\ next.claims = {}
    <2> HIDE DEF new
    <2>1. QED
      BY <1>3, <1>4 DEF Work, Calls
  <1> HIDE DEF next, new
  <1>6. Moves(w, next)
    BY <1>1, <1>2, <1>5, GoesMoves
  <1>7. f \in Busy'
    BY <1>2, <1>5, <1>6, BusyMoves
  <1>8. /\ issued' \in [Families -> Nat] /\ issued'[f] = issued[f] + 1
        /\ \A g \in Families : issued[g] <= issued'[g] /\ (issued[g] > 0 => issued'[g] > 0)
    BY <1>2, <1>3
  <1>9. \A g \in Families \ Busy' : LiveOf(g)' \subseteq LiveOf(g)
    BY <1>2, <1>4, <1>7 DEF LiveOf
  <1>10. Shape'
    BY <1>1, <1>2, <1>3, <1>4, <1>5, <1>6, <1>8 DEF Shape, Moves
  <1>11. Numbered'
    <2>1. \A t \in live' : t[2] <= issued'[t[1]]
      <3>1. ASSUME NEW t \in live
            PROVE  t[2] <= issued'[t[1]]
        <4>1. t \in AnyToken /\ t[1] \in Families /\ t[2] \in Nat /\ t[2] <= issued[t[1]]
          BY <1>1, TokenFacts DEF Numbered, AnyToken
        <4>2. QED
          BY <1>3, <1>8, <4>1
      <3>2. new[2] <= issued'[new[1]]
        BY <1>3, <1>4, <1>8
      <3>3. QED
        BY <1>2, <3>1, <3>2
    <2>2. \A g \in index' : issued'[g] > 0
      BY <1>1, <1>2, <1>8 DEF Numbered, Shape
    <2>3. ASSUME NEW v \in Workers \ {w}, work[v].at \in {"del", "srem", "sadd"}
          PROVE  /\ work[v].token \in AnyToken /\ work[v].token[1] = work[v].family
                 /\ work[v].token[2] <= issued'[work[v].family] /\ work[v].token # new
      <3>1. /\ work[v].token \in AnyToken /\ work[v].token[1] = work[v].family
            /\ work[v].token[2] <= issued[work[v].family]
        BY <1>1, <2>3 DEF Numbered
      <3>2. work[v].family \in Families /\ work[v].token[2] \in Nat
        BY <3>1 DEF AnyToken
      <3>3. issued[work[v].family] <= issued'[work[v].family]
        BY <1>8, <3>2
      <3>4. work[v].token[2] <= issued'[work[v].family]
        BY <1>3, <1>8, <3>1, <3>2, <3>3
      <3>5. work[v].token # new
        BY <1>3, <1>4, <3>1, <3>2
      <3>6. QED
        BY <3>1, <3>4, <3>5
    <2>4. \A v \in Workers :
            work'[v].at \in {"del", "srem", "sadd"} =>
              /\ work'[v].token \in AnyToken /\ work'[v].token[1] = work'[v].family
              /\ work'[v].token[2] <= issued'[work'[v].family]
      <3>1. new[2] <= issued'[f]
        BY <1>3, <1>4, <1>8
      <3>2. QED
        BY <1>4, <1>5, <1>6, <2>3, <3>1 DEF Moves
    <2>5. \A v \in Workers : work'[v].at = "srem" => work'[v].token \notin live'
      BY <1>1, <1>2, <1>5, <1>6, <2>3 DEF Moves, Numbered
    <2>6. \A v \in Workers : work'[v].at \in {"sadd", "track"} => issued'[work'[v].family] > 0
      <3>1. \A v \in Workers : work[v].at \in {"sadd", "track"} =>
              work[v].family \in Families /\ issued[work[v].family] > 0
        BY <1>1 DEF Shape, Numbered, OfOneFamily, Issuing
      <3>2. issued'[f] > 0
        BY <1>3, <1>8
      <3>3. QED
        BY <1>5, <1>6, <1>8, <3>1, <3>2 DEF Moves
    <2>7. QED
      BY <2>1, <2>2, <2>4, <2>5, <2>6 DEF Numbered
  <1>12. Found'
    <2>1. \A t \in live' :
            \/ t \in live
            \/ t[1] \in Busy' /\ \E v \in Workers : work'[v].at = "sadd" /\ work'[v].token = t
      BY <1>2, <1>4, <1>5, <1>6, <1>7 DEF Moves
    <2>2. work[w].at # "sadd"
      BY <1>2
    <2>3. QED
      BY <1>1, <1>2, <1>5, <1>6, <1>7, <2>1, <2>2, FoundKept
  <1>13. Claimed'
    BY <1>1, <1>2, <1>5, <1>6, <1>8, <1>9, ClaimedKept
  <1>14. Gone'
    <2>1. f \notin revoked
      BY <1>1, <1>2 DEF Gone, Busy
    <2>2. QED
      BY <1>1, <1>2, <1>5, <1>6, <1>8, <1>9, <2>1, GoneKept
  <1>15. QED
    BY <1>10, <1>11, <1>12, <1>13, <1>14 DEF SessionsInv

\* The end of an issue, where the index or the families torn name its family.
LEMMA IssueEnds ==
  ASSUME SessionsInv, NEW w \in Workers, Ends(w), work[w].at \in Issuing,
         UNCHANGED <<live, members, issued, revoked>>, torn \subseteq torn',
         index \subseteq index', index' \subseteq Families, \A f \in index' : issued[f] > 0,
         work[w].family \in index' \cup torn',
         work[w].at = "sadd" => work[w].family \in torn'
  PROVE  SessionsInv'
  <1>1. Shape /\ Numbered /\ Found /\ Claimed /\ Gone
    BY DEF SessionsInv
  <1>2. Idle \in Work /\ Idle.at = "none" /\ Idle.claims = {}
    BY IdleType DEF Idle
  <1>3. Moves(w, Idle)
    BY <1>1, <1>2, GoesMoves DEF Ends
  <1>4. "none" \notin Issuing \cup OfOneFamily
    BY DEF Issuing, OfOneFamily
  <1>5. \A f : LiveOf(f)' = LiveOf(f)
    BY DEF LiveOf
  <1>6. Shape'
    BY <1>1, <1>2, <1>3, <1>4 DEF Shape, Moves
  <1>7. Numbered'
    BY <1>1, <1>2, <1>3, NumberedKept
  <1>8. Found'
    <2>1. \A t \in live : work[w].at = "sadd" /\ work[w].token = t => t[1] \in torn'
      BY <1>1 DEF Numbered
    <2>2. QED
      BY <1>1, <1>2, <1>3, <2>1, FoundKept
  <1>9. Claimed'
    BY <1>1, <1>2, <1>3, <1>4, <1>5, ClaimedKept
  <1>10. Gone'
    BY <1>1, <1>2, <1>3, <1>4, <1>5, GoneKept
  <1>11. QED
    BY <1>6, <1>7, <1>8, <1>9, <1>10 DEF SessionsInv

LEMMA TrackKeeps ==
  ASSUME SessionsInv, NEW w \in Workers, TrackSession(w)
  PROVE  SessionsInv'
  <1>1. /\ work[w].at = "track" /\ Ends(w) /\ UNCHANGED <<live, members, issued, torn, revoked>>
        /\ index' = index \cup {work[w].family} /\ "track" \in Issuing
    BY DEF TrackSession, Is, story, Issuing
  <1>2. work[w].family \in Families /\ issued[work[w].family] > 0 /\ index \subseteq Families
    BY <1>1 DEF SessionsInv, Shape, OfOneFamily, Numbered
  <1>3. \A f \in index : issued[f] > 0
    BY DEF SessionsInv, Numbered
  <1>4. QED
    BY <1>1, <1>2, <1>3, IssueEnds

LEMMA DiesKeeps ==
  ASSUME SessionsInv, NEW w \in Workers, Dies(w)
  PROVE  SessionsInv'
  <1>1. /\ Ends(w) /\ UNCHANGED <<live, members, index, issued, revoked>>
        /\ torn' = IF work[w].at \in Issuing THEN torn \cup {work[w].family} ELSE torn
    BY DEF Dies, redis
  <1>2. index \subseteq Families /\ \A f \in index : issued[f] > 0
    BY DEF SessionsInv, Shape, Numbered
  <1>3. CASE work[w].at \in Issuing
    BY <1>1, <1>2, <1>3, IssueEnds
  <1>4. CASE work[w].at \notin Issuing
    BY <1>1, <1>4, EndsQuietly
  <1>5. QED
    BY <1>3, <1>4

LEMMA ExpireKeeps ==
  ASSUME SessionsInv, live' \subseteq live,
         UNCHANGED <<members, index, issued, work, torn, revoked>>
  PROVE  SessionsInv'
  <1>1. Shape /\ Numbered /\ Found /\ Claimed /\ Gone
    BY DEF SessionsInv
  <1>2. Busy' = Busy /\ \A f : LiveOf(f)' \subseteq LiveOf(f)
    BY DEF Busy, LiveOf
  <1>3. Shape' /\ Numbered'
    BY <1>1 DEF Shape, Numbered
  <1>4. Found'
    BY <1>1, <1>2 DEF Found
  <1>5. \A w \in Workers : \A f : Handled(w, f) => Handled(w, f)'
    BY <1>2 DEF Handled
  <1>6. Claimed' /\ Gone'
    BY <1>1, <1>2, <1>5 DEF Claimed, Gone
  <1>7. QED
    BY <1>3, <1>4, <1>6 DEF SessionsInv

LEMMA SessionsStart == SessionsInit => SessionsInv
  <1>1. SUFFICES ASSUME SessionsInit PROVE SessionsInv
    OBVIOUS
  <1>2. /\ live = {} /\ members = [f \in Families |-> {}] /\ index = {} /\ revoked = {}
        /\ issued = [f \in Families |-> 0] /\ work = [w \in Workers |-> Idle]
    BY <1>1 DEF SessionsInit
  <1>3. /\ Idle \in Work /\ Idle.at = "none" /\ Idle.claims = {}
        /\ "none" \notin Issuing \cup OfOneFamily
    BY IdleType DEF Idle, Issuing, OfOneFamily
  <1>4. Shape /\ Numbered /\ Found /\ Claimed /\ Gone
    BY <1>2, <1>3 DEF Shape, Numbered, Found, Claimed, Gone
  <1>5. QED
    BY <1>4 DEF SessionsInv

LEMMA SessionsInductive ==
  ASSUME SessionsInv, [SessionsStep]_sessionsVars
  PROVE  SessionsInv'
  <1>1. CASE TokenExpires
    BY <1>1, ExpireKeeps DEF TokenExpires, story
  <1>2. CASE UNCHANGED sessionsVars
    BY <1>2, ExpireKeeps DEF sessionsVars
  <1>3. CASE \E w \in Workers :
          \/ Login(w) \/ RotateRefresh(w) \/ DelToken(w) \/ RemoveMember(w)
          \/ UntrackSession(w) \/ SetToken(w) \/ AddMember(w) \/ TrackSession(w)
    BY <1>3, LoginKeeps, RotateKeeps, DelTokenKeeps, RemoveMemberKeeps, UntrackKeeps,
       SetTokenKeeps, AddMemberKeeps, TrackKeeps
  <1>4. CASE \E w \in Workers :
          \/ EndSession(w) \/ FindFamilies(w) \/ FindActive(w)
          \/ ReadMembers(w) \/ DelMembers(w) \/ DelFamily(w)
          \/ CompletePasswordReset(w) \/ ReadFamilies(w) \/ NextFamily(w) \/ DelIndex(w)
          \/ Dies(w)
    BY <1>4, EndSessionKeeps, FindFamiliesKeeps, FindActiveKeeps, ReadMembersKeeps,
       DelMembersKeeps, DelFamilyKeeps, ResetKeeps, ReadFamiliesKeeps, NextFamilyKeeps,
       DelIndexKeeps, DiesKeeps
  <1>5. QED
    BY <1>1, <1>2, <1>3, <1>4 DEF SessionsStep

(***************************************************************************)
(* Once revokeFamily or completePasswordReset has ended a sign-in of which *)
(* no token was being issued meanwhile, and that no earlier failure had    *)
(* torn, none of its tokens can be rotated, nor will any be issued.        *)
(***************************************************************************)
THEOREM RevokedForGood == SessionsSpec => []QuietRevocation
  <1>1. SessionsInit => SessionsInv
    BY SessionsStart
  <1>2. SessionsInv /\ [SessionsStep]_sessionsVars => SessionsInv'
    BY SessionsInductive
  <1>3. SessionsInv => QuietRevocation
    BY DEF SessionsInv, Gone, LiveOf, QuietRevocation
  <1>4. QED
    BY <1>1, <1>2, <1>3, PTL DEF SessionsSpec
=============================================================================

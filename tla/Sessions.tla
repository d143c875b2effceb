------------------------------ MODULE Sessions ------------------------------
(***************************************************************************)
(* The refresh tokens of one person: signing in, rotating a token, signing *)
(* out, ending a session of the list and resetting the password, one Redis *)
(* call a step.  Redis keeps each token under its hash, a set of hashes    *)
(* per family (a family is one sign-in), and the person's set of families. *)
(***************************************************************************)
EXTENDS Naturals, FiniteSetsExt

CONSTANTS
  Workers,    \* the requests that main-service can have under way
  Families,   \* the sign-ins
  MaxTokens   \* the tokens that are ever issued

VARIABLES
  live,      \* refresh:<hash>: the tokens that can be rotated
  members,   \* refresh-family:<family>
  index,     \* refresh-by-user:<user>
  issued,    \* how many tokens each family was given
  work,      \* what each worker does
  torn,      \* families that the person's index, or their own, lost track of
  revoked    \* families whose revocation met no token being issued

ASSUME SessionsAssumption == MaxTokens \in Nat /\ "no family" \notin Families

sessionsVars == <<live, members, index, issued, work, torn, revoked>>
redis == <<live, members, index, issued>>
story == <<torn, revoked>>

Token == Families \X (1..MaxTokens)
Hash(family) == <<family, issued[family] + 1>>
LiveOf(family) == {t \in live : t[1] = family}

\* What a worker does, at which call it is, the token and the family it is
\* about, what it read, and the families it can claim to have revoked.
Idle ==
  [task |-> "none", at |-> "none", token |-> <<>>, family |-> "no family",
   seen |-> {}, todo |-> {}, claims |-> {}]

\* A token of the family is being issued.
Issuing == {"del", "srem", "untrack", "set", "sadd", "track"}
Busy == {work[w].family : w \in {w \in Workers : work[w].at \in Issuing}}

\* Bound: the tokens issued and those about to be.
MayIssue ==
  FoldSet(LAMBDA f, n : n + issued[f], 0, Families)
    + Cardinality({w \in Workers : work[w].at \in Issuing \ {"sadd", "track"}}) < MaxTokens

SessionsInit ==
  /\ live = {} /\ members = [f \in Families |-> {}] /\ index = {}
  /\ issued = [f \in Families |-> 0]
  /\ work = [w \in Workers |-> Idle]
  /\ torn = {} /\ revoked = {}

\* The next call of a worker; what is being issued by then is nobody's claim.
Goes(w, next) ==
  LET moved == [work EXCEPT ![w] = next]
      busy == {moved[v].family : v \in {v \in Workers : moved[v].at \in Issuing}}
  IN  work' = [v \in Workers |-> [moved[v] EXCEPT !.claims = @ \ busy]]

Is(w, call) == work[w].at = call
To(w, call) == Goes(w, [work[w] EXCEPT !.at = call])
Ends(w) == Goes(w, Idle)

-----------------------------------------------------------------------------
\* Registering and signing in begin a family.
Login(w) ==
  /\ Is(w, "none")
  /\ \E f \in Families :
       /\ issued[f] = 0 /\ f \notin Busy /\ MayIssue
       /\ Goes(w, [Idle EXCEPT !.at = "set", !.family = f])
  /\ UNCHANGED <<redis, story>>

\* A client may hold any token that was ever issued.  A family's rotations in
\* an hour are limited; one that is refused, or finds no token, changes nothing.
RotateRefresh(w) ==
  /\ Is(w, "none")
  /\ \E t \in live :
       /\ MayIssue
       /\ Goes(w, [Idle EXCEPT !.at = "del", !.token = t, !.family = t[1]])
  /\ UNCHANGED <<redis, story>>

DelToken(w) ==
  /\ Is(w, "del")
  /\ live' = live \ {work[w].token}
  /\ To(w, "srem")
  /\ UNCHANGED <<members, index, issued, story>>

RemoveMember(w) ==
  /\ Is(w, "srem")
  /\ members' = [members EXCEPT ![work[w].family] = @ \ {work[w].token}]
  /\ Goes(w, [work[w] EXCEPT !.at = "untrack", !.token = <<>>])
  /\ UNCHANGED <<live, index, issued, story>>

UntrackSession(w) ==
  /\ Is(w, "untrack")
  /\ index' = index \ {work[w].family}
  /\ To(w, "set")
  /\ UNCHANGED <<live, members, issued, story>>

\* issueTokens, in its three calls.
SetToken(w) ==
  LET f == work[w].family
  IN  /\ Is(w, "set")
      /\ live' = live \cup {Hash(f)}
      /\ issued' = [issued EXCEPT ![f] = @ + 1]
      /\ Goes(w, [work[w] EXCEPT !.at = "sadd", !.token = Hash(f)])
      /\ UNCHANGED <<members, index, story>>

\* Mutant: the rotated token is not added to its family.
AddNoMember(w) ==
  /\ Is(w, "sadd")
  /\ To(w, "track")
  /\ UNCHANGED <<redis, story>>

AddMember(w) ==
  /\ Is(w, "sadd")
  /\ members' = [members EXCEPT ![work[w].family] = @ \cup {work[w].token}]
  /\ To(w, "track")
  /\ UNCHANGED <<live, index, issued, story>>

TrackSession(w) ==
  /\ Is(w, "track")
  /\ index' = index \cup {work[w].family}
  /\ Ends(w)
  /\ UNCHANGED <<live, members, issued, story>>

-----------------------------------------------------------------------------
\* A token that is not kept any more signs nobody out.
EndSession(w) ==
  /\ Is(w, "none")
  /\ \E t \in live :
       Goes(w, [Idle EXCEPT !.task = "revoke", !.at = "members", !.family = t[1],
                            !.claims = {t[1]}])
  /\ UNCHANGED <<redis, story>>

\* DELETE /v1/sessions/:family looks for it in the list of the active sessions.
FindFamilies(w) ==
  /\ Is(w, "none")
  /\ \E f \in index :
       Goes(w, [Idle EXCEPT !.task = "revoke", !.at = "active", !.family = f, !.claims = {f}])
  /\ UNCHANGED <<redis, story>>

FindActive(w) ==
  /\ Is(w, "active")
  /\ IF members[work[w].family] \cap live # {} THEN To(w, "members") ELSE Ends(w)
  /\ UNCHANGED <<redis, story>>

\* revokeFamily: the hashes are read, deleted, and the set after them.
ReadMembers(w) ==
  /\ Is(w, "members")
  /\ Goes(w, [work[w] EXCEPT !.at = "delete", !.seen = members[work[w].family]])
  /\ UNCHANGED <<redis, story>>

DelMembers(w) ==
  /\ Is(w, "delete")
  /\ live' = live \ work[w].seen
  /\ Goes(w, [work[w] EXCEPT !.at = "forget", !.seen = {}])
  /\ UNCHANGED <<members, index, issued, story>>

Revokes(w) == revoked' = revoked \cup (work[w].claims \ torn')

\* A token that was added since the hashes were read stays, and nothing has its hash.
DelFamily(w) ==
  /\ Is(w, "forget")
  /\ members' = [members EXCEPT ![work[w].family] = {}]
  /\ torn' = IF members[work[w].family] \cap live = {} THEN torn ELSE torn \cup {work[w].family}
  /\ IF work[w].task = "reset"
     THEN To(w, "next") /\ UNCHANGED revoked
     ELSE Ends(w) /\ Revokes(w)
  /\ UNCHANGED <<live, index, issued>>

-----------------------------------------------------------------------------
\* A link that was asked for is valid at any time, until a reset with it is over.
\* The new password is set before the families are read.
CompletePasswordReset(w) ==
  /\ Is(w, "none")
  /\ Goes(w, [Idle EXCEPT !.task = "reset", !.at = "families",
                          !.claims = {t[1] : t \in live} \ Busy])
  /\ UNCHANGED <<redis, story>>

ReadFamilies(w) ==
  /\ Is(w, "families")
  /\ Goes(w, [work[w] EXCEPT !.at = "next", !.todo = index])
  /\ UNCHANGED <<redis, story>>

NextFamily(w) ==
  /\ Is(w, "next")
  /\ IF work[w].todo = {} THEN To(w, "unindex")
     ELSE \E f \in work[w].todo :
            Goes(w, [work[w] EXCEPT !.at = "members", !.family = f, !.todo = @ \ {f}])
  /\ UNCHANGED <<redis, story>>

\* A family that was begun since they were read is taken off the index as well.
DelIndex(w) ==
  /\ Is(w, "unindex")
  /\ index' = {}
  /\ torn' = torn \cup {f \in index : LiveOf(f) # {}}
  /\ Ends(w) /\ Revokes(w)
  /\ UNCHANGED <<live, members, issued>>

-----------------------------------------------------------------------------
\* A worker dies, or Redis does not answer it: what it has done is not undone.
Dies(w) ==
  /\ ~Is(w, "none")
  /\ torn' = IF work[w].at \in Issuing THEN torn \cup {work[w].family} ELSE torn
  /\ Ends(w)
  /\ UNCHANGED <<redis, revoked>>

\* After 30 days without use, while no request is under way; the sets it is in
\* are kept as long.
TokenExpires ==
  /\ \A w \in Workers : Is(w, "none")
  /\ \E t \in live : live' = live \ {t}
  /\ UNCHANGED <<members, index, issued, work, story>>

SessionsStep ==
  \/ \E w \in Workers :
       \/ Login(w) \/ RotateRefresh(w) \/ DelToken(w) \/ RemoveMember(w)
       \/ UntrackSession(w) \/ SetToken(w) \/ AddMember(w) \/ TrackSession(w)
       \/ EndSession(w) \/ FindFamilies(w) \/ FindActive(w)
       \/ ReadMembers(w) \/ DelMembers(w) \/ DelFamily(w)
       \/ CompletePasswordReset(w) \/ ReadFamilies(w) \/ NextFamily(w) \/ DelIndex(w)
       \/ Dies(w)
  \/ TokenExpires

SessionsSpec == SessionsInit /\ [][SessionsStep]_sessionsVars

-----------------------------------------------------------------------------
\* Once a sign-in was ended by signing out, from the list of the sessions or
\* by a reset of the password, none of its tokens can be rotated, if no token
\* of it was being issued meanwhile (auth.service.ts: revokeFamily,
\* completePasswordReset).
QuietRevocation == \A t \in live : t[1] \notin revoked
=============================================================================

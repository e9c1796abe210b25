----------------------------- MODULE Discovery -----------------------------
(***************************************************************************)
(* A first discovery, from claiming a session to the model it pays for:    *)
(* `DiscoveryService.claim_and_ground`, `start`, `run_discovery` and       *)
(* `finalize_discovery`, with `SessionService.create_session_report`.      *)
(*                                                                         *)
(* A process is one invocation: of `requivo discover` (which claims, then  *)
(* starts or drafts), of the web form (which claims and runs), or of a run *)
(* on a session that exists.  A language model's answer takes minutes, and *)
(* no lock is held for it.  What keeps discoveries apart is the guard, a   *)
(* flock on <slug>.discovering that is refused and never waited for.       *)
(* Whoever creates, applies or deletes a session by hand takes no guard.   *)
(*                                                                         *)
(* One step is one operation of the store: a rename, or a block under the  *)
(* session's write lock.  The reads of one lookup are one step as well.    *)
(***************************************************************************)
EXTENDS Naturals, FiniteSets

CONSTANTS Procs,      \* invocations
          Requests,   \* request texts
          Cards,      \* context-card selections
          AllCards,   \* the selection of every card: none was chosen
          Perimeters, \* the installed perimeters, two at least
          Default,    \* the perimeter a claim guesses
          Slugs,
          Bases,      \* the slugs that a request suggests or a user asks for
          Asked,      \* the identities invocations are made for
          AskedByHand, \* the identities sessions are created for by hand
          Suffixed,   \* Suffixed[b, i]: b with the hash of identity i appended
          MaxByHand,  \* bound: what users do by hand meanwhile
          Nobody, Absent, Ready, Ended, Crashed

Identities == [request : Requests, cards : Cards, perimeter : Perimeters]

ASSUME DiscoveryAssumption ==
    /\ AllCards \in Cards
    /\ Default \in Perimeters
    /\ Bases \subseteq Slugs
    /\ Asked \subseteq Identities /\ AskedByHand \subseteq Identities
    /\ Suffixed \in [Slugs \X Identities -> Slugs]
    /\ MaxByHand \in Nat
    /\ Nobody \notin Procs

VARIABLES store,   \* store[s]: the session under slug s, or Absent
          guard,   \* guard[s]: who holds s's .discovering file
          at,      \* at[p]: the step p is at, and what it works on
          byHand,  \* how often users have acted
          deleted, \* ghost: the slugs of sessions that users have deleted
          stranded \* ghost: those whose session a claim deleted while they discovered it

vars == <<store, guard, at, byHand, deleted, stranded>>

\* fit is the router's verdict.  session.json has none before it is recorded:
\* of those, "guessed" tells the sessions whose perimeter waits for the router.
Fits == {"unasked", "guessed", "fits", "no_fit"}

\* maker is a ghost: the invocation that created the session, or Nobody by hand.
Sessions == [identity : Identities, model : {"none", "applied", "discovered"},
             fit : Fits, maker : Procs \cup {Nobody}]

Entries == {"discover", "draft", "web", "run"}

\* What a call of create_session_report is for.
Phases == {"claim", "route", "ground", "start", "finalize"}

Judging == {"routing", "rerouting", "noting", "grounding", "narrowing", "settling"}
Claiming == {"looking", "creating", "comparing", "welcoming", "guarding", "backing_out"} \cup Judging
Discovering == {"checking", "entering", "rechecking", "paying", "drafting", "applying"}

\* base is the slug asked for, slug the one at hand, created whether this call made it.
Places == [step : Claiming \cup Discovering, entry : Entries, phase : Phases,
           identity : Identities, named : {"yes", "no"}, base : Slugs, slug : Slugs,
           created : {"mine", "theirs"}, fit : Fits]

\* The marks are told from what they stand beside.
ASSUME MarksAssumption ==
    /\ Absent \notin Sessions
    /\ {Ready, Ended, Crashed} \cap Places = {}
    /\ Ready # Crashed

TypeOK ==
    /\ store \in [Slugs -> Sessions \cup {Absent}]
    /\ guard \in [Slugs -> Procs \cup {Nobody}]
    /\ at \in [Procs -> Places \cup {Ready, Ended, Crashed}]
    /\ byHand \in 0..MaxByHand
    /\ deleted \subseteq Slugs
    /\ stranded \subseteq Procs

Init ==
    /\ store = [s \in Slugs |-> Absent]
    /\ guard = [s \in Slugs |-> Nobody]
    /\ at = [p \in Procs |-> Ready]
    /\ byHand = 0
    /\ deleted = {}
    /\ stranded = {}

----------------------------------------------------------------------------
Active(p) == at[p] \notin {Ready, Ended, Crashed}
In(p, step) == Active(p) /\ at[p].step = step
Goto(p, step) == at' = [at EXCEPT ![p].step = step]

Exists(s) == store[s] # Absent
Unmodelled(s) == Exists(s) /\ store[s].model = "none"

\* Faulty variant: a guard is given back only where the call returns.
LeaveHolding(p) ==
    /\ at' = [at EXCEPT ![p] = Ended]
    /\ guard' = [s \in Slugs |-> IF guard[s] = p /\ ~In(p, "backing_out") THEN Nobody ELSE guard[s]]

\* The call returns or raises, and its guards are given back either way.
Leave(p) ==
    /\ at' = [at EXCEPT ![p] = Ended]
    /\ guard' = [s \in Slugs |-> IF guard[s] = p THEN Nobody ELSE guard[s]]

\* p is discovering the session under s.
Discovers(p, s) ==
    /\ Active(p) /\ at[p].slug = s /\ at[p].entry # "draft"
    /\ at[p].step \in Discovering \/ at[p].phase = "finalize"

Guarded(p, s) == guard[s] \in {p, Nobody}
Take(p, s) == guard' = [guard EXCEPT ![s] = p]

----------------------------------------------------------------------------
(* The two ways in                                                         *)

Place(entry, phase, identity, named, base, step) ==
    [step |-> step, entry |-> entry, phase |-> phase, identity |-> identity, named |-> named,
     base |-> base, slug |-> base, created |-> "theirs", fit |-> "unasked"]

\* claim_and_ground takes the guard on the slug it asks for before anything else.
\* With no perimeter named, the default is the guess it claims under.
Claim(p, entry, identity, named, base) ==
    /\ at[p] = Ready
    /\ entry \in {"discover", "draft"}
    /\ guard[base] = Nobody
    /\ Take(p, base)
    /\ \/ /\ named = "yes"
          /\ at' = [at EXCEPT ![p] = Place(entry, "claim", identity, "yes", base, "creating")]
       \/ /\ named = "no" /\ identity.perimeter = Default
          /\ at' = [at EXCEPT ![p] = Place(entry, "claim", identity, "no", base, "looking")]
    /\ UNCHANGED <<store, byHand, deleted, stranded>>

\* The web form claims through create_session, with no guard and no judgment.
ClaimOnTheWeb(p, identity, base) ==
    /\ at[p] = Ready
    /\ identity.perimeter = Default
    /\ at' = [at EXCEPT ![p] = Place("web", "start", identity, "yes", base, "creating")]
    /\ UNCHANGED <<store, guard, byHand, deleted, stranded>>

\* run_discovery's snapshot of a session, and its first look at the revision.
Run(p, s) ==
    /\ at[p] = Ready
    /\ Unmodelled(s)
    /\ at' = [at EXCEPT ![p] = Place("run", "start", store[s].identity, "yes", s, "entering")]
    /\ UNCHANGED <<store, guard, byHand, deleted, stranded>>

----------------------------------------------------------------------------
(* create_session_report                                                   *)

Candidates(base, identity) == {base, Suffixed[base, identity]}

\* find_existing_session, asked of each installed perimeter: the one it is found
\* under is as good as named.
Look(p) ==
    /\ In(p, "looking")
    /\ LET under(q) == [at[p].identity EXCEPT !.perimeter = q]
           found == {q \in Perimeters : \E s \in Candidates(at[p].base, under(q)) :
                        Exists(s) /\ store[s].identity = under(q)}
       IN  \/ /\ found = {}
              /\ Goto(p, "creating")
           \/ \E q \in found : at' = [at EXCEPT ![p].step = "creating", ![p].named = "yes",
                                                ![p].identity = under(q)]
    /\ UNCHANGED <<store, guard, byHand, deleted, stranded>>

\* The rename that is the claim on a candidate slug.
Create(p) ==
    /\ In(p, "creating")
    /\ LET s == at[p].slug
       IN  \/ /\ Exists(s)
              /\ Goto(p, "comparing")
              /\ UNCHANGED store
           \/ /\ ~Exists(s)
              /\ store' = [store EXCEPT ![s] =
                    [identity |-> at[p].identity, model |-> "none", maker |-> p,
                     fit |-> IF at[p].named = "no" THEN "guessed" ELSE "unasked"]]
              /\ at' = [at EXCEPT ![p].step = "welcoming", ![p].created = "mine"]
    /\ UNCHANGED <<guard, byHand, deleted, stranded>>

\* What follows when the session at hand, with no model, is the one to go on with.
Onward(p, created) ==
    at' = [at EXCEPT ![p].created = created, ![p].step =
              CASE at[p].phase \in {"claim", "route", "ground"} -> "guarding"
                [] at[p].phase = "start" /\ at[p].entry = "web" -> "checking"
                [] at[p].phase = "start" /\ at[p].entry # "web" -> "entering"
                [] at[p].phase = "finalize" -> "applying"]

\* _require_revision_zero, on the metadata that create_session_report returned.
GoOnAtRevisionZero(p, created) ==
    IF Unmodelled(at[p].slug) THEN Onward(p, created) /\ UNCHANGED guard ELSE Leave(p)

\* Faulty variant: whatever session a claim lands on is taken for its own.
CompareTakingCredit(p) ==
    /\ In(p, "comparing")
    /\ LET s == at[p].slug
           next == Suffixed[at[p].base, at[p].identity]
           same == Exists(s) /\ store[s].identity = at[p].identity
       IN  \/ same /\ GoOnAtRevisionZero(p, "mine")
           \/ /\ ~same /\ s # next
              /\ at' = [at EXCEPT ![p].step = "creating", ![p].slug = next]
              /\ UNCHANGED guard
           \/ ~same /\ s = next /\ Leave(p)
    /\ UNCHANGED <<store, byHand, deleted, stranded>>

\* A candidate that was taken: the same identity is the same session; any other
\* sends the claim on to the suffixed slug, and fails it there.
Compare(p) ==
    /\ In(p, "comparing")
    /\ LET s == at[p].slug
           next == Suffixed[at[p].base, at[p].identity]
           same == Exists(s) /\ store[s].identity = at[p].identity
       IN  \/ same /\ GoOnAtRevisionZero(p, "theirs")
           \/ /\ ~same /\ s # next
              /\ at' = [at EXCEPT ![p].step = "creating", ![p].slug = next]
              /\ UNCHANGED guard
           \/ ~same /\ s = next /\ Leave(p)
    /\ UNCHANGED <<store, byHand, deleted, stranded>>

\* record_docs_language, a second write to the session just created.
Welcome(p) ==
    /\ In(p, "welcoming")
    /\ GoOnAtRevisionZero(p, "mine")
    /\ UNCHANGED <<store, byHand, deleted, stranded>>

----------------------------------------------------------------------------
(* claim_and_ground: the judgments                                         *)

\* Faulty variant: only the slug asked for is guarded (#656).
GuardClaimNowhere(p) ==
    /\ In(p, "guarding")
    /\ Goto(p, IF at[p].phase = "claim" /\ at[p].named = "no" THEN "routing"
               ELSE IF at[p].phase = "claim" THEN "grounding" ELSE "noting")
    /\ UNCHANGED <<store, guard, byHand, deleted, stranded>>

\* _guard_claim: hold the guard of the slug the claim landed on as well.
GuardClaim(p) ==
    /\ In(p, "guarding")
    /\ LET s == at[p].slug
       IN  \/ /\ Guarded(p, s)
              /\ Take(p, s)
              /\ Goto(p, IF at[p].phase = "claim" /\ at[p].named = "no" THEN "routing"
                         ELSE IF at[p].phase = "claim" THEN "grounding" ELSE "noting")
           \/ /\ ~Guarded(p, s)
              /\ Goto(p, "backing_out")
              /\ UNCHANGED guard
    /\ UNCHANGED <<store, byHand, deleted, stranded>>

\* What _delete_if_safe may remove: a session this call created, and still empty.
Deletable(p) == at[p].created = "mine" /\ Unmodelled(at[p].slug)

Delete(p) ==
    /\ Deletable(p)
    /\ store' = [store EXCEPT ![at[p].slug] = Absent]
    /\ stranded' = stranded \cup {q \in Procs \ {p} : Discovers(q, at[p].slug)}

\* _delete_if_safe on the way out of a claim that came to nothing.
BackOut(p) ==
    /\ In(p, "backing_out")
    /\ \/ Delete(p)
       \/ ~Deletable(p) /\ UNCHANGED <<store, stranded>>
    /\ Leave(p)
    /\ UNCHANGED <<byHand, deleted>>

\* Faulty variants: a failed call leaves the guess behind (#601), or a perimeter is
\* taken from the answer without being looked up.
RouteFailingOpen(p) ==
    /\ In(p, "routing")
    /\ \/ Leave(p) /\ UNCHANGED store
       \/ at' = [at EXCEPT ![p].step = "noting", ![p].fit = "fits"] /\ UNCHANGED <<store, guard>>
    /\ UNCHANGED <<byHand, deleted, stranded>>

RouteAnywhere(p) ==
    /\ In(p, "routing")
    /\ at' = [at EXCEPT ![p].step = "rerouting", ![p].fit = "fits", ![p].identity.perimeter = Absent]
    /\ UNCHANGED <<store, guard, byHand, deleted, stranded>>

\* The router's answer: a perimeter, none that fits, several, or a failed call.
Route(p) ==
    /\ In(p, "routing")
    /\ \/ Goto(p, "backing_out")
       \/ at' = [at EXCEPT ![p].step = "noting", ![p].fit = "no_fit"]
       \/ at' = [at EXCEPT ![p].step = "noting", ![p].fit = "fits"]
       \/ \E q \in Perimeters \ {Default} :
             at' = [at EXCEPT ![p].step = "rerouting", ![p].fit = "fits",
                              ![p].identity.perimeter = q]
    /\ UNCHANGED <<store, guard, byHand, deleted, stranded>>

\* _reclaim_under: the empty session of this call is deleted, and claimed again
\* under the identity the verdict names.  A session that has gone is an error.
Reclaim(p, phase) ==
    /\ Delete(p)
    /\ at' = [at EXCEPT ![p].step = "creating", ![p].phase = phase, ![p].slug = at[p].base]
    /\ UNCHANGED <<guard, byHand, deleted>>

ReclaimRefused(p) ==
    at[p].created = "theirs" \/ (Exists(at[p].slug) /\ ~Unmodelled(at[p].slug))

SessionGone(p) ==
    /\ at[p].created = "mine" /\ ~Exists(at[p].slug)
    /\ Leave(p)
    /\ UNCHANGED <<store, byHand, deleted, stranded>>

\* A verdict for another perimeter.  Where it cannot land, no verdict is noted.
Reroute(p) ==
    /\ In(p, "rerouting")
    /\ \/ Reclaim(p, "route")
       \/ SessionGone(p)
       \/ /\ ReclaimRefused(p)
          /\ at' = [at EXCEPT ![p].step = "grounding", ![p].created = "theirs",
                              ![p].fit = "unasked", ![p].identity.perimeter = Default]
          /\ UNCHANGED <<store, guard, byHand, deleted, stranded>>

\* _record_route, before the fallible judgment of the grounding; and again after a
\* re-claim for the grounding, when it is the last thing to do.
Note(p) ==
    /\ In(p, "noting")
    /\ LET s == at[p].slug
           next == IF at[p].phase = "ground" THEN "settling" ELSE "grounding"
       IN  \/ /\ at[p].fit = "unasked"
              /\ Goto(p, next)
              /\ UNCHANGED <<store, guard>>
           \/ /\ at[p].fit # "unasked" /\ Exists(s)
              /\ store' = [store EXCEPT ![s].fit = at[p].fit]
              /\ Goto(p, next)
              /\ UNCHANGED guard
           \/ /\ at[p].fit # "unasked" /\ ~Exists(s)
              /\ Leave(p)
              /\ UNCHANGED store
    /\ UNCHANGED <<byHand, deleted, stranded>>

\* judge_grounding: not asked when cards were chosen; a failed call; no card, or no
\* session of this call to narrow; or the cards to narrow to.
Ground(p) ==
    /\ In(p, "grounding")
    /\ \/ Goto(p, "settling") /\ UNCHANGED guard
       \/ at[p].identity.cards = AllCards /\ Leave(p)
       \/ /\ at[p].identity.cards = AllCards /\ at[p].created = "mine"
          /\ \E c \in Cards \ {AllCards} :
                at' = [at EXCEPT ![p].step = "narrowing", ![p].identity.cards = c]
          /\ UNCHANGED guard
    /\ UNCHANGED <<store, byHand, deleted, stranded>>

Narrow(p) ==
    /\ In(p, "narrowing")
    /\ \/ Reclaim(p, "ground")
       \/ SessionGone(p)
       \/ /\ ReclaimRefused(p)
          /\ at' = [at EXCEPT ![p].step = "noting", ![p].phase = "ground",
                              ![p].created = "theirs", ![p].identity.cards = AllCards]
          /\ UNCHANGED <<store, guard, byHand, deleted, stranded>>

\* claim_and_ground returns: its guards are given back before the discovery begins.
Settle(p) ==
    /\ In(p, "settling")
    /\ guard' = [s \in Slugs |-> IF guard[s] = p THEN Nobody ELSE guard[s]]
    /\ at' = [at EXCEPT ![p] = Place(at[p].entry, "start", at[p].identity, "yes", at[p].slug,
                                     IF at[p].entry = "draft" THEN "drafting" ELSE "creating")]
    /\ UNCHANGED <<store, byHand, deleted, stranded>>

----------------------------------------------------------------------------
(* start, run_discovery and finalize_discovery: the paid turn              *)

\* run_discovery's first look, for the web form.
Check(p) ==
    /\ In(p, "checking")
    /\ IF Unmodelled(at[p].slug) THEN Goto(p, "entering") /\ UNCHANGED guard ELSE Leave(p)
    /\ UNCHANGED <<store, byHand, deleted, stranded>>

\* _discovery_guard around the paid call.
Enter(p) ==
    /\ In(p, "entering")
    /\ IF guard[at[p].slug] = Nobody
       THEN Take(p, at[p].slug) /\ Goto(p, "rechecking")
       ELSE Leave(p)
    /\ UNCHANGED <<store, byHand, deleted, stranded>>

\* Faulty variant: the look before the guard is taken for good (#209).
RecheckSkipped(p) ==
    /\ In(p, "rechecking")
    /\ Goto(p, "paying")
    /\ UNCHANGED <<store, guard, byHand, deleted, stranded>>

\* The revision is read again inside the guard: this is the check that counts.
Recheck(p) ==
    /\ In(p, "rechecking")
    /\ IF Unmodelled(at[p].slug) THEN Goto(p, "paying") /\ UNCHANGED guard ELSE Leave(p)
    /\ UNCHANGED <<store, byHand, deleted, stranded>>

\* The provider answers, or fails.  start claims once more before it applies.
Pay(p) ==
    /\ In(p, "paying")
    /\ \/ Leave(p)
       \/ /\ IF at[p].entry = "discover"
             THEN at' = [at EXCEPT ![p].step = "creating", ![p].phase = "finalize",
                                   ![p].base = at[p].slug]
             ELSE Goto(p, "applying")
          /\ UNCHANGED guard
    /\ UNCHANGED <<store, byHand, deleted, stranded>>

\* The turns of an interactive draft, paid for under no guard: two drafts, or a draft
\* and a start, may be paying for one session.
Draft(p) ==
    /\ In(p, "drafting")
    /\ \/ Leave(p)
       \/ /\ at' = [at EXCEPT ![p].step = "creating", ![p].phase = "finalize"]
          /\ UNCHANGED guard
    /\ UNCHANGED <<store, byHand, deleted, stranded>>

\* update_model with expected_revision=0.
Apply(p) ==
    /\ In(p, "applying")
    /\ store' = IF Unmodelled(at[p].slug)
                THEN [store EXCEPT ![at[p].slug].model =
                         IF at[p].entry = "draft" THEN "applied" ELSE "discovered"]
                ELSE store
    /\ Leave(p)
    /\ UNCHANGED <<byHand, deleted, stranded>>

----------------------------------------------------------------------------
(* The rest of the world                                                   *)

Crash(p) ==
    /\ Active(p)
    /\ at' = [at EXCEPT ![p] = Crashed]
    /\ guard' = [s \in Slugs |-> IF guard[s] = p THEN Nobody ELSE guard[s]]
    /\ UNCHANGED <<store, byHand, deleted, stranded>>

\* session init, or a session created over the API, on the first candidate slug or
\* where that is taken on the second.
CreateByHand(s, b, identity) ==
    /\ s = b \/ (s = Suffixed[b, identity] /\ Exists(b) /\ store[b].identity # identity)
    /\ ~Exists(s)
    /\ store' = [store EXCEPT ![s] = [identity |-> identity, model |-> "none",
                                      fit |-> "unasked", maker |-> Nobody]]
    /\ byHand' = byHand + 1
    /\ UNCHANGED <<guard, at, deleted, stranded>>

\* A model applied by a plug-in or over the API.
ApplyByHand(s) ==
    /\ Unmodelled(s)
    /\ store' = [store EXCEPT ![s].model = "applied"]
    /\ byHand' = byHand + 1
    /\ UNCHANGED <<guard, at, deleted, stranded>>

\* session delete.
DeleteByHand(s) ==
    /\ Exists(s)
    /\ store' = [store EXCEPT ![s] = Absent]
    /\ deleted' = deleted \cup {s}
    /\ byHand' = byHand + 1
    /\ UNCHANGED <<guard, at, stranded>>

----------------------------------------------------------------------------
Begin(p) ==
    \/ \E e \in Entries, i \in Asked, n \in {"yes", "no"}, b \in Bases : Claim(p, e, i, n, b)
    \/ \E i \in Asked, b \in Bases : ClaimOnTheWeb(p, i, b)
    \/ \E s \in Slugs : Run(p, s)

ClaimAndGround(p) ==
    \/ Look(p) \/ Create(p) \/ Compare(p) \/ Welcome(p) \/ GuardClaim(p) \/ BackOut(p)
    \/ Route(p) \/ Reroute(p) \/ Note(p) \/ Ground(p) \/ Narrow(p) \/ Settle(p)

Discover(p) ==
    Check(p) \/ Enter(p) \/ Recheck(p) \/ Pay(p) \/ Draft(p) \/ Apply(p)

ByHand(s) ==
    /\ byHand < MaxByHand
    /\ \/ \E b \in Bases, i \in AskedByHand : CreateByHand(s, b, i)
       \/ ApplyByHand(s)
       \/ DeleteByHand(s)

Next ==
    \/ \E p \in Procs : Begin(p) \/ ClaimAndGround(p) \/ Discover(p) \/ Crash(p)
    \/ \E s \in Slugs : ByHand(s)

Spec == Init /\ [][Next]_vars

----------------------------------------------------------------------------
(* Properties                                                              *)

\* A verdict, or a refused guard, removes a session only if this very call created
\* it and nobody has given it a model: test_a_session_this_call_did_not_create_is_
\* never_deleted_by_a_verdict.  Not when a user deleted that session meanwhile and
\* created another under its slug.
DeletesOnlyItsOwn ==
    [][\A p \in Procs, s \in Slugs \ deleted :
          /\ Active(p) /\ at'[p] # at[p]
          /\ store[s] # Absent /\ store'[s] = Absent
          => store[s].maker = p /\ store[s].model = "none"]_vars

\* The same with nothing excepted.
NeverDeletesAnothers ==
    [][\A p \in Procs, s \in Slugs :
          /\ Active(p) /\ at'[p] # at[p]
          /\ store[s] # Absent /\ store'[s] = Absent
          => store[s].maker = p]_vars

\* What start and run_discovery pay for is paid for once: nobody pays under the guard
\* for a session that another pays for under it, or that a discovery of theirs has
\* landed on.  An interactive draft is no part of this: its turns are paid for under
\* no guard, beside any number of others, and what it lands counts as applied by hand.
\* A discovery that has lost its session, to a user or to the claim that made it and
\* backed out, lands on a suffixed slug whose guard it does not hold: what it lands on
\* may be paid for a second time.
PaidOnceUnderGuard ==
    \A p \in Procs : In(p, "paying") =>
        /\ \A q \in Procs : In(q, "paying") /\ at[q].slug = at[p].slug => p = q
        /\ deleted = {} /\ stranded = {} /\ Exists(at[p].slug)
               => store[at[p].slug].model # "discovered"

\* While a claim is judged, no discovery of the session it created is paid for: it
\* is refused and does not settle a perimeter nobody chose.  Nor is a draft's turn, but
\* that no guard sees: one whose session a user deletes goes on beside the next claim.
JudgedInPeace ==
    \A p, q \in Procs :
        /\ Active(p) /\ at[p].step \in Judging /\ at[p].created = "mine"
        /\ In(q, "paying")
        => at[p].slug # at[q].slug

\* A guard is held by an invocation that is still at work: no refusal, verdict,
\* failed call or death leaves a slug that can never be discovered.
NoGuardLeaks == \A s \in Slugs : guard[s] # Nobody => Active(guard[s])

\* So it is from the moment the session is created.
ClaimedInPeace ==
    \A p, q \in Procs :
        /\ Active(p) /\ at[p].step \in Judging \cup {"welcoming", "guarding"}
        /\ at[p].phase = "claim" /\ at[p].created = "mine"
        /\ In(q, "paying")
        => at[p].slug # at[q].slug

\* An empty session whose perimeter was guessed outlives its claim only in a crash:
\* a repeat would take the guess for a decision, and never route.
NoGuessSurvives ==
    \A s \in Slugs : Exists(s) /\ store[s].fit = "guessed" /\ store[s].model = "none" =>
        LET p == store[s].maker
        IN  at[p] = Crashed \/ (Active(p) /\ at[p].step \in Claiming)
=============================================================================

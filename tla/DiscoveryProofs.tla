--------------------------- MODULE DiscoveryProofs ---------------------------
(***************************************************************************)
(* Proofs about Discovery, for any number of invocations, identities and   *)
(* slugs, and any way that suffixed slugs coincide.                        *)
(***************************************************************************)
EXTENDS Discovery, TLAPS

----------------------------------------------------------------------------
(* The inductive invariant                                                 *)

\* Where the steps of a claim and of a discovery come from.
Flow(p) ==
    Active(p) =>
        /\ at[p].named = "no" => at[p].phase \in {"claim", "route", "ground"}
        /\ at[p].step \in {"looking", "routing", "rerouting"}
               => at[p].phase = "claim" /\ at[p].named = "no"
        /\ at[p].step \in Judging \cup {"guarding", "backing_out"}
               => at[p].phase \in {"claim", "route", "ground"}
        /\ at[p].step \in Discovering => at[p].named = "yes"
        /\ at[p].step = "drafting" => at[p].entry = "draft"
        /\ at[p].step = "welcoming" => at[p].created = "mine"
        /\ at[p].fit # "guessed"

\* A claim under a guessed perimeter has a verdict before it goes on from the router.
Judged(p) ==
    /\ Active(p) /\ at[p].named = "no"
    /\ \/ at[p].phase \in {"route", "ground"}
       \/ at[p].step \in {"rerouting", "noting", "narrowing"}
       \/ at[p].step = "grounding" /\ at[p].created = "mine"
    => at[p].fit # "unasked"

\* Judgments and paid calls are made under the guard of the slug at hand.
Guards(p) ==
    Active(p) /\ at[p].step \in Judging \cup {"rechecking", "paying"}
        => guard[at[p].slug] = p

\* The session a claim created is there until it deletes it, or a user does.
Owns(p) ==
    /\ Active(p) /\ at[p].created = "mine" /\ at[p].slug \notin deleted
    /\ at[p].step \in Judging \cup {"welcoming", "guarding", "backing_out"}
    => /\ Exists(at[p].slug) /\ store[at[p].slug].maker = p
       /\ at[p].step = "welcoming" => store[at[p].slug].identity = at[p].identity

Undisturbed == deleted = {} /\ stranded = {}

\* A discovery whose session nobody takes away finds it again when it lands.
Rooted(p) ==
    Undisturbed /\ Active(p) /\ Discovers(p, at[p].slug) =>
        Exists(at[p].slug) /\ store[at[p].slug].identity = at[p].identity

\* It lands under the guard that it was paid for under.
Lands(p) ==
    /\ Undisturbed /\ Active(p) /\ at[p].entry # "draft"
    /\ at[p].step = "applying" \/ at[p].phase = "finalize"
    => guard[at[p].slug] = p

Pays(p) ==
    In(p, "paying") /\ Undisturbed /\ Exists(at[p].slug)
        => store[at[p].slug].model # "discovered"

Guessed(s) == Exists(s) /\ store[s].fit = "guessed" /\ store[s].model = "none"

\* The one session that p made under a guess is the one at hand, while p may still
\* confirm it, claim it anew or delete it.
Guesses(p) ==
    \A s \in Slugs : Guessed(s) /\ store[s].maker = p =>
        \/ at[p] = Crashed
        \/ /\ Active(p) /\ at[p].slug = s
           /\ at[p].named = "no" /\ at[p].created = "mine"
           /\ at[p].step \in {"welcoming", "guarding", "backing_out",
                              "routing", "rerouting", "noting"}

Mine(p) ==
    /\ Flow(p) /\ Judged(p)
    /\ Guards(p) /\ Owns(p)
    /\ Rooted(p) /\ Lands(p) /\ Pays(p)
    /\ Guesses(p)

Makers == \A s \in Slugs : Guessed(s) => store[s].maker \in Procs

IInv ==
    /\ TypeOK
    /\ NoGuardLeaks
    /\ Makers
    /\ \A p \in Procs : Mine(p)

THEOREM DiscoveryStart == Init => IInv
<1> SUFFICES ASSUME Init PROVE IInv
    OBVIOUS
<1>1. \A p \in Procs : at[p] = Ready /\ ~Active(p)
    BY DEF Init, Active
<1>2. \A s \in Slugs : store[s] = Absent /\ guard[s] = Nobody
    BY DEF Init
<1>3. TypeOK
    BY DiscoveryAssumption DEF DiscoveryAssumption, Init, TypeOK
<1>4. NoGuardLeaks /\ Makers
    BY <1>2 DEF NoGuardLeaks, Makers, Guessed, Exists
<1>5. ASSUME NEW p \in Procs PROVE Mine(p)
    BY <1>1, <1>2 DEF Mine, Flow, Judged, Guards, Owns, Rooted, Lands, Pays, In, Guesses, Guessed, Exists
<1> QED
    BY <1>3, <1>4, <1>5 DEF IInv

----------------------------------------------------------------------------
(* What a step of one actor leaves to the others                           *)

\* The frame of a step of a, an invocation or Nobody.
Keeps(a) ==
    /\ \A q \in Procs : q # a => at'[q] = at[q]
    /\ \A s \in Slugs :
          \/ guard'[s] = guard[s]
          \/ guard[s] \in {a, Nobody} /\ guard'[s] \in {a, Nobody}
    /\ \A s \in Slugs : guard'[s] = a /\ a \in Procs => Active(a)'
    /\ deleted \subseteq deleted' /\ stranded \subseteq stranded'
    /\ \A s \in Slugs : Exists(s) =>
          \/ /\ Exists(s)'
             /\ store'[s].identity = store[s].identity
             /\ store'[s].maker = store[s].maker
          \/ s \in deleted'
          \/ /\ store[s].maker = a
             /\ \A q \in Procs \ {a} : Discovers(q, s) => q \in stranded'
    /\ \A s \in Slugs : Exists(s)' /\ store'[s].model = "discovered" =>
          \/ Exists(s) /\ store[s].model = "discovered"
          \/ /\ a \in Procs /\ Active(a) /\ at[a].step = "applying"
             /\ at[a].entry # "draft" /\ at[a].slug = s
    /\ \A s \in Slugs : Guessed(s)' =>
          \/ Guessed(s) /\ store'[s].maker = store[s].maker
          \/ a \in Procs /\ store'[s].maker = a

LEMMA OthersKeep ==
    ASSUME IInv, NEW a, Keeps(a), NEW q \in Procs, q # a, a \in Procs \cup {Nobody}
    PROVE  Mine(q)'
<1>1. at'[q] = at[q] /\ (Active(q)' <=> Active(q)) /\ Mine(q)
    BY DEF Keeps, Active, IInv
<1>2. Undisturbed' => Undisturbed
    BY DEF Keeps, Undisturbed
<1>3. \A s \in Slugs : guard[s] = q => guard'[s] = q
    BY DiscoveryAssumption DEF DiscoveryAssumption, Keeps
<1>4. Active(q) => at[q] \in Places /\ at[q].slug \in Slugs
    BY DEF IInv, TypeOK, Active, Places
<1>5. Flow(q)' /\ Judged(q)'
    BY <1>1 DEF Mine, Flow, Judged
<1>6. Guards(q)'
    BY <1>1, <1>3, <1>4 DEF Mine, Guards
<1>7. Owns(q)'
    BY <1>1, <1>4 DEF Mine, Owns, Keeps
<1>8. Rooted(q)'
  <2> SUFFICES ASSUME Undisturbed', Active(q)', Discovers(q, at[q].slug)'
               PROVE  Exists(at[q].slug)' /\ store'[at[q].slug].identity = at[q].identity
      BY <1>1 DEF Rooted
  <2>1. Discovers(q, at[q].slug)
      BY <1>1 DEF Discovers
  <2>2. Exists(at[q].slug) /\ store[at[q].slug].identity = at[q].identity
      BY <1>1, <1>2, <2>1 DEF Mine, Rooted
  <2> QED
      BY <1>1, <1>4, <2>1, <2>2 DEF Keeps, Undisturbed
<1>9. Lands(q)'
    BY <1>1, <1>2, <1>3, <1>4 DEF Mine, Lands
<1>10. Pays(q)'
  <2> SUFFICES ASSUME Active(q), at[q].step = "paying", Undisturbed, Exists(at[q].slug)',
                      store'[at[q].slug].model = "discovered"
               PROVE  FALSE
      BY <1>1, <1>2 DEF Pays, In
  <2>1. ~(Exists(at[q].slug) /\ store[at[q].slug].model = "discovered")
      BY <1>1 DEF Mine, Pays, In
  <2>2. /\ a \in Procs /\ Active(a) /\ at[a].step = "applying"
        /\ at[a].entry # "draft" /\ at[a].slug = at[q].slug
      BY <1>4, <2>1 DEF Keeps
  <2>3. guard[at[q].slug] = a
      BY <2>2 DEF IInv, Mine, Lands
  <2>4. guard[at[q].slug] = q
      BY <1>1 DEF Mine, Guards
  <2> QED
      BY <2>3, <2>4
<1>11. Guesses(q)'
  <2>1. \A s \in Slugs : Guessed(s)' /\ store'[s].maker = q
                             => Guessed(s) /\ store[s].maker = q
      BY DEF Keeps
  <2> QED
      BY <1>1, <2>1 DEF Mine, Guesses
<1> QED
    BY <1>5, <1>6, <1>7, <1>8, <1>9, <1>10, <1>11 DEF Mine

LEMMA Kept ==
    ASSUME IInv, TypeOK', NEW a \in Procs \cup {Nobody}, Keeps(a), a \in Procs => Mine(a)'
    PROVE  IInv'
<1>1. \A p \in Procs : Mine(p)'
    BY OthersKeep
<1>2. NoGuardLeaks'
  <2> SUFFICES ASSUME NEW s \in Slugs, guard'[s] # Nobody PROVE Active(guard[s])'
      BY DEF NoGuardLeaks
  <2>1. guard'[s] \in Procs
      BY DEF TypeOK
  <2>2. CASE guard'[s] = a
      BY <2>1, <2>2 DEF Keeps
  <2>3. CASE guard'[s] # a
    <3>1. guard[s] = guard'[s]
        BY <2>3 DEF Keeps
    <3>2. Active(guard[s])
        BY <3>1 DEF IInv, NoGuardLeaks
    <3> QED
        BY <2>1, <2>3, <3>1, <3>2 DEF Keeps, Active
  <2> QED
      BY <2>2, <2>3
<1>3. Makers'
    BY DEF IInv, Makers, Keeps
<1> QED
    BY <1>1, <1>2, <1>3 DEF IInv

----------------------------------------------------------------------------
(* The shapes that steps have                                              *)

Grips(p) ==
    \/ UNCHANGED guard
    \/ \E s \in Slugs : Guarded(p, s) /\ Take(p, s)
    \/ guard' = [s \in Slugs |-> IF guard[s] = p THEN Nobody ELSE guard[s]]

\* A step of p that leaves the store alone and goes on to another place.
Walks(p, place) ==
    /\ place \in Places
    /\ at' = [at EXCEPT ![p] = place]
    /\ Grips(p)
    /\ UNCHANGED <<store, byHand, deleted, stranded>>

LEMMA GripsKeep ==
    ASSUME IInv, NEW p \in Procs, Grips(p)
    PROVE  /\ guard' \in [Slugs -> Procs \cup {Nobody}]
           /\ \A s \in Slugs :
                 \/ guard'[s] = guard[s]
                 \/ guard[s] \in {p, Nobody} /\ guard'[s] \in {p, Nobody}
    BY DEF IInv, TypeOK, Grips, Guarded, Take

LEMMA StandsThere ==
    ASSUME IInv, NEW p \in Procs, NEW place \in Places, at' = [at EXCEPT ![p] = place]
    PROVE  /\ at' \in [Procs -> Places \cup {Ready, Ended, Crashed}]
           /\ at'[p] = place /\ Active(p)'
           /\ \A q \in Procs : q # p => at'[q] = at[q]
    BY MarksAssumption DEF MarksAssumption, IInv, TypeOK, Active

LEMMA WalkKeeps ==
    ASSUME IInv, NEW p \in Procs, NEW place, Walks(p, place), Mine(p)'
    PROVE  IInv'
<1>1. TypeOK'
    BY GripsKeep, StandsThere DEF Walks, IInv, TypeOK
<1>2. Keeps(p)
    BY GripsKeep, StandsThere DEF Walks, Keeps, Exists, Guessed
<1> QED
    BY <1>1, <1>2, Kept

\* A step that ends the call, and leaves no guess behind.
LEMMA LeaveKeeps ==
    ASSUME IInv, NEW p \in Procs, Leave(p), UNCHANGED <<store, byHand, deleted, stranded>>,
           \A s \in Slugs : Guessed(s) => store[s].maker # p
    PROVE  IInv'
<1>1. /\ at' \in [Procs -> Places \cup {Ready, Ended, Crashed}]
      /\ at'[p] = Ended /\ ~Active(p)'
      /\ \A q \in Procs : q # p => at'[q] = at[q]
    BY DEF Leave, IInv, TypeOK, Active
<1>2. /\ guard' \in [Slugs -> Procs \cup {Nobody}]
      /\ \A s \in Slugs : guard'[s] # p
      /\ \A s \in Slugs :
            \/ guard'[s] = guard[s]
            \/ guard[s] \in {p, Nobody} /\ guard'[s] \in {p, Nobody}
    BY DiscoveryAssumption DEF DiscoveryAssumption, Leave, IInv, TypeOK
<1>3. TypeOK'
    BY <1>1, <1>2 DEF IInv, TypeOK
<1>4. Keeps(p)
    BY <1>1, <1>2 DEF Keeps, Exists, Guessed
<1>5. Mine(p)'
    BY <1>1 DEF Mine, Flow, Judged, Guards, Owns, Rooted, Lands, Pays, In, Guesses, Guessed, Exists
<1> QED
    BY <1>3, <1>4, <1>5, Kept

----------------------------------------------------------------------------
(* The two ways in                                                         *)

LEMMA NothingGuessedYet ==
    ASSUME IInv, NEW p \in Procs, at[p] = Ready, NEW s \in Slugs, Guessed(s)
    PROVE  store[s].maker # p
    BY MarksAssumption DEF MarksAssumption, IInv, Mine, Guesses, Active

LEMMA PlaceIsOne ==
    ASSUME NEW entry \in Entries, NEW phase \in Phases, NEW identity \in Identities,
           NEW named \in {"yes", "no"}, NEW base \in Slugs, NEW step \in Claiming \cup Discovering
    PROVE  /\ Place(entry, phase, identity, named, base, step) \in Places
           /\ Place(entry, phase, identity, named, base, step).step = step
           /\ Place(entry, phase, identity, named, base, step).entry = entry
           /\ Place(entry, phase, identity, named, base, step).phase = phase
           /\ Place(entry, phase, identity, named, base, step).identity = identity
           /\ Place(entry, phase, identity, named, base, step).named = named
           /\ Place(entry, phase, identity, named, base, step).slug = base
           /\ Place(entry, phase, identity, named, base, step).created = "theirs"
           /\ Place(entry, phase, identity, named, base, step).fit = "unasked"
    BY DEF Place, Places, Fits

LEMMA ClaimKeeps ==
    ASSUME IInv, NEW p \in Procs, NEW entry \in Entries, NEW identity \in Asked,
           NEW named \in {"yes", "no"}, NEW base \in Bases, Claim(p, entry, identity, named, base)
    PROVE  IInv'
<1> DEFINE step == IF named = "yes" THEN "creating" ELSE "looking"
           place == Place(entry, "claim", identity, named, base, step)
<1>1. base \in Slugs /\ identity \in Identities
    BY DiscoveryAssumption DEF DiscoveryAssumption
<1>2. step \in Claiming \cup Discovering /\ "claim" \in Phases
    BY DEF Claiming, Phases
<1>3. place \in Places /\ place.step = step /\ place.named = named /\ place.phase = "claim"
      /\ place.fit = "unasked" /\ place.created = "theirs" /\ place.slug = base
    BY <1>1, <1>2, PlaceIsOne
<1>4. Walks(p, place)
    BY <1>1, <1>3 DEF Claim, Walks, Grips, Guarded
<1> HIDE DEF place
<1>5. at'[p] = place /\ Active(p)'
    BY <1>4, StandsThere DEF Walks
<1>6. Mine(p)'
  <2>1. \A s \in Slugs : ~(Guessed(s)' /\ store'[s].maker = p)
      BY <1>4, NothingGuessedYet DEF Claim, Walks, Guessed, Exists
  <2> QED
      BY <1>3, <1>5, <2>1 DEF Mine, Flow, Judged, Guards, Owns, Rooted, Discovers, Lands, Pays,
          In, Guesses, Judging, Discovering
<1> QED
    BY <1>4, <1>6, WalkKeeps

LEMMA ClaimOnTheWebKeeps ==
    ASSUME IInv, NEW p \in Procs, NEW identity \in Asked, NEW base \in Bases,
           ClaimOnTheWeb(p, identity, base)
    PROVE  IInv'
<1> DEFINE place == Place("web", "start", identity, "yes", base, "creating")
<1>1. base \in Slugs /\ identity \in Identities
    BY DiscoveryAssumption DEF DiscoveryAssumption
<1>2. /\ place \in Places /\ place.step = "creating" /\ place.named = "yes"
      /\ place.phase = "start" /\ place.fit = "unasked" /\ place.created = "theirs"
    BY <1>1, PlaceIsOne DEF Entries, Phases, Claiming
<1>3. Walks(p, place)
    BY <1>2 DEF ClaimOnTheWeb, Walks, Grips
<1> HIDE DEF place
<1>4. at'[p] = place /\ Active(p)'
    BY <1>3, StandsThere DEF Walks
<1>5. Mine(p)'
  <2>1. \A s \in Slugs : ~(Guessed(s)' /\ store'[s].maker = p)
      BY <1>3, NothingGuessedYet DEF ClaimOnTheWeb, Walks, Guessed, Exists
  <2> QED
      BY <1>2, <1>4, <2>1 DEF Mine, Flow, Judged, Guards, Owns, Rooted, Discovers, Lands, Pays,
          In, Guesses, Judging, Discovering
<1> QED
    BY <1>3, <1>5, WalkKeeps

LEMMA RunKeeps ==
    ASSUME IInv, NEW p \in Procs, NEW s \in Slugs, Run(p, s)
    PROVE  IInv'
<1> DEFINE place == Place("run", "start", store[s].identity, "yes", s, "entering")
<1>1. store[s].identity \in Identities
    BY DEF Run, Unmodelled, Exists, IInv, TypeOK, Sessions
<1>2. /\ place \in Places /\ place.step = "entering" /\ place.named = "yes"
      /\ place.phase = "start" /\ place.fit = "unasked" /\ place.created = "theirs"
      /\ place.slug = s /\ place.identity = store[s].identity
    BY <1>1, PlaceIsOne DEF Entries, Phases, Discovering
<1>3. Walks(p, place)
    BY <1>2 DEF Run, Walks, Grips
<1> HIDE DEF place
<1>4. at'[p] = place /\ Active(p)'
    BY <1>3, StandsThere DEF Walks
<1>5. Mine(p)'
  <2>1. \A t \in Slugs : ~(Guessed(t)' /\ store'[t].maker = p)
      BY <1>3, NothingGuessedYet DEF Run, Walks, Guessed, Exists
  <2>2. Exists(s)' /\ store'[s].identity = store[s].identity
      BY <1>3 DEF Run, Walks, Unmodelled, Exists
  <2> QED
      BY <1>2, <1>4, <2>1, <2>2 DEF Mine, Flow, Judged, Guards, Owns, Rooted, Discovers, Lands,
          Pays, In, Guesses, Judging, Discovering
<1> QED
    BY <1>3, <1>5, WalkKeeps

----------------------------------------------------------------------------
(* create_session_report                                                   *)

LEMMA Working ==
    ASSUME IInv, NEW p \in Procs, Active(p)
    PROVE  /\ at[p] \in Places /\ Mine(p)
           /\ at[p].slug \in Slugs /\ at[p].base \in Slugs /\ at[p].identity \in Identities
    BY DEF Active, IInv, TypeOK, Places

\* What a place becomes as the step it is at changes, and little else.
Further(p, step, named, identity, created, fit) ==
    [at[p] EXCEPT !.step = step, !.named = named, !.identity = identity, !.created = created,
                  !.fit = fit]

LEMMA FurtherPlace ==
    ASSUME IInv, NEW p \in Procs, Active(p), NEW step \in Claiming \cup Discovering,
           NEW named \in {"yes", "no"}, NEW identity \in Identities,
           NEW created \in {"mine", "theirs"}, NEW fit \in Fits,
           NEW place, place = Further(p, step, named, identity, created, fit)
    PROVE  /\ place \in Places
           /\ place.step = step /\ place.named = named /\ place.identity = identity
           /\ place.created = created /\ place.fit = fit
           /\ place.entry = at[p].entry /\ place.phase = at[p].phase /\ place.slug = at[p].slug
    BY Working DEF Further, Places

\* A step of p that leaves the store alone and stays with the session at hand.
GoesOn(p, step, named, identity, created, fit) ==
    /\ at' = [at EXCEPT ![p] = Further(p, step, named, identity, created, fit)]
    /\ Grips(p)
    /\ UNCHANGED <<store, byHand, deleted, stranded>>

LEMMA GoesOnThere ==
    ASSUME IInv, NEW p \in Procs, Active(p), NEW step \in Claiming \cup Discovering,
           NEW named \in {"yes", "no"}, NEW identity \in Identities,
           NEW created \in {"mine", "theirs"}, NEW fit \in Fits,
           GoesOn(p, step, named, identity, created, fit)
    PROVE  /\ Active(p)'
           /\ at'[p].step = step /\ at'[p].named = named /\ at'[p].identity = identity
           /\ at'[p].created = created /\ at'[p].fit = fit
           /\ at'[p].entry = at[p].entry /\ at'[p].phase = at[p].phase
           /\ at'[p].slug = at[p].slug
           /\ store' = store /\ deleted' = deleted /\ stranded' = stranded
           /\ Mine(p)' => IInv'
<1> DEFINE place == Further(p, step, named, identity, created, fit)
<1>1. /\ place \in Places
      /\ place.step = step /\ place.named = named /\ place.identity = identity
      /\ place.created = created /\ place.fit = fit
      /\ place.entry = at[p].entry /\ place.phase = at[p].phase /\ place.slug = at[p].slug
    BY FurtherPlace
<1>2. Walks(p, place)
    BY <1>1 DEF GoesOn, Walks
<1> HIDE DEF place
<1>3. at'[p] = place /\ Active(p)'
    BY <1>2, StandsThere DEF Walks
<1>4. Mine(p)' => IInv'
    BY <1>2, WalkKeeps
<1> QED
    BY <1>1, <1>2, <1>3, <1>4 DEF Walks

LEMMA GotoGoesOn ==
    ASSUME IInv, NEW p \in Procs, Active(p), NEW step \in Claiming \cup Discovering,
           Goto(p, step), Grips(p), UNCHANGED <<store, byHand, deleted, stranded>>
    PROVE  /\ Active(p)'
           /\ at'[p].step = step /\ at'[p].named = at[p].named
           /\ at'[p].identity = at[p].identity
           /\ at'[p].created = at[p].created /\ at'[p].fit = at[p].fit
           /\ at'[p].entry = at[p].entry /\ at'[p].phase = at[p].phase
           /\ at'[p].slug = at[p].slug
           /\ store' = store /\ deleted' = deleted /\ stranded' = stranded
           /\ Mine(p)' => IInv'
<1>1. /\ at[p] \in Places /\ at[p].named \in {"yes", "no"} /\ at[p].identity \in Identities
      /\ at[p].created \in {"mine", "theirs"} /\ at[p].fit \in Fits
    BY Working DEF Places
<1>2. GoesOn(p, step, at[p].named, at[p].identity, at[p].created, at[p].fit)
    BY <1>1 DEF Goto, GoesOn, Further, Places, IInv, TypeOK
<1> QED
    BY <1>1, <1>2, GoesOnThere

LEMMA LookKeeps ==
    ASSUME IInv, NEW p \in Procs, Look(p)
    PROVE  IInv'
<1>1. /\ Active(p) /\ at[p].step = "looking" /\ at[p] \in Places /\ Mine(p)
      /\ at[p].created \in {"mine", "theirs"} /\ at[p].fit \in Fits
    BY Working DEF Look, In, Places
<1>2. PICK identity \in Identities, named \in {"yes", "no"} :
          /\ GoesOn(p, "creating", named, identity, at[p].created, at[p].fit)
          /\ named = "no" => at[p].named = "no"
  <2>1. CASE Goto(p, "creating")
    <3>1. Further(p, "creating", at[p].named, at[p].identity, at[p].created, at[p].fit)
              = [at[p] EXCEPT !.step = "creating"]
        BY <1>1 DEF Further, Places
    <3>2. GoesOn(p, "creating", at[p].named, at[p].identity, at[p].created, at[p].fit)
        BY <2>1, <3>1 DEF Look, Goto, GoesOn, Grips
    <3> QED
        BY <1>1, <3>2 DEF Places
  <2>2. CASE ~Goto(p, "creating")
    <3>1. PICK q \in Perimeters :
              at' = [at EXCEPT ![p].step = "creating", ![p].named = "yes",
                               ![p].identity = [at[p].identity EXCEPT !.perimeter = q]]
        BY <2>2 DEF Look
    <3>2. [at[p].identity EXCEPT !.perimeter = q] \in Identities
        BY <1>1, Working DEF Identities
    <3> DEFINE under == [at[p].identity EXCEPT !.perimeter = q]
    <3> HIDE DEF under
    <3>3. Further(p, "creating", "yes", under, at[p].created, at[p].fit)
              = [at[p] EXCEPT !.step = "creating", !.named = "yes", !.identity = under]
        BY <1>1 DEF Further, Places
    <3>4. GoesOn(p, "creating", "yes", under, at[p].created, at[p].fit)
        BY <3>1, <3>3 DEF under, Look, GoesOn, Grips
    <3> QED
        BY <3>2, <3>4 DEF under
  <2> QED
      BY <2>1, <2>2
<1>3. /\ Active(p)' /\ at'[p].step = "creating" /\ at'[p].named = named
      /\ at'[p].fit = at[p].fit /\ at'[p].phase = at[p].phase
      /\ store' = store
      /\ Mine(p)' => IInv'
    BY <1>1, <1>2, GoesOnThere DEF Claiming
<1>4. \A s \in Slugs : ~(Guessed(s)' /\ store'[s].maker = p)
    BY <1>1, <1>3, MarksAssumption DEF MarksAssumption, Mine, Guesses, Guessed, Exists, Active
<1>5. Mine(p)'
    BY <1>1, <1>2, <1>3, <1>4
    DEF Mine, Flow, Judged, Guards, Owns, Rooted, Discovers, Lands, Pays, In, Guesses,
        Judging, Discovering
<1> QED
    BY <1>3, <1>5

\* The session a claim landed on is gone on with, or the call is refused.
LEMMA GoOnKeeps ==
    ASSUME IInv, NEW p \in Procs, Active(p), at[p].step \in {"comparing", "welcoming"},
           NEW created \in {"mine", "theirs"}, created = "mine" <=> at[p].step = "welcoming",
           Undisturbed /\ Exists(at[p].slug) => store[at[p].slug].identity = at[p].identity,
           GoOnAtRevisionZero(p, created), UNCHANGED <<store, byHand, deleted, stranded>>
    PROVE  IInv'
<1>1. /\ at[p] \in Places /\ Mine(p) /\ at[p].named \in {"yes", "no"}
      /\ at[p].identity \in Identities /\ at[p].fit \in Fits /\ at[p].phase \in Phases
    BY Working DEF Places
<1>2. CASE Unmodelled(at[p].slug)
  <2> DEFINE step == IF at[p].phase \in {"claim", "route", "ground"} THEN "guarding"
                     ELSE IF at[p].phase = "finalize" THEN "applying"
                     ELSE IF at[p].entry = "web" THEN "checking" ELSE "entering"
  <2>1. /\ step \in Claiming \cup Discovering
        /\ step = "guarding" <=> at[p].phase \in {"claim", "route", "ground"}
        /\ step = "applying" => at[p].phase = "finalize"
        /\ step \in {"guarding", "applying", "checking", "entering"}
      BY DEF Claiming, Discovering
  <2>2. at' = [at EXCEPT ![p].created = created, ![p].step = step]
      BY <1>1, <1>2 DEF GoOnAtRevisionZero, Onward, Phases
  <2> HIDE DEF step
  <2>3. Further(p, step, at[p].named, at[p].identity, created, at[p].fit)
            = [at[p] EXCEPT !.created = created, !.step = step]
      BY <1>1 DEF Further, Places
  <2>4. GoesOn(p, step, at[p].named, at[p].identity, created, at[p].fit)
      BY <1>2, <2>2, <2>3 DEF GoOnAtRevisionZero, GoesOn, Grips
  <2>5. /\ Active(p)' /\ at'[p].step = step /\ at'[p].named = at[p].named
        /\ at'[p].created = created /\ at'[p].identity = at[p].identity
        /\ at'[p].entry = at[p].entry /\ at'[p].slug = at[p].slug
        /\ at'[p].fit = at[p].fit /\ at'[p].phase = at[p].phase
        /\ store' = store /\ deleted' = deleted /\ stranded' = stranded
        /\ guard' = guard
        /\ Mine(p)' => IInv'
      BY <1>1, <1>2, <2>1, <2>4, GoesOnThere DEF GoOnAtRevisionZero
  <2>6. Flow(p)' /\ Judged(p)' /\ Guards(p)' /\ Pays(p)'
      BY <1>1, <2>1, <2>5 DEF Mine, Flow, Judged, Guards, Pays, In, Judging, Discovering
  <2>7. Owns(p)'
      BY <1>1, <2>1, <2>5 DEF Mine, Flow, Owns, Judging, Exists
  <2>8. Rooted(p)' /\ Lands(p)'
      BY <1>1, <1>2, <2>1, <2>5 DEF Mine, Rooted, Lands, Undisturbed, Unmodelled, Exists
  <2>9. Guesses(p)'
      BY <1>1, <2>1, <2>5, MarksAssumption
      DEF MarksAssumption, Mine, Flow, Guesses, Guessed, Exists, Active
  <2> QED
      BY <2>5, <2>6, <2>7, <2>8, <2>9 DEF Mine
<1>3. CASE ~Unmodelled(at[p].slug)
  <2>1. \A s \in Slugs : Guessed(s) => store[s].maker # p
      BY <1>1, <1>3, MarksAssumption
      DEF MarksAssumption, Mine, Guesses, Guessed, Unmodelled, Active
  <2> QED
      BY <1>3, <2>1, LeaveKeeps DEF GoOnAtRevisionZero
<1> QED
    BY <1>2, <1>3

LEMMA WelcomeKeeps ==
    ASSUME IInv, NEW p \in Procs, Welcome(p)
    PROVE  IInv'
<1>1. Active(p) /\ at[p].step = "welcoming" /\ Mine(p)
    BY Working DEF Welcome, In
<1>2. Undisturbed => store[at[p].slug].identity = at[p].identity
    BY <1>1 DEF Mine, Flow, Owns, Undisturbed
<1> QED
    BY <1>1, <1>2, GoOnKeeps DEF Welcome

LEMMA CompareKeeps ==
    ASSUME IInv, NEW p \in Procs, Compare(p)
    PROVE  IInv'
<1>1. /\ Active(p) /\ at[p].step = "comparing" /\ at[p] \in Places /\ Mine(p)
      /\ at[p].slug \in Slugs /\ at[p].base \in Slugs /\ at[p].identity \in Identities
    BY Working DEF Compare, In
<1>2. \A s \in Slugs : Guessed(s) => store[s].maker # p
    BY <1>1, MarksAssumption DEF MarksAssumption, Mine, Guesses, Active
<1> DEFINE same == Exists(at[p].slug) /\ store[at[p].slug].identity = at[p].identity
           next == Suffixed[at[p].base, at[p].identity]
<1>3. CASE same /\ GoOnAtRevisionZero(p, "theirs")
    BY <1>1, <1>3, GoOnKeeps DEF Compare
<1>4. CASE ~same /\ at[p].slug # next /\ UNCHANGED guard
           /\ at' = [at EXCEPT ![p].step = "creating", ![p].slug = next]
  <2> DEFINE place == [at[p] EXCEPT !.step = "creating", !.slug = next]
  <2>1. next \in Slugs
      BY <1>1, DiscoveryAssumption DEF DiscoveryAssumption
  <2>2. /\ place \in Places /\ place.step = "creating" /\ place.named = at[p].named
        /\ place.fit = at[p].fit /\ place.phase = at[p].phase /\ place.entry = at[p].entry
      BY <1>1, <2>1 DEF Places, Claiming
  <2>3. Walks(p, place)
      BY <1>4, <2>2 DEF Compare, Walks, Grips
  <2> HIDE DEF place
  <2>4. at'[p] = place /\ Active(p)'
      BY <2>2, <2>3, StandsThere DEF Walks
  <2>5. ~(Undisturbed /\ at[p].entry # "draft" /\ at[p].phase = "finalize")
      BY <1>1, <1>4 DEF Mine, Rooted, Discovers
  <2>6. Mine(p)'
    <3>1. \A s \in Slugs : ~(Guessed(s)' /\ store'[s].maker = p)
        BY <1>2, <2>3 DEF Walks, Guessed, Exists
    <3> QED
        BY <1>1, <2>2, <2>3, <2>4, <2>5, <3>1
        DEF Walks, Mine, Flow, Judged, Guards, Owns, Rooted, Discovers, Lands, Pays, In, Guesses,
            Judging, Discovering, Undisturbed
  <2> QED
      BY <2>3, <2>6, WalkKeeps
<1>5. CASE Leave(p)
    BY <1>2, <1>5, LeaveKeeps DEF Compare
<1> QED
    BY <1>3, <1>4, <1>5 DEF Compare

LEMMA CreateKeeps ==
    ASSUME IInv, NEW p \in Procs, Create(p)
    PROVE  IInv'
<1>1. /\ Active(p) /\ at[p].step = "creating" /\ at[p] \in Places /\ Mine(p)
      /\ at[p].slug \in Slugs /\ at[p].identity \in Identities
    BY Working DEF Create, In
<1>2. \A s \in Slugs : Guessed(s) => store[s].maker # p
    BY <1>1, MarksAssumption DEF MarksAssumption, Mine, Guesses, Active
<1>3. CASE Exists(at[p].slug)
  <2>1. Goto(p, "comparing") /\ Grips(p) /\ UNCHANGED <<store, byHand, deleted, stranded>>
      BY <1>3 DEF Create, Grips
  <2>2. /\ Active(p)' /\ at'[p].step = "comparing" /\ at'[p].named = at[p].named
        /\ at'[p].identity = at[p].identity /\ at'[p].slug = at[p].slug
        /\ at'[p].fit = at[p].fit /\ at'[p].entry = at[p].entry /\ at'[p].phase = at[p].phase
        /\ store' = store /\ deleted' = deleted /\ stranded' = stranded /\ guard' = guard
        /\ Mine(p)' => IInv'
      BY <1>1, <2>1, <1>3, GotoGoesOn DEF Claiming, Create
  <2>3. Guesses(p)'
      BY <1>2, <2>2 DEF Guesses, Guessed, Exists
  <2>4. Rooted(p)' /\ Lands(p)'
      BY <1>1, <2>2 DEF Mine, Rooted, Discovers, Lands, Undisturbed, Exists, Discovering
  <2>5. Mine(p)'
      BY <1>1, <2>2, <2>3, <2>4
      DEF Mine, Flow, Judged, Guards, Owns, Pays, In, Judging, Discovering
  <2> QED
      BY <2>2, <2>5
<1>4. CASE ~Exists(at[p].slug)
  <2> DEFINE new == [identity |-> at[p].identity, model |-> "none", maker |-> p,
                     fit |-> IF at[p].named = "no" THEN "guessed" ELSE "unasked"]
             place == Further(p, "welcoming", at[p].named, at[p].identity, "mine", at[p].fit)
  <2>1. /\ new \in Sessions /\ new # Absent
        /\ new.identity = at[p].identity /\ new.model = "none" /\ new.maker = p
        /\ new.fit = "guessed" => at[p].named = "no"
      BY <1>1, MarksAssumption DEF MarksAssumption, Sessions, Fits
  <2>2. /\ place \in Places /\ place.step = "welcoming" /\ place.created = "mine"
        /\ place.named = at[p].named /\ place.identity = at[p].identity /\ place.fit = at[p].fit
        /\ place.slug = at[p].slug /\ place.phase = at[p].phase /\ place.entry = at[p].entry
    <3>1. at[p].named \in {"yes", "no"} /\ at[p].fit \in Fits
        BY <1>1 DEF Places
    <3> QED
        BY <1>1, <3>1, FurtherPlace DEF Claiming
  <2>3. /\ at' = [at EXCEPT ![p] = place]
        /\ store' = [store EXCEPT ![at[p].slug] = new]
        /\ UNCHANGED <<guard, byHand, deleted, stranded>>
    <3>1. place = [at[p] EXCEPT !.step = "welcoming", !.created = "mine"]
        BY <1>1 DEF Further, Places
    <3> QED
        BY <1>4, <3>1 DEF Create
  <2> HIDE DEF new, place
  <2>4. /\ at'[p] = place /\ Active(p)' /\ (\A q \in Procs : q # p => at'[q] = at[q])
        /\ at' \in [Procs -> Places \cup {Ready, Ended, Crashed}]
      BY <2>2, <2>3, StandsThere
  <2>5. /\ store' \in [Slugs -> Sessions \cup {Absent}]
        /\ store'[at[p].slug] = new
        /\ \A s \in Slugs : s # at[p].slug => store'[s] = store[s]
      BY <1>1, <2>1, <2>3 DEF IInv, TypeOK
  <2>6. TypeOK'
      BY <2>3, <2>4, <2>5 DEF IInv, TypeOK
  <2>7. \A s \in Slugs : Guessed(s)' => IF s = at[p].slug THEN at[p].named = "no" ELSE Guessed(s)
      BY <2>1, <2>5 DEF Guessed, Exists
  <2>8. Keeps(p)
      BY <1>1, <1>4, <2>1, <2>3, <2>4, <2>5, <2>7 DEF Keeps, Exists
  <2>9. Guesses(p)'
      BY <1>1, <1>2, <2>2, <2>4, <2>5, <2>7 DEF Guesses
  <2>10. ~(Undisturbed /\ at[p].entry # "draft" /\ at[p].phase = "finalize")
      BY <1>1, <1>4 DEF Mine, Rooted, Discovers
  <2>11. Mine(p)'
    <3>1. Owns(p)'
        BY <2>1, <2>2, <2>4, <2>5 DEF Owns, Exists
    <3> QED
        BY <1>1, <2>2, <2>3, <2>4, <2>9, <2>10, <3>1
        DEF Mine, Flow, Judged, Guards, Rooted, Discovers, Lands, Pays, In, Undisturbed,
            Judging, Discovering
  <2> QED
      BY <2>6, <2>8, <2>11, Kept
<1> QED
    BY <1>3, <1>4

----------------------------------------------------------------------------
(* claim_and_ground: the judgments                                         *)

\* A step between two judgments is one that leaves the rest of the place alone.
LEMMA JudgmentKeeps ==
    ASSUME IInv, NEW p \in Procs, Active(p), NEW step \in Judging \cup {"backing_out"},
           Goto(p, step), Grips(p), UNCHANGED <<store, byHand, deleted, stranded>>,
           at[p].step \in Judging \cup {"guarding"},
           step \in Judging => guard'[at[p].slug] = p,
           step = "routing" => at[p].phase = "claim" /\ at[p].named = "no",
           step \notin {"rerouting", "narrowing"},
           step \in {"noting", "grounding"} /\ at[p].named = "no" => at[p].fit # "unasked",
           step \in {"grounding", "settling"}
               => \A s \in Slugs : Guessed(s) => store[s].maker # p
    PROVE  IInv'
<1>1. at[p] \in Places /\ Mine(p)
    BY Working
<1>2. /\ Active(p)' /\ at'[p].step = step /\ at'[p].named = at[p].named
      /\ at'[p].identity = at[p].identity /\ at'[p].created = at[p].created
      /\ at'[p].fit = at[p].fit /\ at'[p].entry = at[p].entry /\ at'[p].phase = at[p].phase
      /\ at'[p].slug = at[p].slug
      /\ store' = store /\ deleted' = deleted /\ stranded' = stranded
      /\ Mine(p)' => IInv'
    BY GotoGoesOn DEF Claiming, Judging
<1>3. Flow(p)' /\ Judged(p)' /\ Pays(p)'
    BY <1>1, <1>2 DEF Mine, Flow, Judged, Pays, In, Judging, Discovering
<1>4. Guards(p)'
    BY <1>2 DEF Guards, Judging
<1>5. Owns(p)'
    BY <1>1, <1>2 DEF Mine, Owns, Judging, Exists
<1>6. Rooted(p)' /\ Lands(p)'
    BY <1>1, <1>2 DEF Mine, Flow, Rooted, Discovers, Lands, Judging, Discovering
<1>7. Guesses(p)'
  <2> SUFFICES ASSUME NEW s \in Slugs, Guessed(s), store[s].maker = p
               PROVE  /\ at[p].slug = s /\ at[p].named = "no" /\ at[p].created = "mine"
                      /\ step \in {"guarding", "backing_out", "routing", "rerouting", "noting"}
      BY <1>2 DEF Guesses, Guessed, Exists
  <2> QED
      BY <1>1, MarksAssumption DEF MarksAssumption, Mine, Guesses, Active, Judging
<1> QED
    BY <1>2, <1>3, <1>4, <1>5, <1>6, <1>7 DEF Mine

LEMMA GuardClaimKeeps ==
    ASSUME IInv, NEW p \in Procs, GuardClaim(p)
    PROVE  IInv'
<1>1. /\ Active(p) /\ at[p].step = "guarding" /\ Mine(p) /\ at[p].slug \in Slugs
      /\ at[p] \in Places /\ at[p].phase \in {"claim", "route", "ground"}
    BY Working DEF GuardClaim, In, Mine, Flow
<1>2. CASE Guarded(p, at[p].slug)
  <2> DEFINE step == IF at[p].phase = "claim" /\ at[p].named = "no" THEN "routing"
                     ELSE IF at[p].phase = "claim" THEN "grounding" ELSE "noting"
  <2>1. Goto(p, step) /\ Grips(p) /\ guard'[at[p].slug] = p
      BY <1>1, <1>2 DEF GuardClaim, Grips, Take, IInv, TypeOK
  <2>2. step \in Judging /\ step \notin {"rerouting", "narrowing", "settling"}
      BY DEF Judging
  <2>3. step = "noting" /\ at[p].named = "no" => at[p].fit # "unasked"
      BY <1>1 DEF Mine, Judged
  <2>4. step = "grounding" => at[p].named # "no"
      BY <1>1
  <2>5. step = "grounding" => \A s \in Slugs : Guessed(s) => store[s].maker # p
      BY <1>1, <2>4, MarksAssumption DEF MarksAssumption, Mine, Guesses, Active
  <2>6. step = "routing" => at[p].phase = "claim" /\ at[p].named = "no"
      OBVIOUS
  <2> HIDE DEF step
  <2> QED
      BY <1>1, <2>1, <2>2, <2>3, <2>4, <2>5, <2>6, JudgmentKeeps DEF GuardClaim
<1>3. CASE ~Guarded(p, at[p].slug)
    BY <1>1, <1>3, JudgmentKeeps DEF GuardClaim, Grips, Judging
<1> QED
    BY <1>2, <1>3

\* What a claim deletes: its own session, unless a user has been there.
LEMMA DeleteFrame ==
    ASSUME IInv, NEW p \in Procs, Active(p), at[p].step \in Judging \cup {"backing_out"},
           Delete(p)
    PROVE  /\ store' \in [Slugs -> Sessions \cup {Absent}]
           /\ stranded' \subseteq Procs /\ stranded \subseteq stranded'
           /\ \A s \in Slugs : Exists(s)' => s # at[p].slug /\ store'[s] = store[s] /\ Exists(s)
           /\ \A s \in Slugs : Exists(s) =>
                 \/ Exists(s)' /\ store'[s] = store[s]
                 \/ s \in deleted
                 \/ /\ store[s].maker = p
                    /\ \A q \in Procs \ {p} : Discovers(q, s) => q \in stranded'
<1>1. at[p].slug \in Slugs /\ Mine(p)
    BY Working
<1>2. /\ store' \in [Slugs -> Sessions \cup {Absent}] /\ store'[at[p].slug] = Absent
      /\ \A s \in Slugs : s # at[p].slug => store'[s] = store[s]
    BY <1>1 DEF Delete, IInv, TypeOK
<1>3. at[p].slug \in deleted \/ store[at[p].slug].maker = p
    BY <1>1 DEF Delete, Deletable, Mine, Owns
<1>4. /\ stranded' \subseteq Procs /\ stranded \subseteq stranded'
      /\ \A q \in Procs \ {p} : Discovers(q, at[p].slug) => q \in stranded'
    BY DEF Delete, IInv, TypeOK
<1> QED
    BY <1>1, <1>2, <1>3, <1>4 DEF Exists

LEMMA BackOutKeeps ==
    ASSUME IInv, NEW p \in Procs, BackOut(p)
    PROVE  IInv'
<1>1. Active(p) /\ at[p].step = "backing_out" /\ Mine(p) /\ at[p].slug \in Slugs
    BY Working DEF BackOut, In
<1>2. \A s \in Slugs : Guessed(s) /\ store[s].maker = p =>
          s = at[p].slug /\ at[p].created = "mine"
    BY <1>1, MarksAssumption DEF MarksAssumption, Mine, Guesses, Active
<1>3. CASE Delete(p)
  <2>1. /\ at' \in [Procs -> Places \cup {Ready, Ended, Crashed}]
        /\ at'[p] = Ended /\ ~Active(p)'
        /\ \A q \in Procs : q # p => at'[q] = at[q]
      BY DEF BackOut, Leave, IInv, TypeOK, Active
  <2>2. /\ guard' \in [Slugs -> Procs \cup {Nobody}]
        /\ \A s \in Slugs : guard'[s] # p
        /\ \A s \in Slugs :
              \/ guard'[s] = guard[s]
              \/ guard[s] \in {p, Nobody} /\ guard'[s] \in {p, Nobody}
      BY DiscoveryAssumption DEF DiscoveryAssumption, BackOut, Leave, IInv, TypeOK
  <2>3. /\ store' \in [Slugs -> Sessions \cup {Absent}]
        /\ stranded' \subseteq Procs /\ stranded \subseteq stranded'
        /\ \A s \in Slugs : Exists(s)' => s # at[p].slug /\ store'[s] = store[s] /\ Exists(s)
        /\ \A s \in Slugs : Exists(s) =>
              \/ Exists(s)' /\ store'[s] = store[s]
              \/ s \in deleted
              \/ /\ store[s].maker = p
                 /\ \A q \in Procs \ {p} : Discovers(q, s) => q \in stranded'
      BY <1>1, <1>3, DeleteFrame
  <2>4. UNCHANGED <<byHand, deleted>>
      BY DEF BackOut
  <2>5. TypeOK'
      BY <2>1, <2>2, <2>3, <2>4 DEF IInv, TypeOK
  <2>6. Keeps(p)
      BY <2>1, <2>2, <2>3, <2>4 DEF Keeps, Guessed
  <2>7. \A s \in Slugs : ~(Guessed(s)' /\ store'[s].maker = p)
      BY <1>2, <2>3 DEF Guessed
  <2>8. Mine(p)'
      BY <2>1, <2>7 DEF Mine, Flow, Judged, Guards, Owns, Rooted, Lands, Pays, In, Guesses
  <2> QED
      BY <2>5, <2>6, <2>8, Kept
<1>4. CASE ~Deletable(p) /\ UNCHANGED <<store, stranded>>
  <2>1. \A s \in Slugs : Guessed(s) => store[s].maker # p
      BY <1>2, <1>4 DEF Deletable, Unmodelled, Guessed
  <2> QED
      BY <1>4, <2>1, LeaveKeeps DEF BackOut
<1> QED
    BY <1>3, <1>4 DEF BackOut

LEMMA RouteKeeps ==
    ASSUME IInv, NEW p \in Procs, Route(p)
    PROVE  IInv'
<1>1. /\ Active(p) /\ at[p].step = "routing" /\ at[p] \in Places /\ Mine(p)
      /\ at[p].slug \in Slugs /\ at[p].identity \in Identities
      /\ at[p].phase = "claim" /\ at[p].named = "no" /\ at[p].created \in {"mine", "theirs"}
    BY Working DEF Route, In, Mine, Flow, Places
<1>2. guard[at[p].slug] = p
    BY <1>1 DEF Mine, Guards, Judging
<1>3. CASE Goto(p, "backing_out")
    BY <1>1, <1>3, JudgmentKeeps DEF Route, Grips, Judging
<1>4. ASSUME NEW fit \in {"fits", "no_fit"}, NEW step \in {"noting", "rerouting"},
             NEW identity \in Identities,
             at' = [at EXCEPT ![p] = Further(p, step, at[p].named, identity, at[p].created, fit)]
      PROVE  IInv'
  <2>1. GoesOn(p, step, at[p].named, identity, at[p].created, fit)
      BY <1>4 DEF GoesOn, Grips, Route
  <2>2. /\ Active(p)' /\ at'[p].step = step /\ at'[p].named = "no"
        /\ at'[p].created = at[p].created /\ at'[p].fit = fit /\ at'[p].phase = "claim"
        /\ at'[p].slug = at[p].slug /\ at'[p].entry = at[p].entry
        /\ store' = store /\ deleted' = deleted /\ stranded' = stranded /\ guard' = guard
        /\ Mine(p)' => IInv'
    <3>1. fit \in Fits /\ step \in Claiming \cup Discovering
        BY <1>4 DEF Fits, Claiming, Judging
    <3>2. guard' = guard
        BY DEF Route
    <3>3. at[p].named \in {"yes", "no"}
        BY <1>1
    <3> QED
        BY <1>1, <1>4, <2>1, <3>1, <3>2, <3>3, GoesOnThere
  <2>3. Owns(p)'
      BY <1>1, <2>2 DEF Mine, Owns, Judging, Exists
  <2>4. Guesses(p)'
      BY <1>1, <2>2, MarksAssumption
      DEF MarksAssumption, Mine, Guesses, Guessed, Exists, Active
  <2>5. Mine(p)'
      BY <1>2, <2>2, <2>3, <2>4
      DEF Mine, Flow, Judged, Guards, Rooted, Discovers, Lands, Pays, In, Judging, Discovering
  <2> QED
      BY <2>2, <2>5
<1>5. ASSUME NEW fit \in {"fits", "no_fit"}, at' = [at EXCEPT ![p].step = "noting", ![p].fit = fit]
      PROVE  IInv'
  <2>1. Further(p, "noting", at[p].named, at[p].identity, at[p].created, fit)
            = [at[p] EXCEPT !.step = "noting", !.fit = fit]
      BY <1>1 DEF Further, Places
  <2>2. at' = [at EXCEPT ![p] = Further(p, "noting", at[p].named, at[p].identity,
                                        at[p].created, fit)]
      BY <1>5, <2>1
  <2> QED
      BY <1>1, <1>4, <1>5, <2>2
<1>6. ASSUME NEW q \in Perimeters,
             at' = [at EXCEPT ![p].step = "rerouting", ![p].fit = "fits",
                              ![p].identity.perimeter = q]
      PROVE  IInv'
  <2> DEFINE under == [at[p].identity EXCEPT !.perimeter = q]
  <2>1. under \in Identities
      BY <1>1 DEF Identities
  <2>2. at' = [at EXCEPT ![p].step = "rerouting", ![p].fit = "fits", ![p].identity = under]
      BY <1>1, <1>6 DEF Places
  <2> HIDE DEF under
  <2>3. Further(p, "rerouting", at[p].named, under, at[p].created, "fits")
            = [at[p] EXCEPT !.step = "rerouting", !.fit = "fits", !.identity = under]
      BY <1>1 DEF Further, Places
  <2>4. at' = [at EXCEPT ![p] = Further(p, "rerouting", at[p].named, under, at[p].created, "fits")]
      BY <2>2, <2>3
  <2> QED
      BY <1>4, <2>1, <2>4
<1> QED
    BY <1>3, <1>5, <1>6 DEF Route

LEMMA ReclaimKeeps ==
    ASSUME IInv, NEW p \in Procs, Active(p), at[p].step \in {"rerouting", "narrowing"},
           NEW phase \in {"route", "ground"}, Reclaim(p, phase)
    PROVE  IInv'
<1> DEFINE place == [at[p] EXCEPT !.step = "creating", !.phase = phase, !.slug = at[p].base]
<1>1. at[p] \in Places /\ Mine(p) /\ at[p].slug \in Slugs /\ at[p].base \in Slugs
    BY Working
<1>2. /\ place \in Places /\ place.step = "creating" /\ place.phase = phase
      /\ place.named = at[p].named /\ place.fit = at[p].fit
    BY <1>1 DEF Places, Claiming, Phases
<1>3. at' = [at EXCEPT ![p] = place]
    BY DEF Reclaim
<1> HIDE DEF place
<1>4. /\ at' \in [Procs -> Places \cup {Ready, Ended, Crashed}]
      /\ at'[p] = place /\ Active(p)' /\ (\A q \in Procs : q # p => at'[q] = at[q])
    BY <1>2, <1>3, StandsThere
<1>5. /\ store' \in [Slugs -> Sessions \cup {Absent}]
      /\ stranded' \subseteq Procs /\ stranded \subseteq stranded'
      /\ \A s \in Slugs : Exists(s)' => s # at[p].slug /\ store'[s] = store[s] /\ Exists(s)
      /\ \A s \in Slugs : Exists(s) =>
            \/ Exists(s)' /\ store'[s] = store[s]
            \/ s \in deleted
            \/ /\ store[s].maker = p
               /\ \A q \in Procs \ {p} : Discovers(q, s) => q \in stranded'
    BY DeleteFrame DEF Reclaim, Judging
<1>6. guard' = guard /\ byHand' = byHand /\ deleted' = deleted
    BY DEF Reclaim
<1>7. TypeOK'
    BY <1>4, <1>5, <1>6 DEF IInv, TypeOK
<1>8. Keeps(p)
    BY <1>4, <1>5, <1>6 DEF Keeps, Guessed
<1>9. \A s \in Slugs : ~(Guessed(s)' /\ store'[s].maker = p)
  <2>1. \A s \in Slugs : Guessed(s) /\ store[s].maker = p => s = at[p].slug
      BY <1>1, MarksAssumption DEF MarksAssumption, Mine, Guesses, Active
  <2> QED
      BY <1>5, <2>1 DEF Guessed
<1>10. Mine(p)'
    BY <1>1, <1>2, <1>4, <1>9
    DEF Mine, Flow, Judged, Guards, Owns, Rooted, Discovers, Lands, Pays, In, Guesses,
        Judging, Discovering
<1> QED
    BY <1>7, <1>8, <1>10, Kept

LEMMA SessionGoneKeeps ==
    ASSUME IInv, NEW p \in Procs, Active(p), SessionGone(p)
    PROVE  IInv'
<1>1. \A s \in Slugs : Guessed(s) => store[s].maker # p
    BY MarksAssumption DEF MarksAssumption, IInv, Mine, Guesses, Guessed, SessionGone, Active
<1> QED
    BY <1>1, LeaveKeeps DEF SessionGone

LEMMA RefusedLeavesNoGuess ==
    ASSUME IInv, NEW p \in Procs, Active(p), ReclaimRefused(p),
           NEW s \in Slugs, Guessed(s)
    PROVE  store[s].maker # p
    BY MarksAssumption
    DEF MarksAssumption, IInv, Mine, Guesses, Guessed, ReclaimRefused, Unmodelled, Active

LEMMA RerouteKeeps ==
    ASSUME IInv, NEW p \in Procs, Reroute(p)
    PROVE  IInv'
<1>1. /\ Active(p) /\ at[p].step = "rerouting" /\ at[p] \in Places /\ Mine(p)
      /\ at[p].slug \in Slugs /\ at[p].identity \in Identities
      /\ at[p].phase = "claim" /\ at[p].named = "no"
    BY Working DEF Reroute, In, Mine, Flow
<1>2. CASE Reclaim(p, "route")
    BY <1>1, <1>2, ReclaimKeeps
<1>3. CASE SessionGone(p)
    BY <1>1, <1>3, SessionGoneKeeps
<1>4. CASE /\ ReclaimRefused(p)
           /\ at' = [at EXCEPT ![p].step = "grounding", ![p].created = "theirs",
                               ![p].fit = "unasked", ![p].identity.perimeter = Default]
           /\ UNCHANGED <<store, guard, byHand, deleted, stranded>>
  <2> DEFINE under == [at[p].identity EXCEPT !.perimeter = Default]
  <2>1. under \in Identities
      BY <1>1, DiscoveryAssumption DEF DiscoveryAssumption, Identities
  <2>2. at' = [at EXCEPT ![p].step = "grounding", ![p].created = "theirs", ![p].fit = "unasked",
                         ![p].identity = under]
      BY <1>1, <1>4 DEF Places
  <2> HIDE DEF under
  <2>3. Further(p, "grounding", at[p].named, under, "theirs", "unasked")
            = [at[p] EXCEPT !.step = "grounding", !.created = "theirs", !.fit = "unasked",
                            !.identity = under]
      BY <1>1 DEF Further, Places
  <2>4. GoesOn(p, "grounding", at[p].named, under, "theirs", "unasked")
    <3>1. UNCHANGED <<store, guard, byHand, deleted, stranded>>
        BY <1>4
    <3>2. at' = [at EXCEPT ![p] = Further(p, "grounding", at[p].named, under, "theirs", "unasked")]
        BY <2>2, <2>3
    <3> QED
        BY <3>1, <3>2 DEF GoesOn, Grips
  <2>5. /\ Active(p)' /\ at'[p].step = "grounding" /\ at'[p].created = "theirs"
        /\ at'[p].fit = "unasked" /\ at'[p].phase = "claim" /\ at'[p].slug = at[p].slug
        /\ store' = store /\ guard' = guard
        /\ Mine(p)' => IInv'
    <3>1. /\ "grounding" \in Claiming \cup Discovering /\ "unasked" \in Fits
          /\ at[p].named \in {"yes", "no"} /\ "theirs" \in {"mine", "theirs"}
        BY <1>1 DEF Claiming, Judging, Fits
    <3>2. guard' = guard
        BY <1>4
    <3> QED
        BY <1>1, <2>1, <2>4, <3>1, <3>2, GoesOnThere
  <2>6. \A s \in Slugs : ~(Guessed(s)' /\ store'[s].maker = p)
      BY <1>1, <1>4, RefusedLeavesNoGuess DEF Guessed, Exists
  <2>7. Mine(p)'
      BY <1>1, <2>5, <2>6
      DEF Mine, Flow, Judged, Guards, Owns, Rooted, Discovers, Lands, Pays, In, Guesses,
          Judging, Discovering
  <2> QED
      BY <2>5, <2>7
<1> QED
    BY <1>2, <1>3, <1>4 DEF Reroute

LEMMA NarrowKeeps ==
    ASSUME IInv, NEW p \in Procs, Narrow(p)
    PROVE  IInv'
<1>1. /\ Active(p) /\ at[p].step = "narrowing" /\ at[p] \in Places /\ Mine(p)
      /\ at[p].slug \in Slugs /\ at[p].identity \in Identities
    BY Working DEF Narrow, In
<1>2. CASE Reclaim(p, "ground")
    BY <1>1, <1>2, ReclaimKeeps
<1>3. CASE SessionGone(p)
    BY <1>1, <1>3, SessionGoneKeeps
<1>4. CASE /\ ReclaimRefused(p)
           /\ at' = [at EXCEPT ![p].step = "noting", ![p].phase = "ground",
                               ![p].created = "theirs", ![p].identity.cards = AllCards]
           /\ UNCHANGED <<store, guard, byHand, deleted, stranded>>
  <2> DEFINE under == [at[p].identity EXCEPT !.cards = AllCards]
  <2>1. under \in Identities
      BY <1>1, DiscoveryAssumption DEF DiscoveryAssumption, Identities
  <2>2. at' = [at EXCEPT ![p].step = "noting", ![p].phase = "ground",
                         ![p].created = "theirs", ![p].identity = under]
      BY <1>1, <1>4 DEF Places
  <2> HIDE DEF under
  <2> DEFINE place == [at[p] EXCEPT !.step = "noting", !.phase = "ground",
                                    !.created = "theirs", !.identity = under]
  <2>3. /\ place \in Places /\ place.step = "noting" /\ place.phase = "ground"
        /\ place.created = "theirs" /\ place.fit = at[p].fit /\ place.slug = at[p].slug
        /\ place.named = at[p].named
      BY <1>1, <2>1 DEF Places, Claiming, Judging, Phases
  <2>4. Walks(p, place)
      BY <1>4, <2>2, <2>3 DEF Walks, Grips
  <2> HIDE DEF place
  <2>5. at'[p] = place /\ Active(p)' /\ guard' = guard
      BY <1>4, <2>4, StandsThere DEF Walks
  <2>6. \A s \in Slugs : ~(Guessed(s)' /\ store'[s].maker = p)
      BY <1>1, <1>4, RefusedLeavesNoGuess DEF Guessed, Exists
  <2>7. Mine(p)'
      BY <1>1, <2>3, <2>5, <2>6
      DEF Mine, Flow, Judged, Guards, Owns, Rooted, Discovers, Lands, Pays, In, Guesses,
          Judging, Discovering
  <2> QED
      BY <2>4, <2>7, WalkKeeps
<1> QED
    BY <1>2, <1>3, <1>4 DEF Narrow

LEMMA NoteKeeps ==
    ASSUME IInv, NEW p \in Procs, Note(p)
    PROVE  IInv'
<1>1. /\ Active(p) /\ at[p].step = "noting" /\ at[p] \in Places /\ Mine(p)
      /\ at[p].slug \in Slugs /\ at[p].fit \in Fits /\ at[p].fit # "guessed"
    BY Working DEF Note, In, Mine, Flow, Places
<1>2. \A s \in Slugs : Guessed(s) /\ store[s].maker = p =>
          s = at[p].slug /\ at[p].fit # "unasked"
    BY <1>1, MarksAssumption DEF MarksAssumption, Mine, Guesses, Judged, Active
<1>3. guard[at[p].slug] = p
    BY <1>1 DEF Mine, Guards, Judging
<1>4. PICK next \in {"settling", "grounding"} :
          \/ /\ at[p].fit = "unasked"
             /\ Goto(p, next)
             /\ UNCHANGED <<store, guard>>
          \/ /\ at[p].fit # "unasked" /\ Exists(at[p].slug)
             /\ store' = [store EXCEPT ![at[p].slug].fit = at[p].fit]
             /\ Goto(p, next)
             /\ UNCHANGED guard
          \/ /\ at[p].fit # "unasked" /\ ~Exists(at[p].slug)
             /\ Leave(p)
             /\ UNCHANGED store
    BY DEF Note
<1>5. UNCHANGED <<byHand, deleted, stranded>>
    BY DEF Note
<1>6. CASE at[p].fit = "unasked"
  <2>1. next = "grounding" /\ at[p].named = "no" => at[p].fit # "unasked"
      BY <1>1 DEF Mine, Judged
  <2>2. \A s \in Slugs : Guessed(s) => store[s].maker # p
      BY <1>2, <1>6
  <2> QED
      BY <1>1, <1>3, <1>4, <1>5, <1>6, <2>1, <2>2, JudgmentKeeps DEF Grips, Judging
<1>7. CASE at[p].fit # "unasked" /\ Exists(at[p].slug)
  <2> DEFINE place == [at[p] EXCEPT !.step = next]
             noted == [store[at[p].slug] EXCEPT !.fit = at[p].fit]
  <2>1. /\ noted \in Sessions /\ noted # Absent /\ noted.fit # "guessed"
        /\ noted.maker = store[at[p].slug].maker /\ noted.model = store[at[p].slug].model
        /\ noted.identity = store[at[p].slug].identity
    <3>1. store[at[p].slug] \in Sessions
        BY <1>1, <1>7 DEF Exists, IInv, TypeOK
    <3> QED
        BY <1>1, <3>1, MarksAssumption DEF MarksAssumption, Sessions
  <2>2. /\ place \in Places /\ place.step = next /\ place.named = at[p].named
        /\ place.slug = at[p].slug /\ place.fit = at[p].fit /\ place.created = at[p].created
        /\ place.phase = at[p].phase
      BY <1>1 DEF Places, Claiming, Judging
  <2>3. at' = [at EXCEPT ![p] = place] /\ store' = [store EXCEPT ![at[p].slug] = noted]
        /\ guard' = guard
      BY <1>4, <1>7 DEF Goto
  <2> HIDE DEF place, noted
  <2>4. /\ at' \in [Procs -> Places \cup {Ready, Ended, Crashed}]
        /\ at'[p] = place /\ Active(p)' /\ (\A q \in Procs : q # p => at'[q] = at[q])
      BY <2>2, <2>3, StandsThere
  <2>5. /\ store' \in [Slugs -> Sessions \cup {Absent}]
        /\ store'[at[p].slug] = noted
        /\ \A s \in Slugs : s # at[p].slug => store'[s] = store[s]
      BY <1>1, <2>1, <2>3 DEF IInv, TypeOK
  <2>6. TypeOK'
      BY <1>5, <2>3, <2>4, <2>5 DEF IInv, TypeOK
  <2>7. Keeps(p)
      BY <1>5, <1>7, <2>1, <2>3, <2>4, <2>5 DEF Keeps, Exists, Guessed
  <2>8. \A s \in Slugs : ~(Guessed(s)' /\ store'[s].maker = p)
      BY <1>2, <2>1, <2>5 DEF Guessed, Exists
  <2>9. Owns(p)'
      BY <1>1, <1>5, <2>1, <2>2, <2>4, <2>5 DEF Mine, Owns, Judging, Exists
  <2>10. Mine(p)'
      BY <1>1, <1>3, <2>2, <2>3, <2>4, <2>8, <2>9
      DEF Mine, Flow, Judged, Guards, Rooted, Discovers, Lands, Pays, In, Guesses,
          Judging, Discovering
  <2> QED
      BY <2>6, <2>7, <2>10, Kept
<1>8. CASE at[p].fit # "unasked" /\ ~Exists(at[p].slug)
  <2>1. \A s \in Slugs : Guessed(s) => store[s].maker # p
      BY <1>2, <1>8 DEF Guessed
  <2> QED
      BY <1>4, <1>5, <1>8, <2>1, LeaveKeeps
<1> QED
    BY <1>6, <1>7, <1>8

LEMMA GroundKeeps ==
    ASSUME IInv, NEW p \in Procs, Ground(p)
    PROVE  IInv'
<1>1. /\ Active(p) /\ at[p].step = "grounding" /\ at[p] \in Places /\ Mine(p)
      /\ at[p].slug \in Slugs /\ at[p].identity \in Identities
      /\ at[p].named \in {"yes", "no"} /\ at[p].fit \in Fits
    BY Working DEF Ground, In, Places
<1>2. \A s \in Slugs : Guessed(s) => store[s].maker # p
    BY <1>1, MarksAssumption DEF MarksAssumption, Mine, Guesses, Active
<1>3. guard[at[p].slug] = p
    BY <1>1 DEF Mine, Guards, Judging
<1>4. CASE Goto(p, "settling") /\ UNCHANGED guard
    BY <1>1, <1>2, <1>3, <1>4, JudgmentKeeps DEF Ground, Grips, Judging
<1>5. CASE Leave(p)
    BY <1>2, <1>5, LeaveKeeps DEF Ground
<1>6. ASSUME at[p].created = "mine", guard' = guard, NEW c \in Cards,
             at' = [at EXCEPT ![p].step = "narrowing", ![p].identity.cards = c]
      PROVE  IInv'
  <2> DEFINE under == [at[p].identity EXCEPT !.cards = c]
  <2>1. under \in Identities
      BY <1>1 DEF Identities
  <2>2. at' = [at EXCEPT ![p].step = "narrowing", ![p].identity = under]
      BY <1>1, <1>6 DEF Places
  <2> HIDE DEF under
  <2>3. Further(p, "narrowing", at[p].named, under, at[p].created, at[p].fit)
            = [at[p] EXCEPT !.step = "narrowing", !.identity = under]
      BY <1>1 DEF Further, Places
  <2>4. GoesOn(p, "narrowing", at[p].named, under, at[p].created, at[p].fit)
      BY <1>6, <2>2, <2>3 DEF GoesOn, Grips, Ground
  <2>5. /\ "narrowing" \in Claiming \cup Discovering
        /\ at[p].created \in {"mine", "theirs"}
      BY <1>6 DEF Claiming, Judging
  <2>6. /\ Active(p)' /\ at'[p].step = "narrowing" /\ at'[p].created = at[p].created
        /\ at'[p].fit = at[p].fit /\ at'[p].phase = at[p].phase /\ at'[p].slug = at[p].slug
        /\ at'[p].named = at[p].named
        /\ store' = store /\ deleted' = deleted
        /\ Mine(p)' => IInv'
      BY <1>1, <2>1, <2>4, <2>5, GoesOnThere
  <2>7. Owns(p)'
      BY <1>1, <1>6, <2>6 DEF Mine, Owns, Judging, Exists
  <2>8. \A s \in Slugs : ~(Guessed(s)' /\ store'[s].maker = p)
      BY <1>2, <2>6 DEF Guessed, Exists
  <2>9. Mine(p)'
      BY <1>1, <1>3, <1>6, <2>6, <2>7, <2>8
      DEF Mine, Flow, Judged, Guards, Rooted, Discovers, Lands, Pays, In, Guesses,
          Judging, Discovering
  <2> QED
      BY <2>6, <2>9
<1> QED
    BY <1>4, <1>5, <1>6 DEF Ground

LEMMA SettleKeeps ==
    ASSUME IInv, NEW p \in Procs, Settle(p)
    PROVE  IInv'
<1>1. /\ Active(p) /\ at[p].step = "settling" /\ at[p] \in Places /\ Mine(p)
      /\ at[p].slug \in Slugs /\ at[p].identity \in Identities /\ at[p].entry \in Entries
    BY Working DEF Settle, In, Places
<1> DEFINE step == IF at[p].entry = "draft" THEN "drafting" ELSE "creating"
           place == Place(at[p].entry, "start", at[p].identity, "yes", at[p].slug, step)
<1>2. step \in Claiming \cup Discovering /\ "start" \in Phases
      /\ (step = "drafting" => at[p].entry = "draft") /\ step \in {"drafting", "creating"}
    BY DEF Claiming, Discovering, Phases
<1>3. /\ place \in Places /\ place.step = step /\ place.named = "yes" /\ place.phase = "start"
      /\ place.entry = at[p].entry /\ place.fit = "unasked" /\ place.created = "theirs"
    BY <1>1, <1>2, PlaceIsOne
<1>4. Walks(p, place)
    BY <1>3 DEF Settle, Walks, Grips
<1> HIDE DEF place, step
<1>5. at'[p] = place /\ Active(p)'
    BY <1>3, <1>4, StandsThere DEF Walks
<1>6. \A s \in Slugs : ~(Guessed(s)' /\ store'[s].maker = p)
    BY <1>1, <1>4, MarksAssumption
    DEF MarksAssumption, Walks, Mine, Guesses, Guessed, Exists, Active
<1>7. Mine(p)'
    BY <1>2, <1>3, <1>5, <1>6
    DEF Mine, Flow, Judged, Guards, Owns, Rooted, Discovers, Lands, Pays, In, Guesses,
        Judging, Discovering
<1> QED
    BY <1>4, <1>7, WalkKeeps

----------------------------------------------------------------------------
(* start, run_discovery and finalize_discovery: the paid turn              *)

LEMMA NoGuessInDiscovery ==
    ASSUME IInv, NEW p \in Procs, Active(p), at[p].step \in Discovering,
           NEW s \in Slugs, Guessed(s)
    PROVE  store[s].maker # p
    BY MarksAssumption DEF MarksAssumption, IInv, Mine, Guesses, Active, Discovering

\* A step from one look at the session to the next.
LEMMA DiscoveringKeeps ==
    ASSUME IInv, NEW p \in Procs, Active(p), at[p].step \in Discovering, at[p].step # "drafting",
           NEW step \in {"entering", "rechecking", "paying", "applying"},
           Goto(p, step), Grips(p), UNCHANGED <<store, byHand, deleted, stranded>>,
           IF step = "entering" THEN UNCHANGED guard ELSE guard'[at[p].slug] = p,
           step = "paying" => Unmodelled(at[p].slug)
    PROVE  IInv'
<1>1. Mine(p)
    BY Working
<1>2. step \in Claiming \cup Discovering
    BY DEF Discovering
<1>3. /\ Active(p)' /\ at'[p].step = step /\ at'[p].named = at[p].named
      /\ at'[p].identity = at[p].identity /\ at'[p].created = at[p].created
      /\ at'[p].fit = at[p].fit /\ at'[p].entry = at[p].entry /\ at'[p].phase = at[p].phase
      /\ at'[p].slug = at[p].slug
      /\ store' = store /\ deleted' = deleted /\ stranded' = stranded
      /\ Mine(p)' => IInv'
    BY <1>2, GotoGoesOn
<1>4. Flow(p)' /\ Judged(p)'
    BY <1>1, <1>3 DEF Mine, Flow, Judged, Judging, Discovering
<1>5. Guards(p)' /\ Owns(p)'
    BY <1>3 DEF Guards, Owns, Judging
<1>6. Rooted(p)'
    BY <1>1, <1>3 DEF Mine, Rooted, Discovers, Undisturbed, Exists
<1>7. Lands(p)'
    BY <1>1, <1>3 DEF Mine, Lands, Undisturbed
<1>8. Pays(p)'
    BY <1>3 DEF Pays, In, Unmodelled, Exists
<1>9. Guesses(p)'
    BY <1>3, NoGuessInDiscovery DEF Guesses, Guessed, Exists
<1> QED
    BY <1>3, <1>4, <1>5, <1>6, <1>7, <1>8, <1>9 DEF Mine

LEMMA CheckKeeps ==
    ASSUME IInv, NEW p \in Procs, Check(p)
    PROVE  IInv'
<1>1. Active(p) /\ at[p].step = "checking" /\ at[p].step \in Discovering
    BY DEF Check, In, Discovering
<1>2. CASE Unmodelled(at[p].slug)
    BY <1>1, <1>2, DiscoveringKeeps DEF Check, Grips
<1>3. CASE ~Unmodelled(at[p].slug)
    BY <1>1, <1>3, LeaveKeeps, NoGuessInDiscovery DEF Check
<1> QED
    BY <1>2, <1>3

LEMMA EnterKeeps ==
    ASSUME IInv, NEW p \in Procs, Enter(p)
    PROVE  IInv'
<1>1. /\ Active(p) /\ at[p].step = "entering" /\ at[p].step \in Discovering
      /\ at[p].slug \in Slugs
    BY Working DEF Enter, In, Discovering
<1>2. CASE guard[at[p].slug] = Nobody
  <2>1. Grips(p) /\ guard'[at[p].slug] = p
      BY <1>1, <1>2 DEF Enter, Grips, Guarded, Take, IInv, TypeOK
  <2> QED
      BY <1>1, <1>2, <2>1, DiscoveringKeeps DEF Enter
<1>3. CASE guard[at[p].slug] # Nobody
    BY <1>1, <1>3, LeaveKeeps, NoGuessInDiscovery DEF Enter
<1> QED
    BY <1>2, <1>3

LEMMA RecheckKeeps ==
    ASSUME IInv, NEW p \in Procs, Recheck(p)
    PROVE  IInv'
<1>1. /\ Active(p) /\ at[p].step = "rechecking" /\ at[p].step \in Discovering
      /\ guard[at[p].slug] = p
    BY Working DEF Recheck, In, Discovering, Mine, Guards
<1>2. CASE Unmodelled(at[p].slug)
    BY <1>1, <1>2, DiscoveringKeeps DEF Recheck, Grips
<1>3. CASE ~Unmodelled(at[p].slug)
    BY <1>1, <1>3, LeaveKeeps, NoGuessInDiscovery DEF Recheck
<1> QED
    BY <1>2, <1>3

LEMMA PayKeeps ==
    ASSUME IInv, NEW p \in Procs, Pay(p)
    PROVE  IInv'
<1>1. /\ Active(p) /\ at[p].step = "paying" /\ at[p].step \in Discovering /\ Mine(p)
      /\ at[p] \in Places /\ at[p].slug \in Slugs /\ guard[at[p].slug] = p
    BY Working DEF Pay, In, Discovering, Mine, Guards
<1>2. CASE Leave(p)
    BY <1>1, <1>2, LeaveKeeps, NoGuessInDiscovery DEF Pay
<1>3. CASE /\ UNCHANGED guard
           /\ at' = [at EXCEPT ![p].step = "creating", ![p].phase = "finalize",
                               ![p].base = at[p].slug]
  <2> DEFINE place == [at[p] EXCEPT !.step = "creating", !.phase = "finalize",
                                    !.base = at[p].slug]
  <2>1. /\ place \in Places /\ place.step = "creating" /\ place.phase = "finalize"
        /\ place.named = at[p].named /\ place.identity = at[p].identity
        /\ place.slug = at[p].slug /\ place.fit = at[p].fit /\ place.entry = at[p].entry
      BY <1>1 DEF Places, Claiming, Phases
  <2>2. Walks(p, place)
      BY <1>3, <2>1 DEF Pay, Walks, Grips
  <2> HIDE DEF place
  <2>3. at'[p] = place /\ Active(p)'
      BY <2>1, <2>2, StandsThere DEF Walks
  <2>4. Rooted(p)'
      BY <1>1, <2>1, <2>2, <2>3 DEF Walks, Mine, Rooted, Discovers, Undisturbed, Exists
  <2>5. Lands(p)'
      BY <1>1, <1>3, <2>1, <2>3 DEF Lands
  <2>6. \A s \in Slugs : ~(Guessed(s)' /\ store'[s].maker = p)
      BY <1>1, <2>2, NoGuessInDiscovery DEF Walks, Guessed, Exists
  <2>7. Mine(p)'
      BY <1>1, <2>1, <2>3, <2>4, <2>5, <2>6
      DEF Mine, Flow, Judged, Guards, Owns, Pays, In, Guesses, Judging, Discovering
  <2> QED
      BY <2>2, <2>7, WalkKeeps
<1>4. CASE Goto(p, "applying") /\ UNCHANGED guard
    BY <1>1, <1>4, DiscoveringKeeps DEF Pay, Grips
<1> QED
    BY <1>2, <1>3, <1>4 DEF Pay

LEMMA DraftKeeps ==
    ASSUME IInv, NEW p \in Procs, Draft(p)
    PROVE  IInv'
<1>1. /\ Active(p) /\ at[p].step = "drafting" /\ at[p].step \in Discovering /\ Mine(p)
      /\ at[p] \in Places /\ at[p].entry = "draft"
    BY Working DEF Draft, In, Discovering, Mine, Flow
<1>2. CASE Leave(p)
    BY <1>1, <1>2, LeaveKeeps, NoGuessInDiscovery DEF Draft
<1>3. CASE /\ UNCHANGED guard
           /\ at' = [at EXCEPT ![p].step = "creating", ![p].phase = "finalize"]
  <2> DEFINE place == [at[p] EXCEPT !.step = "creating", !.phase = "finalize"]
  <2>1. /\ place \in Places /\ place.step = "creating" /\ place.phase = "finalize"
        /\ place.named = at[p].named /\ place.fit = at[p].fit /\ place.entry = "draft"
      BY <1>1 DEF Places, Claiming, Phases
  <2>2. Walks(p, place)
      BY <1>3, <2>1 DEF Draft, Walks, Grips
  <2> HIDE DEF place
  <2>3. at'[p] = place /\ Active(p)'
      BY <2>1, <2>2, StandsThere DEF Walks
  <2>4. \A s \in Slugs : ~(Guessed(s)' /\ store'[s].maker = p)
      BY <1>1, <2>2, NoGuessInDiscovery DEF Walks, Guessed, Exists
  <2>5. Mine(p)'
      BY <1>1, <2>1, <2>3, <2>4
      DEF Mine, Flow, Judged, Guards, Owns, Rooted, Discovers, Lands, Pays, In, Guesses,
          Judging, Discovering
  <2> QED
      BY <2>2, <2>5, WalkKeeps
<1> QED
    BY <1>2, <1>3 DEF Draft

LEMMA ApplyKeeps ==
    ASSUME IInv, NEW p \in Procs, Apply(p)
    PROVE  IInv'
<1>1. /\ Active(p) /\ at[p].step = "applying" /\ at[p].step \in Discovering
      /\ at[p].slug \in Slugs
    BY Working DEF Apply, In, Discovering
<1>2. CASE Unmodelled(at[p].slug)
  <2> DEFINE model == IF at[p].entry = "draft" THEN "applied" ELSE "discovered"
             applied == [store[at[p].slug] EXCEPT !.model = model]
  <2>1. /\ applied \in Sessions /\ applied # Absent
        /\ applied.maker = store[at[p].slug].maker /\ applied.model = model
        /\ applied.identity = store[at[p].slug].identity
    <3>1. store[at[p].slug] \in Sessions
        BY <1>1, <1>2 DEF Unmodelled, Exists, IInv, TypeOK
    <3> QED
        BY <3>1, MarksAssumption DEF MarksAssumption, Sessions
  <2>2. model # "none" /\ (model = "discovered" => at[p].entry # "draft")
      OBVIOUS
  <2>3. store' = [store EXCEPT ![at[p].slug] = applied]
      BY <1>2 DEF Apply
  <2> HIDE DEF applied, model
  <2>4. /\ store' \in [Slugs -> Sessions \cup {Absent}]
        /\ store'[at[p].slug] = applied
        /\ \A s \in Slugs : s # at[p].slug => store'[s] = store[s]
      BY <1>1, <2>1, <2>3 DEF IInv, TypeOK
  <2>5. /\ at' \in [Procs -> Places \cup {Ready, Ended, Crashed}]
        /\ at'[p] = Ended /\ ~Active(p)'
        /\ \A q \in Procs : q # p => at'[q] = at[q]
      BY DEF Apply, Leave, IInv, TypeOK, Active
  <2>6. /\ guard' \in [Slugs -> Procs \cup {Nobody}]
        /\ \A s \in Slugs : guard'[s] # p
        /\ \A s \in Slugs :
              \/ guard'[s] = guard[s]
              \/ guard[s] \in {p, Nobody} /\ guard'[s] \in {p, Nobody}
      BY DiscoveryAssumption DEF DiscoveryAssumption, Apply, Leave, IInv, TypeOK
  <2>7. UNCHANGED <<byHand, deleted, stranded>>
      BY DEF Apply
  <2>8. TypeOK'
      BY <2>4, <2>5, <2>6, <2>7 DEF IInv, TypeOK
  <2>9. Keeps(p)
      BY <1>1, <1>2, <2>1, <2>2, <2>4, <2>5, <2>6, <2>7
      DEF Keeps, Exists, Guessed, Unmodelled
  <2>10. \A s \in Slugs : ~(Guessed(s)' /\ store'[s].maker = p)
      BY <1>1, <2>1, <2>2, <2>4, NoGuessInDiscovery DEF Guessed, Exists
  <2>11. Mine(p)'
      BY <2>5, <2>10 DEF Mine, Flow, Judged, Guards, Owns, Rooted, Lands, Pays, In, Guesses
  <2> QED
      BY <2>8, <2>9, <2>11, Kept
<1>3. CASE ~Unmodelled(at[p].slug)
    BY <1>1, <1>3, LeaveKeeps, NoGuessInDiscovery DEF Apply
<1> QED
    BY <1>2, <1>3

----------------------------------------------------------------------------
(* The rest of the world                                                   *)

LEMMA CrashKeeps ==
    ASSUME IInv, NEW p \in Procs, Crash(p)
    PROVE  IInv'
<1>1. /\ at' \in [Procs -> Places \cup {Ready, Ended, Crashed}]
      /\ at'[p] = Crashed /\ ~Active(p)'
      /\ \A q \in Procs : q # p => at'[q] = at[q]
    BY DEF Crash, IInv, TypeOK, Active
<1>2. /\ guard' \in [Slugs -> Procs \cup {Nobody}]
      /\ \A s \in Slugs : guard'[s] # p
      /\ \A s \in Slugs :
            \/ guard'[s] = guard[s]
            \/ guard[s] \in {p, Nobody} /\ guard'[s] \in {p, Nobody}
    BY DiscoveryAssumption DEF DiscoveryAssumption, Crash, IInv, TypeOK
<1>3. TypeOK'
    BY <1>1, <1>2 DEF Crash, IInv, TypeOK
<1>4. Keeps(p)
    BY <1>1, <1>2 DEF Crash, Keeps, Exists, Guessed
<1>5. Mine(p)'
    BY <1>1 DEF Mine, Flow, Judged, Guards, Owns, Rooted, Lands, Pays, In, Guesses
<1> QED
    BY <1>3, <1>4, <1>5, Kept

\* What a user does takes no guard and moves no invocation.
LEMMA UserKeeps ==
    ASSUME IInv, byHand < MaxByHand, byHand' = byHand + 1, UNCHANGED <<guard, at, stranded>>,
           NEW s \in Slugs, NEW new \in Sessions \cup {Absent},
           store' = [store EXCEPT ![s] = new],
           deleted \subseteq deleted', deleted' \subseteq Slugs,
           \/ new = Absent /\ s \in deleted'
           \/ /\ new # Absent /\ Exists(s)
              /\ new.identity = store[s].identity /\ new.maker = store[s].maker
              /\ new.model = "applied"
           \/ new # Absent /\ ~Exists(s) /\ new.fit # "guessed" /\ new.model = "none"
    PROVE  IInv'
<1>1. /\ store' \in [Slugs -> Sessions \cup {Absent}]
      /\ store'[s] = new
      /\ \A t \in Slugs : t # s => store'[t] = store[t]
    BY DEF IInv, TypeOK
<1>2. byHand' \in 0..MaxByHand
    BY DiscoveryAssumption DEF DiscoveryAssumption, IInv, TypeOK
<1>3. TypeOK'
    BY <1>1, <1>2 DEF IInv, TypeOK
<1>4. Nobody \notin Procs
    BY DiscoveryAssumption DEF DiscoveryAssumption
<1>5. Keeps(Nobody)
    BY <1>1, <1>4 DEF Keeps, Exists, Guessed
<1> QED
    BY <1>3, <1>4, <1>5, Kept

LEMMA ByHandKeeps ==
    ASSUME IInv, NEW s \in Slugs, ByHand(s)
    PROVE  IInv'
<1>1. ASSUME NEW b \in Bases, NEW identity \in AskedByHand, CreateByHand(s, b, identity)
      PROVE  IInv'
  <2> DEFINE new == [identity |-> identity, model |-> "none", fit |-> "unasked",
                     maker |-> Nobody]
  <2>1. new \in Sessions /\ new # Absent /\ new.fit # "guessed" /\ new.model = "none"
      BY DiscoveryAssumption, MarksAssumption
      DEF DiscoveryAssumption, MarksAssumption, Sessions, Fits
  <2>2. store' = [store EXCEPT ![s] = new] /\ deleted' = deleted /\ ~Exists(s)
      BY <1>1 DEF CreateByHand
  <2> HIDE DEF new
  <2>3. deleted' \subseteq Slugs
      BY <2>2 DEF IInv, TypeOK
  <2> QED
      BY <1>1, <2>1, <2>2, <2>3, UserKeeps DEF ByHand, CreateByHand
<1>2. CASE ApplyByHand(s)
  <2> DEFINE new == [store[s] EXCEPT !.model = "applied"]
  <2>1. store[s] \in Sessions /\ Exists(s)
      BY <1>2 DEF ApplyByHand, Unmodelled, Exists, IInv, TypeOK
  <2>2. /\ new \in Sessions /\ new # Absent /\ new.model = "applied"
        /\ new.identity = store[s].identity /\ new.maker = store[s].maker
      BY <2>1, MarksAssumption DEF MarksAssumption, Sessions
  <2>3. store' = [store EXCEPT ![s] = new] /\ deleted' = deleted
      BY <1>2 DEF ApplyByHand
  <2> HIDE DEF new
  <2>4. deleted' \subseteq Slugs
      BY <2>3 DEF IInv, TypeOK
  <2> QED
      BY <1>2, <2>1, <2>2, <2>3, <2>4, UserKeeps DEF ByHand, ApplyByHand
<1>3. CASE DeleteByHand(s)
  <2>1. /\ store' = [store EXCEPT ![s] = Absent] /\ s \in deleted'
        /\ deleted \subseteq deleted' /\ deleted' \subseteq Slugs
      BY <1>3 DEF DeleteByHand, IInv, TypeOK
  <2> QED
      BY <1>3, <2>1, UserKeeps DEF ByHand, DeleteByHand
<1> QED
    BY <1>1, <1>2, <1>3 DEF ByHand

----------------------------------------------------------------------------
(* The theorems                                                            *)

LEMMA NextKeeps == IInv /\ [Next]_vars => IInv'
<1> SUFFICES ASSUME IInv, [Next]_vars PROVE IInv'
    OBVIOUS
<1>1. ASSUME NEW p \in Procs, Begin(p) PROVE IInv'
    BY <1>1, ClaimKeeps, ClaimOnTheWebKeeps, RunKeeps DEF Begin
<1>2. ASSUME NEW p \in Procs, ClaimAndGround(p) PROVE IInv'
    BY <1>2, LookKeeps, CreateKeeps, CompareKeeps, WelcomeKeeps, GuardClaimKeeps, BackOutKeeps,
       RouteKeeps, RerouteKeeps, NoteKeeps, GroundKeeps, NarrowKeeps, SettleKeeps
    DEF ClaimAndGround
<1>3. ASSUME NEW p \in Procs, Discover(p) PROVE IInv'
    BY <1>3, CheckKeeps, EnterKeeps, RecheckKeeps, PayKeeps, DraftKeeps, ApplyKeeps
    DEF Discover
<1>4. ASSUME NEW p \in Procs, Crash(p) PROVE IInv'
    BY <1>4, CrashKeeps
<1>5. ASSUME NEW s \in Slugs, ByHand(s) PROVE IInv'
    BY <1>5, ByHandKeeps
<1>6. CASE UNCHANGED vars
  <2>1. /\ store' = store /\ guard' = guard /\ at' = at /\ byHand' = byHand
        /\ deleted' = deleted /\ stranded' = stranded
      BY <1>6 DEF vars
  <2>2. TypeOK' /\ NoGuardLeaks' /\ Makers'
      BY <2>1 DEF IInv, TypeOK, NoGuardLeaks, Active, Makers, Guessed, Exists
  <2>3. ASSUME NEW p \in Procs PROVE Mine(p)'
      BY <2>1
      DEF IInv, Mine, Flow, Judged, Guards, Owns, Rooted, Discovers, Lands, Pays, In,
          Guesses, Guessed, Exists, Active, Undisturbed
  <2> QED
      BY <2>2, <2>3 DEF IInv
<1> QED
    BY <1>1, <1>2, <1>3, <1>4, <1>5, <1>6 DEF Next

\* The invariant above holds in every state that a behaviour reaches.
THEOREM DiscoveryInvariant == Spec => []IInv
<1> QED
    BY DiscoveryStart, NextKeeps, PTL DEF Spec

\* Every place, session and guard is what the model says it may be.
THEOREM DiscoveryTypes == Spec => []TypeOK
<1>1. IInv => TypeOK
    BY DEF IInv
<1> QED
    BY <1>1, DiscoveryInvariant, PTL

\* A guard is never left to an invocation that has ended or died.
THEOREM DiscoveryLeaksNoGuard == Spec => []NoGuardLeaks
<1>1. IInv => NoGuardLeaks
    BY DEF IInv
<1> QED
    BY <1>1, DiscoveryInvariant, PTL

\* Whatever the number of invocations, no two pay for one session under its guard at a
\* time, and none where a discovery that did has landed, unless one lost its session.
\* The turns of a draft are paid for under no guard, and it says nothing of them.
THEOREM DiscoveryPaidOnceUnderGuard == Spec => []PaidOnceUnderGuard
<1>1. IInv => PaidOnceUnderGuard
  <2> SUFFICES ASSUME IInv, NEW p \in Procs, In(p, "paying")
               PROVE  /\ \A q \in Procs : In(q, "paying") /\ at[q].slug = at[p].slug => p = q
                      /\ deleted = {} /\ stranded = {} /\ Exists(at[p].slug)
                             => store[at[p].slug].model # "discovered"
      BY DEF PaidOnceUnderGuard
  <2>1. \A q \in Procs : In(q, "paying") => guard[at[q].slug] = q
      BY DEF IInv, Mine, Guards, In
  <2>2. Undisturbed /\ Exists(at[p].slug) => store[at[p].slug].model # "discovered"
      BY DEF IInv, Mine, Pays
  <2> QED
      BY <2>1, <2>2 DEF Undisturbed
<1> QED
    BY <1>1, DiscoveryInvariant, PTL

\* The guard that a claim is judged under keeps every paid call away from its session.
THEOREM DiscoveryJudgesInPeace == Spec => []JudgedInPeace
<1>1. IInv => JudgedInPeace
  <2> SUFFICES ASSUME IInv, NEW p \in Procs, NEW q \in Procs,
                      Active(p), at[p].step \in Judging, In(q, "paying"),
                      at[p].slug = at[q].slug
               PROVE  FALSE
      BY DEF JudgedInPeace
  <2>1. guard[at[p].slug] = p /\ guard[at[q].slug] = q
      BY DEF IInv, Mine, Guards, In
  <2> QED
      BY <2>1 DEF In, Judging
<1> QED
    BY <1>1, DiscoveryInvariant, PTL

\* A guessed perimeter is settled, or its session deleted, before the call that
\* guessed it returns, however that call goes.
THEOREM DiscoveryLeavesNoGuess == Spec => []NoGuessSurvives
<1>1. IInv => NoGuessSurvives
  <2> SUFFICES ASSUME IInv, NEW s \in Slugs, Guessed(s)
               PROVE  \/ at[store[s].maker] = Crashed
                      \/ Active(store[s].maker) /\ at[store[s].maker].step \in Claiming
      BY DEF NoGuessSurvives, Guessed
  <2>1. store[s].maker \in Procs
      BY DEF IInv, Makers
  <2> QED
      BY <2>1 DEF IInv, Mine, Guesses, Claiming, Judging
<1> QED
    BY <1>1, DiscoveryInvariant, PTL

\* A step that takes a session out of the store is a claim's deletion, or a user's.
LEMMA WhoDeletes ==
    ASSUME IInv, Next, NEW s \in Slugs, Exists(s), ~Exists(s)'
    PROVE  \/ UNCHANGED at
           \/ \E p \in Procs : /\ Active(p) /\ at[p].step \in Judging \cup {"backing_out"}
                               /\ Delete(p) /\ at[p].slug = s
                               /\ \A q \in Procs : q # p => at'[q] = at[q]
<1>1. store'[s] = Absent /\ store[s] \in Sessions
    BY DEF Exists, IInv, TypeOK
<1>2. ASSUME NEW p \in Procs, Begin(p) \/ Crash(p) PROVE FALSE
    BY <1>1, <1>2 DEF Begin, Claim, ClaimOnTheWeb, Run, Crash, Exists
<1>3. ASSUME NEW t \in Slugs, ByHand(t) PROVE UNCHANGED at
    BY <1>3 DEF ByHand, CreateByHand, ApplyByHand, DeleteByHand
<1>4. ASSUME NEW p \in Procs, Discover(p) PROVE FALSE
  <2>1. UNCHANGED store \/ Apply(p)
      BY <1>4 DEF Discover, Check, Enter, Recheck, Pay, Draft
  <2>2. CASE Apply(p)
    <3>1. PICK model : \/ UNCHANGED store
                       \/ store' = [store EXCEPT ![at[p].slug].model = model]
                          /\ model \in {"applied", "discovered"}
        BY <2>2 DEF Apply
    <3>2. store'[s] \in Sessions
        BY <1>1, <3>1 DEF IInv, TypeOK, Sessions
    <3> QED
        BY <1>1, <3>2, MarksAssumption DEF MarksAssumption
  <2> QED
      BY <1>1, <2>1, <2>2 DEF Exists
<1>5. ASSUME NEW p \in Procs, ClaimAndGround(p)
      PROVE  /\ Active(p) /\ at[p].step \in Judging \cup {"backing_out"}
             /\ Delete(p) /\ at[p].slug = s
             /\ \A q \in Procs : q # p => at'[q] = at[q]
  <2>1. \/ UNCHANGED store
        \/ Create(p) \/ Note(p) \/ BackOut(p) \/ Reroute(p) \/ Narrow(p)
      BY <1>5 DEF ClaimAndGround, Look, Compare, Welcome, GuardClaim, Route, Ground, Settle
  <2>2. ~Create(p)
      BY <1>1 DEF Create, Exists, IInv, TypeOK
  <2>3. ASSUME Note(p) PROVE FALSE
    <3>1. at[p].fit \in Fits
        BY <2>3, Working DEF Note, In, Places
    <3>2. UNCHANGED store \/ store' = [store EXCEPT ![at[p].slug].fit = at[p].fit]
        BY <2>3 DEF Note
    <3>3. store'[s] \in Sessions
        BY <1>1, <3>1, <3>2 DEF IInv, TypeOK, Sessions
    <3> QED
        BY <1>1, <3>3, MarksAssumption DEF MarksAssumption
  <2>4. Active(p) /\ at[p].step \in Judging \cup {"backing_out"} /\ Delete(p)
      BY <1>1, <2>1, <2>2, <2>3
      DEF Exists, BackOut, Reroute, Narrow, Reclaim, SessionGone, In, Judging
  <2>5. at[p].slug = s
      BY <1>1, <2>4 DEF Delete, Exists, IInv, TypeOK
  <2>6. \A q \in Procs : q # p => at'[q] = at[q]
      BY <1>1, <2>1, <2>2, <2>3
      DEF Exists, BackOut, Leave, Reroute, Narrow, Reclaim, SessionGone, IInv, TypeOK
  <2> QED
      BY <2>4, <2>5, <2>6
<1> QED
    BY <1>2, <1>3, <1>4, <1>5 DEF Next

\* A claim deletes the session that it created itself, with no model in it, and no
\* other, as long as no user deleted the slug's session before.
THEOREM DiscoveryDeletesItsOwn == Spec => DeletesOnlyItsOwn
<1> DEFINE Only == \A p \in Procs, s \in Slugs \ deleted :
                      /\ Active(p) /\ at'[p] # at[p]
                      /\ store[s] # Absent /\ store'[s] = Absent
                      => store[s].maker = p /\ store[s].model = "none"
<1>1. IInv /\ [Next]_vars => [Only]_vars
  <2> SUFFICES ASSUME IInv, Next, NEW p \in Procs, NEW s \in Slugs, s \notin deleted,
                      Active(p), at'[p] # at[p], Exists(s), ~Exists(s)'
               PROVE  store[s].maker = p /\ store[s].model = "none"
      BY DEF Exists
  <2>1. /\ at[p].step \in Judging \cup {"backing_out"}
        /\ Delete(p) /\ at[p].slug = s
      BY WhoDeletes
  <2>2. at[p].created = "mine" /\ store[s].model = "none"
      BY <2>1 DEF Delete, Deletable, Unmodelled
  <2>3. store[s].maker = p
      BY <2>1, <2>2 DEF IInv, Mine, Owns
  <2> QED
      BY <2>2, <2>3
<1> QED
    BY <1>1, DiscoveryInvariant, PTL DEF Spec, DeletesOnlyItsOwn
=============================================================================

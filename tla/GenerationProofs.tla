-------------------------- MODULE GenerationProofs --------------------------
(***************************************************************************)
(* What paid operations write, and what they cost, for any number of       *)
(* invocations and of users that work on the slug meanwhile.               *)
(*                                                                         *)
(* A document is filed long after the model it is about was read.  What    *)
(* ties the two is what an operation remembers of its snapshot (Basis),    *)
(* which holds as long as the session is the one that was read; no session *)
(* is ever the one that was read again, for they are numbered (Numbered).  *)
(* The ledger is tied to what was billed attempt by attempt (Accounts).    *)
(***************************************************************************)
EXTENDS Generation, TLAPS

\* The steps between the snapshot of an operation and its last write.
Working == {"calling", "replied", "filing", "companion"}

Numbered == session # Nothing => session.born = born

\* An operation that is paid for has read a session, but for a judgment, and but for a
\* first discovery a model of it.
HasRead(c) ==
    at[c].step \in Working =>
        /\ at[c].todo # <<>>
        /\ In(c, "companion") => Doing(c, "brief")
        /\ Judging(c) \/ at[c].born \in DOMAIN MaxRevs
        /\ Judging(c) \/ Discovering(c) \/ (at[c].revision > 0 /\ at[c].of \in Models)

\* The call under way is one of the operation's.
Fits(c) ==
    at[c].step \in {"calling", "replied"} =>
        /\ Doing(c, "route") => at[c].call = "route"
        /\ Doing(c, "ground") => at[c].call = "ground"
        /\ Discovering(c) => at[c].call = "analyze"
        /\ Doing(c, "answer") => at[c].call \in {"analyze", "note"}
        /\ Doing(c, "brief") <=> at[c].call = "brief"
        /\ Doing(c, "stories") => at[c].call = "stories"
        /\ Doing(c, "estimate") => at[c].call \in {"stories", "estimate"}

\* What will be filed under at[c].revision is about that revision: its facts, and its
\* reasoning too but for that of a brief not absorbed yet, or refused.
Basis(c) ==
    /\ session # Nothing /\ session.born = at[c].born
    /\ at[c].step \in Working /\ ~Judging(c) /\ ~Discovering(c) /\ ~Doing(c, "answer")
    => /\ at[c].revision <= Revision
       /\ at[c].of.facts = session.models[at[c].revision].facts
       /\ at[c].absorbed = "yes" /\ ~Briefed(c) => at[c].of = session.models[at[c].revision]

\* So is what has been filed; and it is called fresh as long as that model is current.
RowsStand ==
    \A row \in OwnRows :
        /\ row.source <= Revision
        /\ row.of.facts = session.models[row.source].facts
        /\ row.absorbed = "yes" => row.of = session.models[row.source]
        /\ row.stale = "no" => session.models[row.source] = Last(session.models)

\* The apply of this operation has not stamped its share of the ledger yet.
Unstamped(c) == at[c].step \in {"calling", "replied"} /\ at[c].call \in {"analyze", "brief"}

\* The grounding judgment is made once, and after the router's.
GroundedOnce(c) ==
    Doing(c, "route") \/ (In(c, "ready") /\ Doing(c, "ground")) => at[c].grounded = "no"

\* What the ledger holds of the calls that are over: past the ceiling by one that was
\* checked and, where it has been made, the grounding judgment.
Charged(place, grounded) ==
    /\ place.rate = "priced" =>
          place.spent <= Ceiling + Retries + (IF grounded = "yes" THEN Retries + 1 ELSE 0)
    /\ place.rate = "unpriced" => place.calls <= (IF grounded = "yes" THEN 2 ELSE 1)

\* The ledger has what was billed for the calls that are over; the one under way was
\* begun below the ceiling, or is the grounding judgment, and the only one.
Accounts(c) ==
    /\ at[c].cut = "no" => at[c].billed = at[c].spent + at[c].rec
    /\ IF In(c, "calling") THEN at[c].rec <= at[c].attempts ELSE at[c].rec = 0
    /\ In(c, "calling") /\ at[c].call # "ground" => MaySpend(c)
    /\ In(c, "calling") /\ at[c].call = "ground" =>
          at[c].grounded = "yes" /\ Charged(at[c], "no")
    /\ Charged(at[c], at[c].grounded)
    /\ at[c].stamped <= at[c].spent
    /\ Unstamped(c) => at[c].stamped <= at[c].before

\* An invocation begins with an empty ledger.
Unused(c) == In(c, "new") => at[c] = Idle

IInv ==
    /\ TypeOK
    /\ Numbered
    /\ RowsStand
    /\ \A c \in Clients : /\ HasRead(c) /\ Fits(c) /\ Basis(c)
                          /\ GroundedOnce(c) /\ Accounts(c) /\ Unused(c)

----------------------------------------------------------------------------
(* A step moves the session, or the place of one invocation, or both: what *)
(* is needed of either, for the invariant to be kept.                      *)

\* The session and its rows, and what the other invocations have read of it.
SessionStands ==
    /\ session' \in Sessions \cup {Nothing}
    /\ born' \in 0..Len(MaxRevs) /\ born <= born'
    /\ Numbered' /\ RowsStand'
    /\ \A c \in Clients : at'[c] = at[c] => Basis(c)'

\* The invocation that moves, and its ledger.
PlaceStands(c) ==
    /\ at' \in [Clients -> Places] /\ \A d \in Clients \ {c} : at'[d] = at[d]
    /\ at'[c].born <= born /\ at'[c].before <= at'[c].spent
    /\ guard' \in Clients \cup {Nobody}
    /\ HasRead(c)' /\ Fits(c)' /\ GroundedOnce(c)' /\ Accounts(c)' /\ at'[c].step # "new"

LEMMA BothStand ==
  ASSUME IInv, NEW c \in Clients, SessionStands, PlaceStands(c), Basis(c)'
  PROVE  IInv'
<1> USE DEF SessionStands, PlaceStands
<1>1. born \in Nat /\ born' \in Nat /\ \A d \in Clients : at'[d].born \in Nat
  BY GenerationAssumption DEF GenerationAssumption, IInv, TypeOK, Places
<1>2. TypeOK'
  <2>1. \A d \in Clients : at'[d].born <= born' /\ at'[d].before <= at'[d].spent
    BY <1>1 DEF IInv, TypeOK
  <2> QED
    BY <2>1 DEF TypeOK
<1>3. \A d \in Clients : (HasRead(d) /\ Fits(d) /\ Basis(d))'
  BY DEF IInv, HasRead, Fits, Judging, Discovering, Doing, In
<1>4. \A d \in Clients : (GroundedOnce(d) /\ Accounts(d) /\ Unused(d))'
  BY DEF IInv, GroundedOnce, Accounts, Charged, Unused, Doing, In, MaySpend, CostKnown, Unstamped
<1> QED
  BY <1>2, <1>3, <1>4 DEF IInv

\* What the types say, and what the assumptions do of the bounds.
LEMMA Typing ==
  ASSUME IInv
  PROVE  /\ session # Nothing => /\ session \in Sessions /\ session.born \in DOMAIN MaxRevs
                                 /\ session.models \in Seq(Models) /\ Revision \in Nat
                                 /\ session.docs \in [Types -> Rows \cup {Nothing}]
         /\ born \in Nat /\ DOMAIN MaxRevs = 1..Len(MaxRevs) /\ Len(MaxRevs) \in Nat
         /\ Retries \in Nat /\ Ceiling \in Nat \ {0}
         /\ born \in 0..Len(MaxRevs) /\ guard \in Clients \cup {Nobody}
         /\ \A c \in Clients : at[c] \in Places /\ at[c].born <= born /\ at[c].born \in Nat
<1>1. MaxRevs \in Seq(Nat) /\ Retries \in Nat /\ Ceiling \in Nat \ {0}
  BY GenerationAssumption DEF GenerationAssumption
<1>2. DOMAIN MaxRevs = 1..Len(MaxRevs) /\ Len(MaxRevs) \in Nat
  BY <1>1
<1>3. born \in 0..Len(MaxRevs) /\ born \in Nat /\ guard \in Clients \cup {Nobody}
  BY <1>2 DEF IInv, TypeOK
<1>4. ASSUME session # Nothing
      PROVE  /\ session \in Sessions /\ session.born \in DOMAIN MaxRevs
             /\ session.models \in Seq(Models) /\ Revision \in Nat
             /\ session.docs \in [Types -> Rows \cup {Nothing}]
  <2>1. session \in Sessions
    BY <1>4 DEF IInv, TypeOK
  <2>2. session.models \in Seq(Models)
    BY <2>1 DEF Sessions
  <2>3. Len(session.models) \in Nat
    BY <2>2
  <2> QED
    BY <2>1, <2>2, <2>3 DEF Sessions, Revision
<1>5. ASSUME NEW c \in Clients
      PROVE  at[c] \in Places /\ at[c].born <= born /\ at[c].born \in Nat
  <2>1. at[c] \in Places /\ at[c].born <= born
    BY DEF IInv, TypeOK
  <2>2. at[c].born \in 0..Len(MaxRevs)
    BY <2>1 DEF Places
  <2> QED
    BY <1>2, <2>1, <2>2
<1> QED
  BY <1>1, <1>2, <1>3, <1>4, <1>5

\* A document is about the session under the slug if it was written from that one.
LEMMA OwnRowsAre ==
  ASSUME session # Nothing, NEW row
  PROVE  row \in OwnRows <=> \E t \in Types : /\ session.docs[t] # Nothing
                                              /\ session.docs[t].born = session.born
                                              /\ row = session.docs[t]
  BY DEF OwnRows

----------------------------------------------------------------------------
(* What a step may do to the session.                                      *)

LEMMA IdleSessionStands == ASSUME IInv, UNCHANGED <<session, born>> PROVE SessionStands
<1>1. Numbered' /\ RowsStand'
  BY DEF IInv, Numbered, RowsStand, OwnRows, Revision
<1>2. \A c \in Clients : at'[c] = at[c] => Basis(c)'
  BY DEF IInv, Basis, Judging, Discovering, Doing, Briefed, In, Revision
<1> QED
  BY <1>1, <1>2, Typing DEF SessionStands, IInv, TypeOK

\* A session that is gone says nothing, and the next one is another.
LEMMA GoneSessionStands ==
  ASSUME IInv, session' = Nothing, born' = born PROVE SessionStands
<1>1. Numbered' /\ RowsStand' /\ \A c \in Clients : Basis(c)'
  BY DEF Numbered, RowsStand, OwnRows, Basis
<1> QED
  BY <1>1, Typing DEF SessionStands, IInv, TypeOK

LEMMA NewSessionStands == ASSUME IInv, Create PROVE SessionStands
<1>1. /\ session' \in Sessions /\ session'.born = born + 1 /\ born' = born + 1
      /\ session'.docs = [t \in Types |-> Nothing]
      /\ born' \in 0..Len(MaxRevs) /\ born <= born'
  BY Typing, GenerationAssumption DEF GenerationAssumption, Create, NewSession, Sessions
<1>2. Numbered'
  BY <1>1 DEF Numbered
<1>3. RowsStand'
  BY <1>1 DEF RowsStand, OwnRows
<1>4. \A c \in Clients : at'[c] = at[c] => Basis(c)'
  <2> SUFFICES ASSUME NEW c \in Clients, at'[c] = at[c] PROVE Basis(c)'
    OBVIOUS
  <2>1. at[c].born \in Nat /\ at[c].born <= born /\ born \in Nat
    BY Typing DEF Places
  <2> QED
    BY <1>1, <2>1 DEF Basis
<1> QED
  BY <1>1, <1>2, <1>3, <1>4 DEF SessionStands

\* A further revision leaves those before it, and flags what it makes out of date.
LEMMA GrownSessionStands ==
  ASSUME IInv, session # Nothing, NEW new \in Models, Apply(new), born' = born
  PROVE  /\ SessionStands
         /\ session' # Nothing /\ session'.born = session.born
         /\ session'.models = Append(session.models, new)
<1>1. /\ session \in Sessions /\ session.models \in Seq(Models)
      /\ session.docs \in [Types -> Rows \cup {Nothing}] /\ Revision \in Nat
      /\ Revision = Len(session.models)
  BY Typing DEF Revision
<1> DEFINE flagged == [t \in Types |->
                         IF session.docs[t] = Nothing \/ new = Last(session.models)
                         THEN session.docs[t] ELSE [session.docs[t] EXCEPT !.stale = "yes"]]
<1>2. /\ session' = [session EXCEPT !.models = Append(session.models, new), !.docs = flagged]
      /\ flagged \in [Types -> Rows \cup {Nothing}]
  BY <1>1 DEF Apply, Rows
<1>3. \A t \in Types :
          /\ flagged[t] = Nothing <=> session.docs[t] = Nothing
          /\ session.docs[t] # Nothing =>
                /\ flagged[t].born = session.docs[t].born
                /\ flagged[t].source = session.docs[t].source
                /\ flagged[t].of = session.docs[t].of
                /\ flagged[t].absorbed = session.docs[t].absorbed
                /\ flagged[t].stale = "no" => /\ session.docs[t].stale = "no"
                                              /\ new = Last(session.models)
  BY <1>1, NothingAssumption DEF NothingAssumption, Rows
<1> HIDE DEF flagged
<1>4. /\ session' \in Sessions /\ session' # Nothing /\ session'.born = session.born
      /\ session'.models = Append(session.models, new) /\ session'.docs = flagged
  <2>1. Append(session.models, new) \in Seq(Models)
    BY <1>1
  <2> QED
    BY <1>1, <1>2, <2>1, NothingAssumption DEF NothingAssumption, Sessions
<1>5. /\ Revision' = Revision + 1 /\ Last(session.models)' = new
      /\ \A n \in 1..Revision : session'.models[n] = session.models[n]
  BY <1>1, <1>4 DEF Revision, Last
<1>6. Numbered'
  BY <1>4 DEF IInv, Numbered
<1>7. RowsStand'
  <2> SUFFICES ASSUME NEW t \in Types, session'.docs[t] # Nothing,
                      session'.docs[t].born = session'.born
               PROVE  LET row == session'.docs[t]
                      IN  /\ row.source <= Revision'
                          /\ row.of.facts = session'.models[row.source].facts
                          /\ row.absorbed = "yes" => row.of = session'.models[row.source]
                          /\ row.stale = "no" =>
                                session'.models[row.source] = Last(session.models)'
    BY <1>4 DEF RowsStand, OwnRows
  <2>1. session.docs[t] \in OwnRows /\ session.docs[t] \in Rows
    BY <1>1, <1>3, <1>4 DEF OwnRows
  <2>2. /\ session.docs[t].source \in 1..Revision
        /\ session.docs[t].of.facts = session.models[session.docs[t].source].facts
        /\ session.docs[t].absorbed = "yes" =>
              session.docs[t].of = session.models[session.docs[t].source]
        /\ session.docs[t].stale = "no" =>
              session.models[session.docs[t].source] = Last(session.models)
    BY <1>1, <2>1 DEF IInv, RowsStand, Rows
  <2>3. Revision <= Revision' /\ \A n \in 1..Revision : n <= Revision'
    BY <1>1, <1>5
  <2> QED
    BY <1>3, <1>4, <1>5, <2>2, <2>3
<1>8. \A c \in Clients : at'[c] = at[c] => Basis(c)'
  <2> SUFFICES ASSUME NEW c \in Clients, at'[c] = at[c], session'.born = at[c].born,
                      at[c].step \in Working, ~Judging(c), ~Discovering(c), ~Doing(c, "answer")
               PROVE  Basis(c)'
    BY DEF Basis, Judging, Discovering, Doing
  <2>1. /\ at[c].revision \in 1..Revision
        /\ at[c].of.facts = session.models[at[c].revision].facts
        /\ at[c].absorbed = "yes" /\ ~Briefed(c) => at[c].of = session.models[at[c].revision]
    <3>1. at[c].revision \in Nat /\ at[c].revision > 0
      BY Typing DEF Places, IInv, HasRead
    <3>2. Basis(c) /\ session.born = at[c].born
      BY <1>4 DEF IInv
    <3>3. /\ at[c].revision <= Revision
          /\ at[c].of.facts = session.models[at[c].revision].facts
          /\ at[c].absorbed = "yes" /\ ~Briefed(c) => at[c].of = session.models[at[c].revision]
      BY <3>2 DEF Basis
    <3> QED
      BY <1>1, <3>1, <3>3
  <2> QED
    BY <1>1, <1>5, <2>1 DEF Basis, Briefed, In, Doing
<1> QED
  BY <1>4, <1>6, <1>7, <1>8, Typing DEF SessionStands, IInv, TypeOK

\* A document is filed against the revision it was written from, and flagged if what
\* it was written from has moved.
LEMMA FiledSessionStands ==
  ASSUME IInv, NEW c \in Clients, NEW type \in Types, Save(c, type), born' = born,
         at[c].step \in Working, ~Judging(c), ~Discovering(c), ~Doing(c, "answer"), ~Briefed(c)
  PROVE  SessionStands /\ session' # Nothing /\ session'.born = session.born
                       /\ session'.models = session.models
<1>1. /\ session \in Sessions /\ session.models \in Seq(Models) /\ Revision \in Nat
      /\ session.docs \in [Types -> Rows \cup {Nothing}] /\ session # Nothing
      /\ at[c].revision \in 1..Revision /\ Revision = Len(session.models)
  BY Typing DEF Save, Revision
<1> DEFINE row == [source |-> at[c].revision, stale |-> StaleSince(at[c].revision),
                   of |-> at[c].of, born |-> at[c].born, absorbed |-> at[c].absorbed]
<1>2. row \in Rows
  <2>1. at[c].of \in Models /\ at[c].born \in DOMAIN MaxRevs
    BY DEF IInv, HasRead
  <2>2. at[c].absorbed \in {"yes", "no"} /\ at[c].revision \in Nat \ {0}
    BY <1>1, Typing DEF Places
  <2> QED
    BY <2>1, <2>2 DEF Rows, StaleSince
<1>3. /\ row.source = at[c].revision /\ row.of = at[c].of /\ row.born = at[c].born
      /\ row.absorbed = at[c].absorbed
      /\ row.stale = "no" => session.models[at[c].revision] = Last(session.models)
  BY DEF StaleSince
<1>4. session' = [session EXCEPT !.docs = [session.docs EXCEPT ![type] = row]]
  BY <1>1 DEF Save, Sessions
<1> HIDE DEF row
<1>5. /\ session' \in Sessions /\ session' # Nothing /\ session'.born = session.born
      /\ session'.models = session.models /\ session'.docs = [session.docs EXCEPT ![type] = row]
  BY <1>1, <1>2, <1>4, NothingAssumption DEF NothingAssumption, Sessions
<1>6. Numbered' /\ \A d \in Clients : at'[d] = at[d] => Basis(d)'
  <2>1. Numbered'
    BY <1>1, <1>5 DEF IInv, Numbered
  <2>2. ASSUME NEW d \in Clients, at'[d] = at[d] PROVE Basis(d)'
    <3>1. Revision' = Revision /\ (Discovering(d)' <=> Discovering(d)) /\ (Briefed(d)' <=> Briefed(d))
          /\ (Doing(d, "answer")' <=> Doing(d, "answer")) /\ (Judging(d)' <=> Judging(d))
      BY <1>5, <2>2 DEF Revision, Judging, Discovering, Doing, Briefed, In
    <3> QED
      BY <1>1, <1>5, <2>2, <3>1 DEF IInv, Basis
  <2> QED
    BY <2>1, <2>2
<1>7. RowsStand'
  <2>1. \A r \in OwnRows' : r \in OwnRows \/ (r = row /\ row.born = session.born)
    BY <1>1, <1>5 DEF OwnRows
  <2>2. row.born = session.born => /\ at[c].of.facts = session.models[at[c].revision].facts
                                   /\ at[c].absorbed = "yes" =>
                                         at[c].of = session.models[at[c].revision]
    BY <1>1, <1>3 DEF IInv, Basis
  <2>3. Revision' = Revision /\ session'.models = session.models
    BY <1>5 DEF Revision
  <2>4. at[c].revision <= Revision
    BY <1>1
  <2> QED
    BY <1>3, <2>1, <2>2, <2>3, <2>4 DEF IInv, RowsStand
<1> QED
  BY <1>5, <1>6, <1>7, Typing DEF SessionStands, IInv, TypeOK

----------------------------------------------------------------------------
(* What a step may do to the place of an invocation.                       *)

\* The ledger while no call is under way.
Settled(place) ==
    /\ place.cut = "no" => place.billed = place.spent
    /\ place.rec = 0
    /\ Charged(place, place.grounded)
    /\ place.stamped <= place.spent

\* What an operation forgets, and what is left.
Over(place, step, todo) == [Forget(place) EXCEPT !.step = step, !.todo = todo]

LEMMA ForgetPlace ==
  ASSUME NEW place \in Places, 0 \in 0..Retries, 0 \in 0..Len(MaxRevs),
         NEW step \in Steps, NEW todo \in Queues
  PROVE  LET over == Over(place, step, todo)
         IN  /\ over \in Places /\ over.step = step /\ over.born = 0 /\ over.before = 0
             /\ over.spent \in Nat /\ (Settled(place) => Settled(over))
             /\ over.todo = todo /\ over.grounded = place.grounded
<1>1. Forget(place) \in Places
  BY DEF Forget, Places, Calls
<1>2. /\ Forget(place).born = 0 /\ Forget(place).before = 0
      /\ Forget(place).cut = place.cut /\ Forget(place).billed = place.billed
      /\ Forget(place).spent = place.spent /\ Forget(place).rec = place.rec
      /\ Forget(place).rate = place.rate /\ Forget(place).calls = place.calls
      /\ Forget(place).stamped = place.stamped /\ Forget(place).grounded = place.grounded
  BY DEF Forget, Places
<1> HIDE DEF Forget
<1>3. [Forget(place) EXCEPT !.step = step, !.todo = todo] \in Places
  BY <1>1 DEF Places
<1> QED
  BY <1>1, <1>2, <1>3 DEF Over, Places, Settled, Charged

LEMMA QueuesShorten ==
  ASSUME NEW ops \in Queues, ops # <<>>
  PROVE  /\ Head(ops) \in {"route", "ground"} => Len(ops) > 1
         /\ Len(ops) > 1 => /\ Tail(ops) \in Queues
                            /\ Tail(ops) # <<>> => Head(Tail(ops)) # "route"
                            /\ Tail(ops) # <<>> /\ Head(Tail(ops)) = "ground" =>
                                  Head(ops) = "route"
<1>1. CASE ops \in {<<"run">>, <<"answer">>, <<"estimate">>, <<"brief">>, <<"stories">>}
  BY <1>1
<1>2. CASE ops = <<"route", "ground", "start", "brief">>
  <2>1. Tail(ops) = <<"ground", "start", "brief">> /\ Head(ops) = "route" /\ Len(ops) > 1
    BY <1>2
  <2>2. Head(<<"ground", "start", "brief">>) = "ground"
    OBVIOUS
  <2>3. Tail(ops) \in Queues
    BY <2>1 DEF Queues
  <2>4. Head(Tail(ops)) = "ground"
    BY <2>1, <2>2, Zenon
  <2> QED
    BY <2>1, <2>3, <2>4, Zenon
<1>3. CASE ops = <<"ground", "start", "brief">>
  <2>1. Tail(ops) = <<"start", "brief">> /\ Head(ops) = "ground" /\ Len(ops) > 1
    BY <1>3
  <2>2. Head(<<"start", "brief">>) = "start"
    OBVIOUS
  <2>3. Tail(ops) \in Queues
    BY <2>1 DEF Queues
  <2>4. Head(Tail(ops)) = "start"
    BY <2>1, <2>2, Zenon
  <2> QED
    BY <2>1, <2>3, <2>4, Zenon
<1>4. CASE ops = <<"start", "brief">>
  <2>1. Tail(ops) = <<"brief">> /\ Head(ops) = "start" /\ Len(ops) > 1
    BY <1>4
  <2>2. Head(<<"brief">>) = "brief"
    OBVIOUS
  <2>3. Tail(ops) \in Queues
    BY <2>1 DEF Queues
  <2> QED
    BY <2>1, <2>2, <2>3
<1>5. CASE ops = <<"brief", "stories">>
  <2>1. Tail(ops) = <<"stories">> /\ Head(ops) = "brief" /\ Len(ops) > 1
    BY <1>5
  <2>2. Head(<<"stories">>) = "stories"
    OBVIOUS
  <2>3. Tail(ops) \in Queues
    BY <2>1 DEF Queues, Invocations
  <2> QED
    BY <2>1, <2>2, <2>3
<1> QED
  BY <1>1, <1>2, <1>3, <1>4, <1>5 DEF Queues, Invocations

LEMMA RestIsSettled ==
  ASSUME IInv, NEW c \in Clients, ~In(c, "calling")
  PROVE  at[c] \in Places /\ Settled(at[c])
<1>1. at[c] \in Places /\ Accounts(c)
  BY Typing DEF IInv
<1> QED
  BY <1>1 DEF Accounts, Settled, Places

\* The invocation is over, and has forgotten what it read.
LEMMA EndStands ==
  ASSUME IInv, NEW c \in Clients, NEW place \in Places, Settled(place), End(c, place)
  PROVE  PlaceStands(c) /\ Basis(c)' /\ at'[c].step = "ended"
<1> DEFINE over == Over(place, "ended", <<>>)
<1>1. /\ over \in Places /\ over.step = "ended" /\ over.born = 0 /\ over.before = 0
      /\ Settled(over) /\ over.spent \in Nat /\ over.todo = <<>>
  <2>1. 0 \in 0..Retries /\ 0 \in 0..Len(MaxRevs) /\ "ended" \in Steps /\ <<>> \in Queues
    BY Typing DEF Steps, Queues
  <2> QED
    BY <2>1, ForgetPlace
<1>2. at' = [at EXCEPT ![c] = over] /\ guard' \in Clients \cup {Nobody}
  BY Typing DEF End, Over
<1> HIDE DEF over
<1>3. at' \in [Clients -> Places] /\ at'[c] = over /\ \A d \in Clients \ {c} : at'[d] = at[d]
  BY <1>1, <1>2 DEF IInv, TypeOK
<1>4. HasRead(c)' /\ Fits(c)' /\ Basis(c)' /\ GroundedOnce(c)'
  BY <1>1, <1>3 DEF HasRead, Fits, Basis, Working, GroundedOnce, Doing, In
<1>5. Accounts(c)'
  BY <1>1, <1>3 DEF Accounts, Settled, Unstamped, In
<1>6. at'[c].born <= born /\ at'[c].before <= at'[c].spent
  BY <1>1, <1>3, Typing
<1> QED
  BY <1>1, <1>2, <1>3, <1>4, <1>5, <1>6 DEF PlaceStands

\* The invocation goes on to its next operation, which is a judgment only after the
\* router's.
LEMMA ProceedStands ==
  ASSUME IInv, NEW c \in Clients, NEW place \in Places, Settled(place),
         place.grounded = at[c].grounded, at[c].todo # <<>>, Len(at[c].todo) > 1,
         Proceed(c, place), guard' \in Clients \cup {Nobody}
  PROVE  PlaceStands(c) /\ Basis(c)'
<1> DEFINE rest == Tail(at[c].todo)
           over == Over(place, "ready", rest)
<1>1. /\ rest \in Queues
      /\ rest # <<>> => Head(rest) # "route"
      /\ rest # <<>> /\ Head(rest) = "ground" => Doing(c, "route")
  <2>1. at[c].todo \in Queues
    BY Typing DEF Places
  <2> QED
    BY <2>1, QueuesShorten DEF Doing
<1>2. /\ over \in Places /\ over.step = "ready" /\ over.born = 0 /\ over.before = 0
      /\ Settled(over) /\ over.spent \in Nat
      /\ over.todo = rest /\ over.grounded = at[c].grounded
  <2>1. 0 \in 0..Retries /\ 0 \in 0..Len(MaxRevs) /\ "ready" \in Steps
    BY Typing DEF Steps
  <2> HIDE DEF rest
  <2> QED
    BY <1>1, <2>1, ForgetPlace
<1>3. at' = [at EXCEPT ![c] = over]
  BY DEF Proceed, Over
<1> HIDE DEF over, rest
<1>4. at' \in [Clients -> Places] /\ at'[c] = over /\ \A d \in Clients \ {c} : at'[d] = at[d]
  BY <1>2, <1>3 DEF IInv, TypeOK
<1>5. HasRead(c)' /\ Fits(c)' /\ Basis(c)'
  BY <1>2, <1>4 DEF HasRead, Fits, Basis, Working
<1>6. GroundedOnce(c)'
  <2>1. Doing(c, "route") => at[c].grounded = "no"
    BY DEF IInv, GroundedOnce
  <2> QED
    BY <1>1, <1>2, <1>4, <2>1 DEF GroundedOnce, Doing
<1>7. Accounts(c)'
  BY <1>2, <1>4 DEF Accounts, Settled, Unstamped, In
<1>8. at'[c].born <= born /\ at'[c].before <= at'[c].spent
  BY <1>2, <1>4, Typing
<1> QED
  BY <1>2, <1>4, <1>5, <1>6, <1>7, <1>8 DEF PlaceStands

\* The operation is over, and perhaps the invocation.
LEMMA FinishStands ==
  ASSUME IInv, NEW c \in Clients, NEW place \in Places, Settled(place),
         place.grounded = at[c].grounded, at[c].todo # <<>>, Finish(c, place)
  PROVE  PlaceStands(c) /\ Basis(c)'
<1>1. CASE Len(at[c].todo) > 1
  <2>1. Proceed(c, place) /\ guard' \in Clients \cup {Nobody}
    BY <1>1, Typing DEF Finish
  <2> QED
    BY <1>1, <2>1, ProceedStands
<1>2. CASE ~(Len(at[c].todo) > 1)
  BY <1>2, EndStands DEF Finish
<1> QED
  BY <1>1, <1>2

\* What a call costs is counted from where its ledger stands: below the ceiling, or,
\* of the grounding judgment, wherever the router has left it.
LEMMA PayStands ==
  ASSUME IInv, NEW c \in Clients, NEW place \in Places, NEW call \in Calls,
         ~In(c, "calling"), Pay(c, call, place), guard' \in Clients \cup {Nobody},
         place.todo = at[c].todo, place.todo # <<>>, place.rate = at[c].rate,
         place.calls = at[c].calls, place.spent = at[c].spent, Settled(place),
         place.born <= born, place.before <= place.spent,
         call # "ground" => MaySpend(c),
         call = "ground" => place.grounded = "yes" /\ Charged(place, "no"),
         Judging(c) \/ place.born \in DOMAIN MaxRevs,
         Judging(c) \/ Discovering(c) \/ (place.revision > 0 /\ place.of \in Models),
         Doing(c, "route") => call = "route" /\ place.grounded = "no",
         Doing(c, "ground") => call = "ground",
         Discovering(c) => call = "analyze",
         Doing(c, "answer") => call \in {"analyze", "note"},
         Doing(c, "brief") <=> call = "brief",
         Doing(c, "stories") => call = "stories",
         Doing(c, "estimate") => call \in {"stories", "estimate"},
         call \in {"analyze", "brief"} => place.stamped <= place.before
  PROVE  /\ PlaceStands(c)
         /\ at'[c].step = "calling" /\ at'[c].todo = place.todo /\ at'[c].born = place.born
         /\ at'[c].revision = place.revision /\ at'[c].of = place.of
         /\ at'[c].absorbed = place.absorbed
<1> DEFINE begun == [place EXCEPT !.step = "calling", !.call = call, !.attempts = 0, !.rec = 0]
<1>1. begun \in Places
  <2>1. 0 \in 0..Retries /\ "calling" \in Steps
    BY Typing DEF Steps
  <2> QED
    BY <2>1 DEF Places
<1>2. /\ begun.step = "calling" /\ begun.todo = place.todo /\ begun.born = place.born
      /\ begun.revision = place.revision /\ begun.of = place.of
      /\ begun.absorbed = place.absorbed /\ begun.call = call
      /\ begun.rec = 0 /\ begun.attempts = 0 /\ begun.rate = place.rate
      /\ begun.calls = place.calls /\ begun.spent = place.spent /\ begun.before = place.before
      /\ begun.stamped = place.stamped /\ begun.billed = place.billed /\ begun.cut = place.cut
      /\ begun.grounded = place.grounded
  BY DEF Places
<1>3. at' = [at EXCEPT ![c] = begun]
  BY DEF Pay
<1> HIDE DEF begun
<1>4. at' \in [Clients -> Places] /\ at'[c] = begun /\ \A d \in Clients \ {c} : at'[d] = at[d]
  BY <1>1, <1>3 DEF IInv, TypeOK
<1>5. HasRead(c)' /\ Fits(c)'
  BY <1>2, <1>4 DEF HasRead, Fits, Working, Judging, Discovering, Doing, In
<1>6. GroundedOnce(c)'
  BY <1>2, <1>4 DEF GroundedOnce, Doing, In
<1>7. Accounts(c)'
  <2>1. place.spent \in Nat
    BY DEF Places
  <2>2. Charged(at[c], at[c].grounded)' /\ (place.stamped <= place.spent)
    BY <1>2, <1>4 DEF Settled, Charged
  <2>3. call # "ground" => MaySpend(c)'
    BY <1>2, <1>4 DEF MaySpend, CostKnown
  <2>4. call = "ground" => at'[c].grounded = "yes" /\ Charged(at[c], "no")'
    BY <1>2, <1>4 DEF Charged
  <2>5. place.cut = "no" => place.billed = place.spent
    BY DEF Settled
  <2> QED
    BY <1>2, <1>4, <2>1, <2>2, <2>3, <2>4, <2>5 DEF Accounts, Unstamped, In
<1>8. at'[c].born <= born /\ at'[c].before <= at'[c].spent
  BY <1>2, <1>4
<1> QED
  BY <1>2, <1>4, <1>5, <1>6, <1>7, <1>8 DEF PlaceStands

LEMMA CallStands ==
  ASSUME IInv, NEW c \in Clients, NEW place \in Places, NEW call \in Calls,
         ~In(c, "calling"), Call(c, call, place), guard' \in Clients \cup {Nobody},
         place.todo = at[c].todo, place.todo # <<>>, place.rate = at[c].rate,
         place.calls = at[c].calls, place.spent = at[c].spent, Settled(place),
         place.born <= born, place.born \in DOMAIN MaxRevs, place.before <= place.spent,
         Discovering(c) \/ (place.revision > 0 /\ place.of \in Models),
         ~Judging(c), call \notin {"route", "ground"},
         Discovering(c) => call = "analyze",
         Doing(c, "answer") => call \in {"analyze", "note"},
         Doing(c, "brief") <=> call = "brief",
         Doing(c, "stories") => call = "stories",
         Doing(c, "estimate") => call \in {"stories", "estimate"},
         call \in {"analyze", "brief"} => place.stamped <= place.before
  PROVE  /\ PlaceStands(c)
         /\ at'[c].step = "calling" /\ at'[c].todo = place.todo /\ at'[c].born = place.born
         /\ at'[c].revision = place.revision /\ at'[c].of = place.of
         /\ at'[c].absorbed = place.absorbed
<1>1. MaySpend(c) /\ Pay(c, call, place) /\ ~Doing(c, "route") /\ ~Doing(c, "ground")
  BY DEF Call, Judging
<1> QED
  BY <1>1, PayStands

\* A snapshot reads the session, its last model, and where the ledger stands.
LEMMA SnapshotReads ==
  ASSUME IInv, NEW c \in Clients, session # Nothing, ~In(c, "calling")
  PROVE  LET place == Snapshot(c)
         IN  /\ place \in Places /\ Settled(place)
             /\ place.todo = at[c].todo /\ place.rate = at[c].rate
             /\ place.calls = at[c].calls /\ place.spent = at[c].spent
             /\ place.born = session.born /\ place.born <= born /\ place.born \in DOMAIN MaxRevs
             /\ place.before = place.spent /\ place.before <= place.spent
             /\ place.stamped <= place.before
             /\ place.revision = Revision /\ place.absorbed = "yes"
             /\ Revision > 0 => place.of \in Models /\ place.of = session.models[Revision]
<1>1. /\ at[c] \in Places /\ Settled(at[c])
      /\ session.born \in 1..Len(MaxRevs) /\ session.born = born
      /\ session.models \in Seq(Models) /\ Revision \in Nat /\ Revision = Len(session.models)
  BY Typing, RestIsSettled DEF IInv, Numbered, Revision
<1>2. Revision > 0 => /\ session.models[Revision] \in Models
                      /\ Last(session.models) = session.models[Revision]
  BY <1>1 DEF Last
<1> DEFINE of == IF Revision = 0 THEN Nothing ELSE Last(session.models)
<1>3. of \in Models \cup {Nothing} /\ (Revision > 0 => of = session.models[Revision])
  BY <1>1, <1>2
<1>4. Snapshot(c) = [at[c] EXCEPT !.born = session.born, !.revision = Revision, !.absorbed = "yes",
                                  !.of = of, !.before = at[c].spent]
  BY DEF Snapshot
<1> HIDE DEF of
<1>5. at[c].spent \in Nat /\ at[c].stamped <= at[c].spent
  BY <1>1 DEF Places, Settled
<1>6. session.born \in 0..Len(MaxRevs) /\ session.born <= born
  BY <1>1, Typing
<1>7. Snapshot(c) \in Places
  BY <1>1, <1>3, <1>4, <1>5, <1>6 DEF Places
<1>8. Settled(Snapshot(c))
  BY <1>1, <1>4 DEF Places, Settled, Charged
<1> QED
  <2>1. LET place == Snapshot(c)
        IN  /\ place.todo = at[c].todo /\ place.rate = at[c].rate
            /\ place.calls = at[c].calls /\ place.spent = at[c].spent
            /\ place.born = session.born /\ place.before = at[c].spent
            /\ place.stamped = at[c].stamped /\ place.revision = Revision
            /\ place.absorbed = "yes" /\ place.of = of
    BY <1>1, <1>4 DEF Places
  <2> QED
    BY <1>1, <1>2, <1>3, <1>5, <1>6, <1>7, <1>8, <2>1, Typing

\* What an apply has stamped on its revision is counted.
LEMMA StampedPlace ==
  ASSUME IInv, NEW c \in Clients, In(c, "replied"), Unstamped(c)
  PROVE  LET place == Stamped(c)
         IN  /\ place \in Places /\ Settled(place)
             /\ place.step = at[c].step /\ place.todo = at[c].todo /\ place.born = at[c].born
             /\ place.revision = at[c].revision /\ place.of = at[c].of
             /\ place.absorbed = at[c].absorbed /\ place.grounded = at[c].grounded
             /\ place.before = at[c].before /\ place.spent = at[c].spent
<1>1. /\ at[c] \in Places /\ Settled(at[c]) /\ at[c].before <= at[c].spent
      /\ at[c].stamped <= at[c].before
  BY RestIsSettled DEF In, IInv, Accounts, TypeOK
<1>2. at[c].before \in Nat /\ at[c].spent \in Nat /\ at[c].stamped \in Nat
  BY <1>1 DEF Places
<1> DEFINE sum == at[c].stamped + (at[c].spent - at[c].before)
<1>3. sum \in Nat /\ sum <= at[c].spent
  BY <1>1, <1>2
<1>4. Stamped(c) = [at[c] EXCEPT !.stamped = sum]
  BY <1>1 DEF Stamped, UsageSince, Places
<1> HIDE DEF sum
<1> QED
  BY <1>1, <1>3, <1>4 DEF Places, Settled, Charged

\* What follows an apply names the revision that was applied.
Further(c) == [Stamped(c) EXCEPT !.step = "filing", !.revision = at[c].revision + 1]

LEMMA FurtherPlace ==
  ASSUME IInv, NEW c \in Clients, In(c, "replied"), Unstamped(c)
  PROVE  LET place == Further(c)
         IN  /\ place \in Places /\ Settled(place) /\ place.step = "filing"
             /\ place.todo = at[c].todo /\ place.born = at[c].born
             /\ place.before = at[c].before /\ place.spent = at[c].spent /\ place.of = at[c].of
             /\ place.revision = at[c].revision + 1 /\ place.revision >= at[c].revision
<1>1. at[c].revision \in Nat
  BY Typing DEF Places
<1>2. at[c].revision + 1 \in Nat /\ at[c].revision + 1 >= at[c].revision
  BY <1>1
<1>3. /\ Stamped(c) \in Places /\ Settled(Stamped(c))
      /\ Stamped(c).todo = at[c].todo /\ Stamped(c).born = at[c].born
      /\ Stamped(c).of = at[c].of /\ Stamped(c).before = at[c].before
      /\ Stamped(c).spent = at[c].spent
  BY StampedPlace
<1>4. /\ Further(c) \in Places /\ Further(c).step = "filing"
      /\ Further(c).revision = at[c].revision + 1
  BY <1>2, <1>3 DEF Further, Places, Steps
<1>5. /\ Settled(Further(c))
      /\ Further(c).todo = Stamped(c).todo /\ Further(c).born = Stamped(c).born
      /\ Further(c).of = Stamped(c).of /\ Further(c).before = Stamped(c).before
      /\ Further(c).spent = Stamped(c).spent
  BY <1>3 DEF Further, Places, Settled, Charged
<1> QED
  BY <1>2, <1>3, <1>4, <1>5

\* An operation that has a reply goes on to what it has to file.
LEMMA OnwardStands ==
  ASSUME IInv, NEW c \in Clients, NEW place \in Places, at[c].step \in Working, ~Judging(c),
         at' = [at EXCEPT ![c] = place], place.step \in {"filing", "companion"}, Settled(place),
         place.todo = at[c].todo, place.born = at[c].born, place.before = at[c].before,
         place.spent = at[c].spent, place.of = at[c].of, place.revision >= at[c].revision,
         place.step = "companion" => Doing(c, "brief"),
         UNCHANGED guard
  PROVE  PlaceStands(c) /\ at'[c] = place
<1>1. at' \in [Clients -> Places] /\ at'[c] = place /\ \A d \in Clients \ {c} : at'[d] = at[d]
  BY DEF IInv, TypeOK
<1>2. /\ at[c].todo # <<>> /\ at[c].born \in DOMAIN MaxRevs
      /\ Discovering(c) \/ (place.revision > 0 /\ place.of \in Models)
  <2>1. at[c].revision \in Nat /\ place.revision \in Nat
    BY Typing DEF Places
  <2> QED
    BY <2>1 DEF IInv, HasRead
<1>3. HasRead(c)' /\ Fits(c)' /\ GroundedOnce(c)'
  BY <1>1, <1>2 DEF HasRead, Fits, GroundedOnce, Working, Judging, Discovering, Doing, In
<1>4. Accounts(c)'
  <2>1. place.spent \in Nat
    BY DEF Places
  <2> QED
    BY <1>1, <2>1 DEF Accounts, Settled, Unstamped, In
<1>5. at'[c].born <= born /\ at'[c].before <= at'[c].spent /\ guard' \in Clients \cup {Nobody}
  BY <1>1, Typing DEF IInv, TypeOK
<1> QED
  BY <1>1, <1>3, <1>4, <1>5 DEF PlaceStands

----------------------------------------------------------------------------
(* The operations: one lemma per action.                                   *)

\* Users by hand, and a claim, which creates a session.
LEMMA ByHandKeeps ==
  ASSUME IInv, SessionStands, UNCHANGED at, guard' \in Clients \cup {Nobody}
  PROVE  IInv'
<1>1. TypeOK'
  <2>1. \A c \in Clients : at[c].born <= born' /\ at[c].before <= at[c].spent
    <3> SUFFICES ASSUME NEW c \in Clients PROVE at[c].born <= born' /\ at[c].before <= at[c].spent
      OBVIOUS
    <3>1. at[c].born \in Nat /\ born \in Nat /\ born' \in Nat /\ at[c].born <= born /\ born <= born'
      BY Typing DEF SessionStands
    <3> QED
      BY <3>1 DEF IInv, TypeOK
  <2> QED
    BY <2>1 DEF IInv, TypeOK, SessionStands
<1>2. \A c \in Clients : (HasRead(c) /\ Fits(c) /\ GroundedOnce(c))'
  BY DEF IInv, HasRead, Fits, GroundedOnce, Judging, Discovering, Doing, In
<1>3. \A c \in Clients : (Accounts(c) /\ Unused(c))'
  BY DEF IInv, Accounts, Charged, Unused, In, MaySpend, CostKnown, Unstamped
<1> QED
  BY <1>1, <1>2, <1>3 DEF IInv, SessionStands

LEMMA CreateByHandKeeps == ASSUME IInv, CreateByHand PROVE IInv'
  BY NewSessionStands, ByHandKeeps, Typing DEF CreateByHand

LEMMA ClaimKeeps == ASSUME IInv, NEW c \in Clients, Claim(c) PROVE IInv'
  BY NewSessionStands, ByHandKeeps, Typing DEF Claim

LEMMA DeleteKeeps == ASSUME IInv, Delete PROVE IInv'
  BY GoneSessionStands, ByHandKeeps, Typing DEF Delete

LEMMA ApplyByHandKeeps == ASSUME IInv, ApplyByHand PROVE IInv'
  BY GrownSessionStands, ByHandKeeps, Typing DEF ApplyByHand

LEMMA RescopeKeeps == ASSUME IInv, Rescope PROVE IInv'
<1>1. Last(session.models) \in Models
  <2>1. session.models \in Seq(Models) /\ Len(session.models) > 0 /\ Len(session.models) \in Nat
    BY Typing DEF Rescope, Revision
  <2> QED
    BY <2>1 DEF Last
<1> QED
  BY <1>1, GrownSessionStands, ByHandKeeps, Typing DEF Rescope

\* An invocation begins, and ends with its ledger.
LEMMA InvokeKeeps == ASSUME IInv, NEW c \in Clients, Invoke(c) PROVE IInv'
<1>1. PICK ops \in Invocations, rate \in {"priced", "unpriced"} :
          at' = [at EXCEPT ![c].step = "ready", ![c].todo = ops, ![c].rate = rate]
  BY DEF Invoke
<1>2. /\ at[c] = Idle /\ UNCHANGED <<session, born, guard>> /\ born \in Nat /\ Ceiling \in Nat /\ Retries \in Nat
      /\ guard' \in Clients \cup {Nobody}
  BY Typing DEF Invoke, IInv, Unused
<1> DEFINE begun == [Idle EXCEPT !.step = "ready", !.todo = ops, !.rate = rate]
<1>3. /\ begun \in Places /\ begun.step = "ready" /\ begun.rec = 0 /\ begun.cut = "no"
      /\ begun.spent = 0 /\ begun.calls = 0 /\ begun.stamped = 0 /\ begun.billed = 0
      /\ begun.before = 0 /\ begun.born = 0 /\ begun.grounded = "no"
  <2>1. ops \in Queues /\ "ready" \in Steps
    BY DEF Queues, Steps
  <2>2. Idle \in Places
    BY Typing DEF Idle, Places, Steps, Queues, Calls
  <2>3. /\ Idle.rec = 0 /\ Idle.cut = "no" /\ Idle.spent = 0 /\ Idle.calls = 0
        /\ Idle.stamped = 0 /\ Idle.billed = 0 /\ Idle.before = 0 /\ Idle.born = 0
        /\ Idle.grounded = "no"
    BY DEF Idle
  <2> QED
    BY <2>1, <2>2, <2>3 DEF Places
<1>4. at' = [at EXCEPT ![c] = begun]
  BY <1>1, <1>2 DEF IInv, TypeOK, Places
<1> HIDE DEF begun
<1>5. at' \in [Clients -> Places] /\ at'[c] = begun /\ \A d \in Clients \ {c} : at'[d] = at[d]
  BY <1>3, <1>4 DEF IInv, TypeOK
<1>6. HasRead(c)' /\ Fits(c)' /\ Basis(c)' /\ GroundedOnce(c)'
  BY <1>3, <1>5 DEF HasRead, Fits, Basis, GroundedOnce, Working
<1>7. Accounts(c)'
  BY <1>2, <1>3, <1>5 DEF Accounts, Charged, Unstamped, In
<1>8. SessionStands
  BY <1>2, IdleSessionStands
<1>9. PlaceStands(c)
  BY <1>2, <1>3, <1>5, <1>6, <1>7 DEF PlaceStands
<1> QED
  BY <1>6, <1>8, <1>9, BothStand

LEMMA LeaveKeeps == ASSUME IInv, NEW c \in Clients, Leave(c) PROVE IInv'
<1> DEFINE gone == [Idle EXCEPT !.step = "gone"]
<1>1. /\ gone \in Places /\ gone.step = "gone" /\ gone.rec = 0 /\ gone.spent = 0
      /\ gone.calls = 0 /\ gone.stamped = 0 /\ gone.billed = 0
      /\ gone.before = 0 /\ gone.born = 0 /\ gone.grounded = "no"
  BY Typing DEF Idle, Places, Steps, Queues, Calls
<1>2. at' = [at EXCEPT ![c] = gone] /\ UNCHANGED <<session, born, guard>>
  BY DEF Leave
<1> HIDE DEF gone
<1>3. at' \in [Clients -> Places] /\ at'[c] = gone /\ \A d \in Clients \ {c} : at'[d] = at[d]
  BY <1>1, <1>2 DEF IInv, TypeOK
<1>4. HasRead(c)' /\ Fits(c)' /\ Basis(c)' /\ GroundedOnce(c)'
  BY <1>1, <1>3 DEF HasRead, Fits, Basis, GroundedOnce, Working
<1>5. /\ born \in Nat /\ Ceiling \in Nat /\ Retries \in Nat
      /\ guard' \in Clients \cup {Nobody}
  BY <1>2, Typing
<1>6. Accounts(c)'
  BY <1>1, <1>3, <1>5 DEF Accounts, Charged, Unstamped, In
<1>7. SessionStands /\ PlaceStands(c)
  BY <1>1, <1>2, <1>3, <1>4, <1>5, <1>6, IdleSessionStands DEF PlaceStands
<1> QED
  BY <1>4, <1>7, BothStand

\* An error ends the invocation, whatever it was at but for a call.
LEMMA FailKeeps == ASSUME IInv, NEW c \in Clients, ~In(c, "calling"), Fail(c) PROVE IInv'
  BY RestIsSettled, EndStands, IdleSessionStands, BothStand DEF Fail

LEMMA RefuseKeeps == ASSUME IInv, NEW c \in Clients, Refuse(c) PROVE IInv'
  BY FailKeeps DEF Refuse, In

LEMMA DieKeeps == ASSUME IInv, NEW c \in Clients, Die(c) PROVE IInv'
  BY FailKeeps DEF Die, In

LEMMA RefuseWriteKeeps == ASSUME IInv, NEW c \in Clients, RefuseWrite(c) PROVE IInv'
  BY FailKeeps DEF RefuseWrite, In, Briefed

\* The calls: of a claim, a first discovery, an answer, a document.
LEMMA RouteKeeps == ASSUME IInv, NEW c \in Clients, Route(c) PROVE IInv'
<1> USE DEF Route, In
<1>1. /\ at[c] \in Places /\ Settled(at[c]) /\ at[c].todo # <<>> /\ Judging(c)
      /\ at[c].born <= born /\ at[c].before <= at[c].spent /\ at[c].grounded = "no"
      /\ guard' \in Clients \cup {Nobody}
  BY RestIsSettled, Typing DEF IInv, TypeOK, GroundedOnce, Judging, Doing
<1>2. SessionStands
  BY IdleSessionStands DEF Call, Pay
<1>3. CASE Call(c, "route", at[c])
  <2>1. MaySpend(c) /\ Pay(c, "route", at[c])
    BY <1>3 DEF Call
  <2>2. PlaceStands(c) /\ Judging(c)'
    BY <1>1, <2>1, PayStands DEF Calls, Judging, Discovering, Doing
  <2> QED
    BY <1>2, <2>2, BothStand DEF Basis
<1>4. CASE Proceed(c, at[c])
  <2>1. Len(at[c].todo) > 1
    BY <1>1, Typing, QueuesShorten DEF Places, Doing
  <2> QED
    BY <1>1, <1>2, <1>4, <2>1, ProceedStands, BothStand
<1> QED
  BY <1>3, <1>4

LEMMA RoutedKeeps == ASSUME IInv, NEW c \in Clients, Routed(c) PROVE IInv'
<1>1. ~In(c, "calling") /\ at[c].todo # <<>> /\ Finish(c, at[c]) /\ UNCHANGED <<session, born>>
  BY DEF Routed, In, Doing
<1> QED
  BY <1>1, RestIsSettled, FinishStands, IdleSessionStands, BothStand

LEMMA JudgedKeeps ==
  ASSUME IInv, NEW c \in Clients, ~In(c, "calling"), Doing(c, "ground"), Judged(c) PROVE IInv'
<1>1. /\ at[c].todo # <<>> /\ Len(at[c].todo) > 1 /\ guard' \in Clients \cup {Nobody}
      /\ Proceed(c, at[c]) /\ UNCHANGED <<session, born>>
  BY Typing, QueuesShorten DEF Judged, Doing, Places
<1> QED
  BY <1>1, RestIsSettled, ProceedStands, IdleSessionStands, BothStand

LEMMA GroundKeeps == ASSUME IInv, NEW c \in Clients, Ground(c) PROVE IInv'
<1> USE DEF Ground, In
<1> DEFINE place == [at[c] EXCEPT !.grounded = "yes"]
<1>1. /\ at[c] \in Places /\ Settled(at[c]) /\ at[c].todo # <<>> /\ Judging(c)
      /\ at[c].born <= born /\ at[c].before <= at[c].spent /\ at[c].grounded = "no"
      /\ at[c].spent \in Nat /\ at[c].calls \in Nat /\ Retries \in Nat /\ Ceiling \in Nat
  BY RestIsSettled, Typing DEF IInv, TypeOK, GroundedOnce, Judging, Doing, Places
<1>2. /\ place \in Places /\ place.grounded = "yes" /\ place.todo = at[c].todo
      /\ place.rate = at[c].rate /\ place.calls = at[c].calls /\ place.spent = at[c].spent
      /\ place.born = at[c].born /\ place.before = at[c].before /\ place.cut = at[c].cut
      /\ place.billed = at[c].billed /\ place.rec = at[c].rec /\ place.stamped = at[c].stamped
  BY <1>1 DEF Places
<1>3. CASE Pay(c, "ground", place) /\ UNCHANGED guard
  <2> HIDE DEF place
  <2>1. Settled(place) /\ Charged(place, "no")
    BY <1>1, <1>2 DEF Settled, Charged
  <2>2. PlaceStands(c) /\ Judging(c)'
    BY <1>1, <1>2, <1>3, <2>1, PayStands, Typing DEF Calls, Judging, Discovering, Doing
  <2>3. SessionStands
    BY <1>3, IdleSessionStands DEF Pay
  <2> QED
    BY <2>2, <2>3, BothStand DEF Basis
<1>4. CASE Judged(c)
  BY <1>4, JudgedKeeps
<1> QED
  BY <1>3, <1>4

LEMMA GroundedKeeps == ASSUME IInv, NEW c \in Clients, Grounded(c) PROVE IInv'
  BY JudgedKeeps DEF Grounded, In

LEMMA DiscoverKeeps == ASSUME IInv, NEW c \in Clients, Discover(c) PROVE IInv'
<1> USE DEF Discover, In
<1>1. PlaceStands(c) /\ Discovering(c)'
  BY SnapshotReads, CallStands DEF Calls, Judging, Discovering, Doing
<1>2. SessionStands
  BY IdleSessionStands DEF Call, Pay
<1> QED
  BY <1>1, <1>2, BothStand DEF Basis

LEMMA AnswerKeeps == ASSUME IInv, NEW c \in Clients, Answer(c) PROVE IInv'
<1> USE DEF Answer, In
<1>1. PlaceStands(c) /\ Doing(c, "answer")'
  BY SnapshotReads, CallStands, Typing DEF Calls, Judging, Discovering, Doing
<1>2. SessionStands
  BY IdleSessionStands DEF Call, Pay
<1> QED
  BY <1>1, <1>2, BothStand DEF Basis

LEMMA GenerateKeeps == ASSUME IInv, NEW c \in Clients, Generate(c) PROVE IInv'
<1> USE DEF Generate, In
<1>1. PICK op \in {"brief", "stories", "estimate"} :
          Doing(c, op) /\ Call(c, IF op = "brief" THEN "brief" ELSE "stories", Snapshot(c))
  OBVIOUS
<1> DEFINE place == Snapshot(c)
           call == IF op = "brief" THEN "brief" ELSE "stories"
<1>2. /\ ~Discovering(c) /\ ~Doing(c, "answer") /\ at[c].todo # <<>>
      /\ ~Judging(c) /\ call \notin {"route", "ground"}
      /\ Doing(c, "brief") <=> call = "brief"
      /\ Doing(c, "stories") => call = "stories"
      /\ Doing(c, "estimate") => call \in {"stories", "estimate"}
  BY <1>1 DEF Judging, Discovering, Doing
<1>3. /\ place \in Places /\ Settled(place)
      /\ place.todo = at[c].todo /\ place.rate = at[c].rate
      /\ place.calls = at[c].calls /\ place.spent = at[c].spent
      /\ place.born = session.born /\ place.born <= born /\ place.born \in DOMAIN MaxRevs
      /\ place.before <= place.spent /\ place.stamped <= place.before
      /\ place.revision = Revision /\ place.absorbed = "yes"
      /\ place.of \in Models /\ place.of = session.models[Revision]
  BY SnapshotReads
<1>4. call \in Calls /\ Call(c, call, place) /\ guard' \in Clients \cup {Nobody}
  BY <1>1, Typing DEF Calls
<1> HIDE DEF place, call
<1>5. /\ PlaceStands(c)
      /\ at'[c].step = "calling" /\ at'[c].born = session.born
      /\ at'[c].revision = Revision /\ at'[c].of = session.models[Revision]
      /\ at'[c].absorbed = "yes"
  BY <1>2, <1>3, <1>4, CallStands
<1>6. SessionStands /\ UNCHANGED session
  BY <1>4, IdleSessionStands DEF Call, Pay
<1>7. Basis(c)'
  <2>1. Revision' = Revision /\ Revision <= Revision
    BY <1>6, Typing DEF Revision
  <2> QED
    BY <1>5, <1>6, <2>1 DEF Basis
<1> QED
  BY <1>5, <1>6, <1>7, BothStand

\* The second call of an operation, from what its first has left.
LEMMA NoteKeeps == ASSUME IInv, NEW c \in Clients, Note(c) PROVE IInv'
<1> USE DEF Note, In
<1>1. /\ at[c] \in Places /\ Settled(at[c]) /\ at[c].todo # <<>>
      /\ at[c].born <= born /\ at[c].born \in DOMAIN MaxRevs /\ at[c].before <= at[c].spent
      /\ at[c].revision > 0 /\ at[c].of \in Models /\ ~Discovering(c) /\ ~Judging(c)
  BY RestIsSettled, Typing DEF IInv, TypeOK, HasRead, Working, Judging, Discovering, Doing
<1>2. PlaceStands(c) /\ Doing(c, "answer")'
  BY <1>1, CallStands, Typing DEF Calls, Doing
<1>3. SessionStands
  BY IdleSessionStands DEF Call, Pay
<1> QED
  BY <1>2, <1>3, BothStand DEF Basis

LEMMA EstimateKeeps == ASSUME IInv, NEW c \in Clients, Estimate(c) PROVE IInv'
<1> USE DEF Estimate, In
<1>1. /\ at[c] \in Places /\ Settled(at[c]) /\ at[c].todo # <<>>
      /\ at[c].born <= born /\ at[c].born \in DOMAIN MaxRevs /\ at[c].before <= at[c].spent
      /\ at[c].revision > 0 /\ at[c].of \in Models /\ ~Discovering(c)
      /\ ~Doing(c, "answer") /\ ~Doing(c, "brief") /\ ~Doing(c, "stories") /\ ~Judging(c)
  BY RestIsSettled, Typing DEF IInv, TypeOK, HasRead, Working, Judging, Discovering, Doing
<1>2. /\ PlaceStands(c) /\ at'[c].todo = at[c].todo /\ at'[c].born = at[c].born
      /\ at'[c].revision = at[c].revision /\ at'[c].of = at[c].of
      /\ at'[c].absorbed = at[c].absorbed
  BY <1>1, CallStands, Typing DEF Calls
<1>3. SessionStands /\ UNCHANGED session
  BY IdleSessionStands DEF Call, Pay
<1>4. Basis(c)'
  BY <1>1, <1>2, <1>3 DEF IInv, Basis, Working, Briefed, Revision
<1> QED
  BY <1>2, <1>3, <1>4, BothStand

\* The attempts of a call, and the record of it, however it ends.
LEMMA RetryKeeps == ASSUME IInv, NEW c \in Clients, Retry(c) PROVE IInv'
<1> USE DEF Retry, In
<1>1. /\ at[c] \in Places /\ at[c].rec <= at[c].attempts
      /\ at[c].attempts \in 0..Retries /\ at[c].rec \in 0..Retries /\ at[c].billed \in Nat
      /\ at[c].spent \in Nat /\ Retries \in Nat
  BY Typing DEF IInv, Accounts, Places
<1>2. at[c].attempts + 1 \in 0..Retries /\ at[c].rec + 1 \in 0..Retries /\ at[c].billed + 1 \in Nat
  BY <1>1
<1> DEFINE place == [at[c] EXCEPT !.attempts = at[c].attempts + 1, !.rec = at[c].rec + 1,
                                  !.billed = at[c].billed + 1]
<1>3. /\ place \in Places /\ place.step = at[c].step /\ place.todo = at[c].todo
      /\ place.call = at[c].call /\ place.rate = at[c].rate /\ place.born = at[c].born
      /\ place.revision = at[c].revision /\ place.of = at[c].of
      /\ place.absorbed = at[c].absorbed /\ place.calls = at[c].calls
      /\ place.spent = at[c].spent /\ place.before = at[c].before
      /\ place.stamped = at[c].stamped /\ place.cut = at[c].cut
      /\ place.attempts = at[c].attempts + 1 /\ place.rec = at[c].rec + 1
      /\ place.billed = at[c].billed + 1 /\ place.grounded = at[c].grounded
  BY <1>1, <1>2 DEF Places
<1>4. at' = [at EXCEPT ![c] = place]
  BY <1>1 DEF IInv, TypeOK, Places
<1> HIDE DEF place
<1>5. at' \in [Clients -> Places] /\ at'[c] = place /\ \A d \in Clients \ {c} : at'[d] = at[d]
  BY <1>3, <1>4 DEF IInv, TypeOK
<1>6. HasRead(c)' /\ Fits(c)' /\ Basis(c)' /\ GroundedOnce(c)'
  BY <1>3, <1>5 DEF IInv, HasRead, Fits, Basis, GroundedOnce, Judging, Discovering, Doing, Briefed,
                    Revision
<1>7. Accounts(c)'
  BY <1>1, <1>3, <1>5 DEF IInv, Accounts, Charged, Unstamped, MaySpend, CostKnown
<1>8. at'[c].born <= born /\ at'[c].before <= at'[c].spent /\ guard' \in Clients \cup {Nobody}
  BY <1>3, <1>5, Typing DEF IInv, TypeOK
<1>9. SessionStands /\ PlaceStands(c)
  BY <1>3, <1>5, <1>6, <1>7, <1>8, IdleSessionStands DEF PlaceStands
<1> QED
  BY <1>6, <1>9, BothStand

\* A call that was begun below the ceiling ends above it by its attempts at most, and
\* the grounding judgment above where the calls before it may have ended.
LEMMA RecordPlace ==
  ASSUME IInv, NEW c \in Clients, In(c, "calling"), NEW rec \in {at[c].rec, at[c].rec + 1}
  PROVE  LET place == [Record(c, rec) EXCEPT !.billed = at[c].billed + rec - at[c].rec]
         IN  /\ place \in Places /\ Settled(place)
             /\ place.step = at[c].step /\ place.todo = at[c].todo /\ place.call = at[c].call
             /\ place.born = at[c].born /\ place.revision = at[c].revision /\ place.of = at[c].of
             /\ place.absorbed = at[c].absorbed /\ place.before = at[c].before
             /\ place.stamped = at[c].stamped /\ place.spent = at[c].spent + rec
             /\ at[c].before <= place.spent /\ place.spent \in Nat
             /\ place.grounded = at[c].grounded
<1>1. /\ at[c] \in Places /\ at[c].rec <= at[c].attempts
      /\ at[c].attempts \in 0..Retries /\ at[c].rec \in 0..Retries /\ at[c].billed \in Nat
      /\ at[c].spent \in Nat /\ at[c].calls \in Nat /\ at[c].before \in Nat /\ Retries \in Nat
      /\ at[c].before <= at[c].spent /\ Ceiling \in Nat /\ at[c].stamped \in Nat
      /\ at[c].stamped <= at[c].spent
      /\ at[c].cut = "no" => at[c].billed = at[c].spent + at[c].rec
  BY Typing DEF IInv, Accounts, Places, TypeOK
<1>2. rec \in Nat /\ at[c].rec \in Nat /\ (rec = at[c].rec \/ rec = at[c].rec + 1) /\ rec <= Retries + 1
  BY <1>1
<1> DEFINE billed == at[c].billed + rec - at[c].rec
           calls == at[c].calls + 1
           spent == at[c].spent + rec
<1>3. /\ billed \in Nat /\ calls \in Nat /\ spent \in Nat /\ 0 \in 0..Retries
      /\ at[c].before <= spent /\ at[c].stamped <= spent
      /\ at[c].cut = "no" => billed = spent
  BY <1>1, <1>2
<1>4. /\ at[c].rate = "unpriced" => calls <= (IF at[c].grounded = "yes" THEN 2 ELSE 1)
      /\ at[c].rate = "priced" =>
            spent <= Ceiling + Retries + (IF at[c].grounded = "yes" THEN Retries + 1 ELSE 0)
  <2>1. CASE at[c].call = "ground"
    <3>1. at[c].grounded = "yes" /\ Charged(at[c], "no")
      BY <2>1 DEF IInv, Accounts
    <3> QED
      BY <1>1, <1>2, <3>1 DEF Charged
  <2>2. CASE at[c].call # "ground"
    <3>1. MaySpend(c)
      BY <2>2 DEF IInv, Accounts
    <3> QED
      BY <1>1, <1>2, <3>1 DEF MaySpend, CostKnown
  <2> QED
    BY <2>1, <2>2
<1>5. [Record(c, rec) EXCEPT !.billed = billed] =
      [at[c] EXCEPT !.calls = calls, !.spent = spent, !.attempts = 0, !.rec = 0, !.billed = billed]
  BY <1>1 DEF Record, Places
<1> HIDE DEF billed, calls, spent
<1> DEFINE place == [at[c] EXCEPT !.calls = calls, !.spent = spent, !.attempts = 0, !.rec = 0,
                                  !.billed = billed]
<1>6. /\ place \in Places /\ place.calls = calls /\ place.spent = spent /\ place.rec = 0
      /\ place.billed = billed /\ place.rate = at[c].rate /\ place.cut = at[c].cut
      /\ place.step = at[c].step /\ place.todo = at[c].todo /\ place.call = at[c].call
      /\ place.born = at[c].born /\ place.revision = at[c].revision /\ place.of = at[c].of
      /\ place.absorbed = at[c].absorbed /\ place.before = at[c].before
      /\ place.stamped = at[c].stamped /\ place.grounded = at[c].grounded
  BY <1>1, <1>3 DEF Places
<1>7. Settled(place)
  BY <1>3, <1>4, <1>6 DEF Settled, Charged
<1>8. [Record(c, rec) EXCEPT !.billed = billed] = place
  BY <1>5
<1> HIDE DEF place
<1> QED
  BY <1>3, <1>6, <1>7, <1>8 DEF billed, spent

LEMMA ReplyKeeps == ASSUME IInv, NEW c \in Clients, Reply(c) PROVE IInv'
<1>1. PICK why \in Whys :
        at' = [at EXCEPT ![c] =
              [Record(c, at[c].rec + 1) EXCEPT
                  !.step = "replied", !.billed = @ + 1,
                  !.of = IF at[c].call = "brief" THEN [@ EXCEPT !.why = why] ELSE @]]
  BY DEF Reply
<1>2. In(c, "calling") /\ UNCHANGED <<session, born, guard>> /\ guard' \in Clients \cup {Nobody}
  BY Typing DEF Reply
<1> DEFINE rec == at[c].rec + 1
           filed == [Record(c, rec) EXCEPT !.billed = at[c].billed + rec - at[c].rec]
           of == IF at[c].call = "brief" THEN [at[c].of EXCEPT !.why = why] ELSE at[c].of
           place == [filed EXCEPT !.step = "replied", !.of = of]
<1>3. /\ filed \in Places /\ Settled(filed)
      /\ filed.todo = at[c].todo /\ filed.call = at[c].call
      /\ filed.born = at[c].born /\ filed.revision = at[c].revision /\ filed.of = at[c].of
      /\ filed.absorbed = at[c].absorbed /\ filed.before = at[c].before
      /\ filed.stamped = at[c].stamped /\ at[c].before <= filed.spent
      /\ filed.grounded = at[c].grounded
  BY <1>2, RecordPlace
<1>4. at[c].call = "brief" => Doing(c, "brief") /\ ~Discovering(c) /\ at[c].of \in Models
  BY <1>2 DEF IInv, Fits, HasRead, In, Working, Doing, Judging, Discovering
<1>5. /\ of \in Models \cup {Nothing} /\ (at[c].of \in Models => of \in Models /\ of.facts = at[c].of.facts)
      /\ (at[c].call # "brief" => of = at[c].of)
  BY <1>3, <1>4 DEF Models, Places
<1>6. at' = [at EXCEPT ![c] = place]
  <2>1. at[c].billed \in Nat /\ at[c].rec \in Nat
    BY Typing DEF Places
  <2>2. at[c].billed + rec - at[c].rec = at[c].billed + 1
    BY <2>1
  <2>3. filed.of = at[c].of /\ Record(c, rec).billed = at[c].billed /\ Record(c, rec).of = at[c].of
    BY <1>3, Typing DEF Record, Places
  <2>4. at' = [at EXCEPT ![c] = [Record(c, rec) EXCEPT
                  !.step = "replied", !.billed = at[c].billed + 1, !.of = of]]
    BY <1>1, <2>3
  <2> HIDE DEF of
  <2>5. [Record(c, rec) EXCEPT !.step = "replied", !.billed = at[c].billed + 1, !.of = of] = place
    BY <2>2, Typing DEF Record, Places
  <2> HIDE DEF place
  <2> QED
    BY <2>4, <2>5
<1> HIDE DEF rec, filed, of
<1>7. /\ place \in Places /\ Settled(place) /\ place.step = "replied"
      /\ place.todo = at[c].todo /\ place.call = at[c].call
      /\ place.born = at[c].born /\ place.revision = at[c].revision /\ place.of = of
      /\ place.absorbed = at[c].absorbed /\ place.before = at[c].before
      /\ place.stamped = at[c].stamped /\ at[c].before <= place.spent /\ place.spent \in Nat
      /\ place.grounded = at[c].grounded
  <2>1. /\ place \in Places /\ place.step = "replied" /\ place.of = of
        /\ place.todo = filed.todo /\ place.call = filed.call /\ place.rate = filed.rate
        /\ place.born = filed.born /\ place.revision = filed.revision
        /\ place.absorbed = filed.absorbed /\ place.before = filed.before
        /\ place.stamped = filed.stamped /\ place.spent = filed.spent
        /\ place.calls = filed.calls /\ place.rec = filed.rec /\ place.cut = filed.cut
        /\ place.billed = filed.billed /\ place.grounded = filed.grounded
    BY <1>3, <1>5 DEF Places, Steps
  <2> HIDE DEF place
  <2>2. Settled(place)
    BY <1>3, <2>1 DEF Settled, Charged
  <2>3. place.spent \in Nat
    BY <2>1 DEF Places
  <2> QED
    BY <1>3, <2>1, <2>2, <2>3
<1> HIDE DEF place
<1>8. at' \in [Clients -> Places] /\ at'[c] = place /\ \A d \in Clients \ {c} : at'[d] = at[d]
  BY <1>6, <1>7 DEF IInv, TypeOK
<1>9. HasRead(c)' /\ Fits(c)' /\ GroundedOnce(c)'
  BY <1>2, <1>5, <1>7, <1>8
     DEF IInv, HasRead, Fits, GroundedOnce, Working, Judging, Discovering, Doing, In
<1>10. Basis(c)'
  <2> SUFFICES ASSUME session # Nothing, session.born = at[c].born,
                      ~Judging(c), ~Discovering(c), ~Doing(c, "answer")
               PROVE  /\ at[c].revision <= Revision
                      /\ of.facts = session.models[at[c].revision].facts
                      /\ at[c].absorbed = "yes" /\ ~Doing(c, "brief") =>
                            of = session.models[at[c].revision]
    BY <1>2, <1>7, <1>8 DEF Basis, Judging, Discovering, Doing, Revision, Briefed, In
  <2>1. /\ at[c].revision <= Revision /\ at[c].of \in Models
        /\ at[c].of.facts = session.models[at[c].revision].facts
        /\ at[c].absorbed = "yes" => at[c].of = session.models[at[c].revision]
    BY <1>2 DEF IInv, Basis, HasRead, Working, Briefed, In
  <2> QED
    BY <1>4, <1>5, <2>1
<1>11. Accounts(c)'
  <2>1. Unstamped(c)' => Unstamped(c)
    BY <1>2, <1>7, <1>8 DEF Unstamped, In
  <2>2. Unstamped(c) => at[c].stamped <= at[c].before
    BY DEF IInv, Accounts
  <2> QED
    BY <1>7, <1>8, <2>1, <2>2 DEF Accounts, Settled, In
<1>12. at'[c].born <= born /\ at'[c].before <= at'[c].spent
  BY <1>7, <1>8, Typing
<1>13. SessionStands /\ PlaceStands(c)
  BY <1>2, <1>7, <1>8, <1>9, <1>11, <1>12, IdleSessionStands DEF PlaceStands
<1> QED
  BY <1>10, <1>13, BothStand

LEMMA LoseKeeps == ASSUME IInv, NEW c \in Clients, Lose(c) PROVE IInv'
<1>1. PICK rec \in {at[c].rec, at[c].rec + 1} : GiveUp(c, rec)
  BY DEF Lose
<1>2. In(c, "calling") /\ UNCHANGED <<session, born>>
  BY DEF Lose
<1> DEFINE place == [Record(c, rec) EXCEPT !.billed = at[c].billed + rec - at[c].rec]
<1>3. place \in Places /\ Settled(place)
  BY <1>2, RecordPlace
<1>4. End(c, place)
  BY <1>1, Typing DEF GiveUp, Record, Places
<1> HIDE DEF place
<1> QED
  BY <1>2, <1>3, <1>4, EndStands, IdleSessionStands, BothStand

\* An interrupt loses the record of its call, which is why it is told apart.
LEMMA CutKeeps == ASSUME IInv, NEW c \in Clients, Cut(c) PROVE IInv'
<1> DEFINE place == [at[c] EXCEPT !.cut = "yes", !.rec = 0, !.attempts = 0]
<1>1. at[c] \in Places /\ Accounts(c) /\ In(c, "calling") /\ 0 \in 0..Retries
  BY Typing DEF IInv, Cut
<1>2. place \in Places /\ Settled(place)
  BY <1>1 DEF Places, Settled, Accounts, Charged
<1>3. End(c, place) /\ UNCHANGED <<session, born>>
  BY DEF Cut
<1> HIDE DEF place
<1> QED
  BY <1>2, <1>3, EndStands, IdleSessionStands, BothStand

\* What a reply is for.  A first turn lands as a revision.
LEMMA LandKeeps == ASSUME IInv, NEW c \in Clients, Land(c) PROVE IInv'
<1> USE DEF Land, In
<1>1. at[c].step \in Working /\ Unstamped(c) /\ at[c].todo # <<>>
  BY DEF IInv, Fits, Working, Unstamped, Discovering, Doing
<1>2. PlaceStands(c) /\ Basis(c)'
  BY <1>1, StampedPlace, FinishStands
<1>3. SessionStands
  BY GrownSessionStands DEF Update
<1> QED
  BY <1>2, <1>3, BothStand

\* An answer lands, and its note may be paid for.
LEMMA FoldKeeps == ASSUME IInv, NEW c \in Clients, Fold(c) PROVE IInv'
<1> USE DEF Fold, In
<1>1. at[c].step \in Working /\ Unstamped(c) /\ at[c].todo # <<>> /\ ~Judging(c)
  BY DEF Working, Unstamped, Judging, Doing
<1>2. SessionStands
  BY GrownSessionStands DEF Update
<1>3. CASE Finish(c, Stamped(c))
  BY <1>1, <1>2, <1>3, StampedPlace, FinishStands, BothStand
<1>4. CASE /\ at' = [at EXCEPT ![c] = [Stamped(c) EXCEPT !.step = "filing", !.revision = @ + 1]]
           /\ UNCHANGED guard
  <2>1. at' = [at EXCEPT ![c] = Further(c)]
    BY <1>1, <1>4, StampedPlace DEF Further
  <2>2. PlaceStands(c) /\ at'[c] = Further(c)
    BY <1>1, <1>4, <2>1, FurtherPlace, OnwardStands
  <2>3. Basis(c)'
    BY <1>1, <2>2, FurtherPlace DEF Basis, Doing
  <2> QED
    BY <1>2, <2>2, <2>3, BothStand
<1> QED
  BY <1>3, <1>4

LEMMA ExplainedKeeps == ASSUME IInv, NEW c \in Clients, Explained(c) PROVE IInv'
<1>1. ~In(c, "calling") /\ at[c].todo # <<>> /\ Finish(c, at[c]) /\ UNCHANGED <<session, born>>
  BY DEF Explained, In, Doing
<1> QED
  BY <1>1, RestIsSettled, FinishStands, IdleSessionStands, BothStand

\* The reasoning of a brief becomes the model's, on the revision it was reasoned from.
LEMMA AbsorbKeeps == ASSUME IInv, NEW c \in Clients, Absorb(c) PROVE IInv'
<1>1. /\ at[c].step \in Working /\ Unstamped(c) /\ ~Discovering(c) /\ ~Doing(c, "answer")
      /\ at[c].of \in Models /\ In(c, "replied") /\ ~Judging(c)
  BY DEF Absorb, Briefed, In, IInv, Fits, HasRead, Working, Unstamped, Judging, Discovering, Doing
<1>2. /\ SessionStands /\ session' # Nothing /\ session'.born = session.born
      /\ session'.models = Append(session.models, at[c].of)
      /\ session # Nothing /\ Revision = at[c].revision
  BY <1>1, GrownSessionStands DEF Absorb, Update
<1>3. at' = [at EXCEPT ![c] = Further(c)] /\ UNCHANGED guard
  BY <1>1, StampedPlace DEF Absorb, Further
<1>4. PlaceStands(c) /\ at'[c] = Further(c)
  BY <1>1, <1>3, FurtherPlace, OnwardStands
<1>5. at'[c].revision = at[c].revision + 1 /\ at'[c].of = at[c].of
  BY <1>1, <1>4, FurtherPlace
<1>6. Basis(c)'
  <2>1. /\ session.models \in Seq(Models) /\ Revision = Len(session.models) /\ Revision \in Nat
    BY <1>2, Typing DEF Revision
  <2>2. Revision' = Revision + 1 /\ session'.models[Revision + 1] = at[c].of
    BY <1>1, <1>2, <2>1 DEF Revision
  <2>3. at'[c].revision = Revision' /\ at'[c].of = session'.models[at'[c].revision]
    BY <1>2, <1>5, <2>2
  <2>4. Revision' <= Revision'
    BY <2>1, <2>2
  <2> QED
    BY <2>3, <2>4 DEF Basis
<1> QED
  BY <1>2, <1>4, <1>6, BothStand

\* It is filed without where the apply lost a race.
LEMMA UnabsorbedKeeps == ASSUME IInv, NEW c \in Clients, Unabsorbed(c) PROVE IInv'
<1> USE DEF Unabsorbed, In, Briefed
<1> DEFINE place == [at[c] EXCEPT !.step = "filing", !.absorbed = "no"]
<1>1. /\ at[c] \in Places /\ Settled(at[c]) /\ at[c].step \in Working /\ ~Judging(c)
      /\ at[c].revision \in Nat /\ at[c].revision >= at[c].revision
  BY RestIsSettled DEF Working, Places, Judging, Doing
<1>2. /\ place \in Places /\ Settled(place) /\ place.step = "filing"
      /\ place.todo = at[c].todo /\ place.born = at[c].born /\ place.before = at[c].before
      /\ place.spent = at[c].spent /\ place.of = at[c].of /\ place.absorbed = "no"
      /\ place.revision = at[c].revision
  BY <1>1 DEF Places, Steps, Settled, Charged
<1>3. at' = [at EXCEPT ![c] = place]
  BY <1>1 DEF IInv, TypeOK, Places
<1> HIDE DEF place
<1>4. PlaceStands(c) /\ at'[c] = place
  BY <1>1, <1>2, <1>3, OnwardStands
<1>5. Basis(c)'
  BY <1>1, <1>2, <1>4 DEF IInv, Basis, Doing, Judging, Discovering, Revision
<1> QED
  BY <1>4, <1>5, IdleSessionStands, BothStand

\* The documents of an operation: where one is filed and another is to follow, ...
LEMMA FiledOnward ==
  ASSUME IInv, NEW c \in Clients, NEW type \in Types, Save(c, type), born' = born,
         at[c].step \in Working, at[c].step # "calling",
         ~Judging(c), ~Discovering(c), ~Doing(c, "answer"), ~Briefed(c),
         NEW step \in {"filing", "companion"}, step = "companion" => Doing(c, "brief"),
         at' = [at EXCEPT ![c].step = step],
         UNCHANGED guard
  PROVE  IInv'
<1> DEFINE place == [at[c] EXCEPT !.step = step]
<1>1. /\ at[c] \in Places /\ Settled(at[c])
      /\ at[c].revision \in Nat /\ at[c].revision >= at[c].revision
  BY RestIsSettled DEF Places, In
<1>2. /\ place \in Places /\ Settled(place) /\ place.step = step
      /\ place.todo = at[c].todo /\ place.born = at[c].born /\ place.before = at[c].before
      /\ place.spent = at[c].spent /\ place.of = at[c].of /\ place.absorbed = at[c].absorbed
      /\ place.revision = at[c].revision
  BY <1>1 DEF Places, Steps, Settled, Charged
<1>3. at' = [at EXCEPT ![c] = place]
  BY <1>1 DEF IInv, TypeOK, Places
<1> HIDE DEF place
<1>4. PlaceStands(c) /\ at'[c] = place
  BY <1>1, <1>2, <1>3, OnwardStands
<1>5. /\ SessionStands /\ session' # Nothing /\ session'.born = session.born
      /\ session'.models = session.models /\ session # Nothing
  BY FiledSessionStands DEF Save
<1>6. Basis(c)'
  BY <1>1, <1>2, <1>4, <1>5 DEF IInv, Basis, Revision
<1> QED
  BY <1>4, <1>5, <1>6, BothStand

\* ... and where it is the last.
LEMMA FiledLast ==
  ASSUME IInv, NEW c \in Clients, NEW type \in Types, Save(c, type), born' = born,
         at[c].step \in Working, at[c].step # "calling",
         ~Judging(c), ~Discovering(c), ~Doing(c, "answer"), ~Briefed(c),
         Finish(c, at[c]) \/ End(c, at[c])
  PROVE  IInv'
<1>1. at[c] \in Places /\ Settled(at[c]) /\ at[c].todo # <<>>
  BY RestIsSettled DEF In, IInv, HasRead
<1>2. PlaceStands(c) /\ Basis(c)'
  BY <1>1, FinishStands, EndStands
<1>3. SessionStands
  BY FiledSessionStands
<1> QED
  BY <1>2, <1>3, BothStand

LEMMA FileBriefKeeps == ASSUME IInv, NEW c \in Clients, FileBrief(c) PROVE IInv'
  BY FiledOnward DEF FileBrief, In, Working, Types, Judging, Discovering, Doing, Briefed

LEMMA FileBasisKeeps == ASSUME IInv, NEW c \in Clients, FileBasis(c) PROVE IInv'
  BY FiledOnward DEF FileBasis, In, Working, Types, Judging, Discovering, Doing, Briefed

LEMMA FileStoriesKeeps == ASSUME IInv, NEW c \in Clients, FileStories(c) PROVE IInv'
  BY FiledLast DEF FileStories, In, Working, Types, Judging, Discovering, Doing, Briefed

LEMMA FileEstimateKeeps == ASSUME IInv, NEW c \in Clients, FileEstimate(c) PROVE IInv'
  BY FiledLast DEF FileEstimate, In, Working, Types, Judging, Discovering, Doing, Briefed

LEMMA FileViewKeeps == ASSUME IInv, NEW c \in Clients, FileView(c) PROVE IInv'
<1>1. /\ at[c].step \in Working /\ at[c].step # "calling" /\ "view" \in Types
      /\ ~Judging(c) /\ ~Discovering(c) /\ ~Doing(c, "answer") /\ ~Briefed(c)
  BY DEF FileView, In, IInv, HasRead, Working, Types, Judging, Discovering, Doing, Briefed
<1>2. Save(c, "view") /\ born' = born /\ (Finish(c, at[c]) \/ End(c, at[c]))
  BY DEF FileView
<1> QED
  BY <1>1, <1>2, FiledLast

----------------------------------------------------------------------------
LEMMA InitEstablishes == Init => IInv
<1> SUFFICES ASSUME Init PROVE IInv
  OBVIOUS
<1>1. MaxRevs \in Seq(Nat) /\ Len(MaxRevs) \in Nat /\ Retries \in Nat /\ Ceiling \in Nat
  BY GenerationAssumption DEF GenerationAssumption
<1>2. Idle \in Places
  BY <1>1 DEF Idle, Places, Steps, Queues, Calls
<1>3. TypeOK
  <2>1. \A c \in Clients : at[c].born <= born /\ at[c].before <= at[c].spent
    BY DEF Init, Idle
  <2> QED
    BY <1>1, <1>2, <2>1 DEF Init, TypeOK
<1>4. Numbered /\ RowsStand
  BY DEF Init, Numbered, RowsStand, OwnRows
<1>5. ASSUME NEW c \in Clients
      PROVE  HasRead(c) /\ Fits(c) /\ Basis(c) /\ GroundedOnce(c) /\ Accounts(c) /\ Unused(c)
  <2>1. /\ at[c] = Idle /\ at[c].step = "new" /\ at[c].rec = 0 /\ at[c].spent = 0
        /\ at[c].calls = 0 /\ at[c].stamped = 0 /\ at[c].billed = 0 /\ at[c].grounded = "no"
    BY DEF Init, Idle
  <2>2. HasRead(c) /\ Fits(c) /\ Basis(c) /\ GroundedOnce(c) /\ Unused(c)
    BY <2>1 DEF HasRead, Fits, Basis, GroundedOnce, Unused, Working
  <2> HIDE DEF Idle
  <2>3. Accounts(c)
    BY <1>1, <2>1 DEF Accounts, Charged, Unstamped, In
  <2> QED
    BY <2>2, <2>3
<1> QED
  BY <1>3, <1>4, <1>5 DEF IInv

LEMMA NextKeeps == IInv /\ [Next]_vars => IInv'
<1> SUFFICES ASSUME IInv, [Next]_vars PROVE IInv'
  OBVIOUS
<1>1. CASE CreateByHand \/ Delete \/ ApplyByHand \/ Rescope
  BY <1>1, CreateByHandKeeps, DeleteKeeps, ApplyByHandKeeps, RescopeKeeps
<1>2. ASSUME NEW c \in Clients,
             \/ Invoke(c) \/ Leave(c) \/ Claim(c)
             \/ Route(c) \/ Routed(c) \/ Ground(c) \/ Grounded(c)
             \/ Discover(c) \/ Answer(c) \/ Generate(c)
             \/ Refuse(c) \/ Reply(c) \/ Retry(c) \/ Lose(c) \/ Cut(c) \/ Die(c)
      PROVE  IInv'
  BY <1>2, InvokeKeeps, LeaveKeeps, ClaimKeeps, RouteKeeps, RoutedKeeps, GroundKeeps,
     GroundedKeeps, DiscoverKeeps, AnswerKeeps, GenerateKeeps,
     RefuseKeeps, ReplyKeeps, RetryKeeps, LoseKeeps, CutKeeps, DieKeeps
<1>3. ASSUME NEW c \in Clients,
             \/ Land(c) \/ Fold(c) \/ Note(c) \/ Explained(c)
             \/ Absorb(c) \/ Unabsorbed(c) \/ FileBrief(c) \/ FileView(c)
             \/ FileStories(c) \/ FileBasis(c) \/ Estimate(c) \/ FileEstimate(c) \/ RefuseWrite(c)
      PROVE  IInv'
  BY <1>3, LandKeeps, FoldKeeps, NoteKeeps, ExplainedKeeps, AbsorbKeeps, UnabsorbedKeeps,
     FileBriefKeeps, FileViewKeeps, FileStoriesKeeps, FileBasisKeeps, EstimateKeeps,
     FileEstimateKeeps, RefuseWriteKeeps
<1>4. CASE UNCHANGED vars
  <2>1. SessionStands /\ UNCHANGED at /\ guard' \in Clients \cup {Nobody}
    BY <1>4, IdleSessionStands, Typing DEF vars
  <2> QED
    BY <2>1, ByHandKeeps
<1> QED
  BY <1>1, <1>2, <1>3, <1>4 DEF Next

\* In every state: what is filed and what is being paid for is about the revision it
\* will name, and the ledger has what was billed.
THEOREM GenerationInvariant == Spec => []IInv
  BY InitEstablishes, NextKeeps, PTL DEF Spec

\* The variables have their types.
THEOREM GenerationTypes == Spec => []TypeOK
<1>1. IInv => TypeOK
  BY DEF IInv
<1> QED
  BY <1>1, GenerationInvariant, PTL

\* `ArtifactService.save`, `_save_assessment`: a row names the revision its document
\* was written from, whatever landed while it was being paid for.
THEOREM GenerationRowNamesItsSource == Spec => []RowNamesWhatItWasWrittenFrom
<1>1. IInv => RowNamesWhatItWasWrittenFrom
  BY DEF IInv, RowsStand, RowNamesWhatItWasWrittenFrom
<1> QED
  BY <1>1, GenerationInvariant, PTL

\* `_stale_since`, `save_revision`: a document shown as fresh says what the model says.
THEOREM GenerationFreshIsCurrent == Spec => []FreshIsCurrent
<1>1. IInv => FreshIsCurrent
  BY DEF IInv, RowsStand, FreshIsCurrent
<1> QED
  BY <1>1, GenerationInvariant, PTL

\* `_complete`, `record_call`: what was billed is on the ledger, but for an interrupt.
THEOREM GenerationSpendIsRecorded == Spec => []SpendIsRecorded
<1>1. IInv => SpendIsRecorded
  BY DEF IInv, Accounts, SpendIsRecorded
<1> QED
  BY <1>1, GenerationInvariant, PTL

\* `_check_spend`, `judge_grounding`: an invocation passes its ceiling by the attempts
\* of one call, and by those of the grounding judgment, which nothing checks; whatever
\* the ceiling and the number of attempts.
THEOREM GenerationCeiling == Spec => []CeilingPassedByOneCheckedCall
<1>1. ASSUME IInv PROVE CeilingPassedByOneCheckedCall
  <2> SUFFICES ASSUME NEW c \in Clients
               PROVE  IF at[c].rate = "priced"
                      THEN at[c].spent + at[c].rec <= Ceiling + Retries + Unchecked(c)
                      ELSE at[c].calls + (IF In(c, "calling") THEN 1 ELSE 0)
                              <= 1 + (IF at[c].grounded = "yes" THEN 1 ELSE 0)
    BY DEF CeilingPassedByOneCheckedCall
  <2>1. /\ at[c].rate \in {"priced", "unpriced"} /\ at[c].spent \in Nat /\ at[c].calls \in Nat
        /\ at[c].rec \in 0..Retries /\ Retries \in Nat /\ Ceiling \in Nat /\ Accounts(c)
    BY <1>1, Typing DEF Places, IInv
  <2>2. CASE In(c, "calling") /\ at[c].call # "ground"
    BY <2>1, <2>2 DEF Accounts, MaySpend, CostKnown, Unchecked
  <2>3. CASE In(c, "calling") /\ at[c].call = "ground"
    BY <2>1, <2>3 DEF Accounts, Charged, Unchecked
  <2>4. CASE ~In(c, "calling")
    BY <2>1, <2>4 DEF Accounts, Charged, Unchecked
  <2> QED
    BY <2>2, <2>3, <2>4
<1>2. IInv => CeilingPassedByOneCheckedCall
  BY <1>1
<1> QED
  BY <1>2, GenerationInvariant, PTL

\* `_usage_since`: no call is stamped on two revisions.
THEOREM GenerationCountedOnce == Spec => []CountedOnce
<1>1. IInv => CountedOnce
  BY DEF IInv, Accounts, CountedOnce
<1> QED
  BY <1>1, GenerationInvariant, PTL

\* The facts a brief was reasoned from are those of the revision it lands on.
LEMMA AbsorbKeepsFacts ==
  ASSUME IInv, NEW c \in Clients, Absorb(c), session.born = at[c].born
  PROVE  Last(session'.models).facts = Last(session.models).facts
<1>1. /\ ~Judging(c) /\ ~Discovering(c) /\ ~Doing(c, "answer") /\ at[c].step \in Working
      /\ session # Nothing /\ Revision = at[c].revision /\ Apply(at[c].of)
      /\ at[c].of \in Models /\ at[c].revision > 0
  BY DEF IInv, HasRead, Absorb, Update, Briefed, In, Judging, Discovering, Doing, Working
<1>2. session'.models = Append(session.models, at[c].of) /\ session.models \in Seq(Models)
  BY <1>1, GrownSessionStands, Typing DEF Absorb
<1>3. at[c].of.facts = session.models[Revision].facts
  BY <1>1 DEF IInv, Basis
<1> QED
  BY <1>1, <1>2, <1>3 DEF Last, Revision

\* `absorb_reasoning`: a brief that takes time to pay for never undoes a turn that has
\* landed meanwhile.
THEOREM GenerationAbsorbs == Spec => AbsorbsWithoutUndoing
<1> DEFINE Undoes(c) == /\ Briefed(c) /\ session # Nothing /\ session' # session /\ at'[c] # at[c]
                        /\ session.born = at[c].born
                        /\ Last(session'.models).facts # Last(session.models).facts
<1>1. ASSUME IInv, [Next]_vars, NEW c \in Clients, Undoes(c) PROVE FALSE
  <2>1. ~(UNCHANGED at) /\ ~(UNCHANGED session) /\ at[c].step = "replied" /\ Doing(c, "brief")
    BY <1>1 DEF Briefed, In
  <2>2. PICK d \in Clients :
          \/ Invoke(d) \/ Leave(d) \/ Claim(d)
          \/ Route(d) \/ Routed(d) \/ Ground(d) \/ Grounded(d)
          \/ Discover(d) \/ Answer(d) \/ Generate(d)
          \/ Refuse(d) \/ Reply(d) \/ Retry(d) \/ Lose(d) \/ Cut(d) \/ Die(d)
          \/ Land(d) \/ Fold(d) \/ Note(d) \/ Explained(d)
          \/ Absorb(d) \/ Unabsorbed(d) \/ FileBrief(d) \/ FileView(d)
          \/ FileStories(d) \/ FileBasis(d) \/ Estimate(d) \/ FileEstimate(d) \/ RefuseWrite(d)
    BY <1>1, <2>1 DEF Next, vars, CreateByHand, Delete, ApplyByHand, Rescope
  <2>3. \/ Claim(d) \/ Land(d) \/ Fold(d) \/ Absorb(d) \/ FileBrief(d) \/ FileView(d)
        \/ FileStories(d) \/ FileBasis(d) \/ FileEstimate(d)
    BY <2>1, <2>2
       DEF Invoke, Leave, Route, Routed, Ground, Grounded, Judged, Discover, Answer, Generate,
           Call, Pay, Refuse, Fail, Reply, Retry,
           Lose, Cut, Die, Note, Explained, Unabsorbed, Estimate, RefuseWrite
  <2>4. d = c
    <3>1. at \in [Clients -> Places]
      BY <1>1 DEF IInv, TypeOK
    <3>2. ASSUME NEW place, Finish(d, place) \/ End(d, place), d # c PROVE at'[c] = at[c]
      BY <3>1, <3>2 DEF Finish, Proceed, End
    <3> QED
      BY <1>1, <2>1, <2>3, <3>1, <3>2
         DEF Claim, Land, Fold, Absorb, FileBrief, FileView, FileStories, FileBasis, FileEstimate
  <2>5. Absorb(c)
    BY <2>1, <2>3, <2>4
       DEF Claim, Land, Fold, FileBrief, FileView, FileStories, FileBasis, FileEstimate,
           In, Discovering, Doing
  <2> QED
    BY <1>1, <2>5, AbsorbKeepsFacts
<1>2. IInv /\ [Next]_vars =>
        [\A c \in Clients :
          Briefed(c) /\ session # Nothing /\ session' # session /\ at'[c] # at[c]
              /\ session.born = at[c].born
          => Last(session'.models).facts = Last(session.models).facts]_vars
  BY <1>1
<1> QED
  BY <1>2, GenerationInvariant, PTL DEF Spec, AbsorbsWithoutUndoing
=============================================================================

-------------------------- MODULE VersionedSession --------------------------
(***************************************************************************)
(* What a session promises its callers, with no file, lock or crash in     *)
(* sight: a history of models that only grows, one at a time, and for each *)
(* kind of document the revision it was written from.  The flags a         *)
(* revision raises land with the revision.  A flag is only ever lowered by *)
(* saving the document again.                                              *)
(***************************************************************************)
EXTENDS Naturals, Sequences

CONSTANTS Models, Types, NoDocument

VARIABLES history,  \* the models applied, oldest first
          source,   \* source[t]: the revision the document of type t was written from
          stale     \* the types whose document is flagged stale

vars == <<history, source, stale>>

Recorded == {t \in Types : source[t] # NoDocument}

Init ==
    /\ history = <<>>
    /\ source = [t \in Types |-> NoDocument]
    /\ stale = {}

\* A new revision, with the documents it makes stale.
Commit(m, S) ==
    /\ history' = Append(history, m)
    /\ stale' = stale \cup S
    /\ UNCHANGED source

\* A document saved against a revision of the history, flagged or not.
SaveDocument(t, n) ==
    /\ source' = [source EXCEPT ![t] = n]
    /\ stale' \in {stale \ {t}, stale \cup {t}}
    /\ UNCHANGED history

\* Documents flagged with no new revision.
MarkStale(S) ==
    /\ stale' = stale \cup S
    /\ UNCHANGED <<history, source>>

Next ==
    \/ \E m \in Models, S \in SUBSET Recorded : Commit(m, S)
    \/ \E t \in Types, n \in 1..Len(history) : SaveDocument(t, n)
    \/ \E S \in SUBSET Recorded : MarkStale(S)

Spec == Init /\ [][Next]_vars
=============================================================================

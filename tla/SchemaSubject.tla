--------------------------- MODULE SchemaSubject ---------------------------
(***************************************************************************)
(* What the Schema controller promises about registry subjects, with no    *)
(* work queue, no calls and no failures: a Schema claims its subject by    *)
(* its finalizer, only a claimant publishes versions, sets the subject's   *)
(* compatibility level or reports Ready, and a deleted Schema lets go of   *)
(* its subject only once the subject is empty, deliberately abandoned, or  *)
(* claimed by another Schema.  SchemaLifecycle implements this module      *)
(* under the mapping SchemaLifecycle!SubjectView.                          *)
(***************************************************************************)
EXTENDS Naturals, Sequences, Functions

CONSTANTS Schemas, Subjects, Contents, Levels, SubjectOf, CompatOf,
          NoLevel, NoID, MaxGen

VARIABLES
    obj,       \* obj[s]: the Schema's spec, finalizer, deletion mark and
               \* the schemaId and Ready of its status
    versions,  \* versions[subj]: the texts registered under subj
    config,    \* config[subj]: the subject's compatibility level
    orphaned   \* subjects given up by a deletion that skipped cleanup

vars == <<obj, versions, config, orphaned>>

Gone == [exists |-> FALSE, gen |-> 0, content |-> NoID, fin |-> FALSE,
         del |-> FALSE, id |-> NoID, ready |-> "Unknown"]

Claimed(s) == obj[s].exists /\ obj[s].fin

\* another Schema still holds s's subject
SharedClaim(s) == \E k \in Schemas \ {s} : SubjectOf[k] = SubjectOf[s] /\ Claimed(k)

Unchanged(s) == UNCHANGED <<versions, config, orphaned>>

Create(s, c) ==
    /\ ~obj[s].exists
    /\ obj' = [obj EXCEPT ![s] = [Gone EXCEPT !.exists = TRUE, !.gen = 1, !.content = c]]
    /\ Unchanged(s)

Edit(s, c) ==
    /\ obj[s].exists /\ obj[s].content # c /\ obj[s].gen < MaxGen
    /\ obj' = [obj EXCEPT ![s].gen = @ + 1, ![s].content = c]
    /\ Unchanged(s)

\* a delete marks a claimed Schema and removes an unclaimed one
Delete(s) ==
    /\ obj[s].exists /\ ~obj[s].del
    /\ obj' = [obj EXCEPT ![s] = IF obj[s].fin THEN [@ EXCEPT !.del = TRUE] ELSE Gone]
    /\ Unchanged(s)

Claim(s) ==
    /\ obj[s].exists /\ ~obj[s].del /\ ~obj[s].fin
    /\ obj' = [obj EXCEPT ![s].fin = TRUE]
    /\ Unchanged(s)

\* a claimant registers a text; an identical text is not added twice
Publish(s, c) ==
    /\ Claimed(s)
    /\ c \notin Range(versions[SubjectOf[s]])
    /\ versions' = [versions EXCEPT ![SubjectOf[s]] = Append(@, c)]
    /\ UNCHANGED <<obj, config, orphaned>>

Configure(s) ==
    /\ Claimed(s) /\ CompatOf[s] # NoLevel
    /\ config' = [config EXCEPT ![SubjectOf[s]] = CompatOf[s]]
    /\ UNCHANGED <<obj, versions, orphaned>>

\* a claimant reports Ready with an id its subject holds, or not Ready
Report(s, id) ==
    /\ Claimed(s)
    /\ id \in Range(versions[SubjectOf[s]])
    /\ obj' = [obj EXCEPT ![s].id = id, ![s].ready = "True"]
    /\ Unchanged(s)

Fail(s) ==
    /\ Claimed(s)
    /\ obj' = [obj EXCEPT ![s].ready = "False"]
    /\ Unchanged(s)

Retract(s) ==
    /\ Claimed(s) /\ obj[s].del
    /\ versions' = [versions EXCEPT ![SubjectOf[s]] = <<>>]
    /\ UNCHANGED <<obj, config, orphaned>>

Abandon(s) ==
    /\ Claimed(s) /\ obj[s].del
    /\ versions[SubjectOf[s]] # <<>>
    /\ orphaned' = orphaned \cup {SubjectOf[s]}
    /\ UNCHANGED <<obj, versions, config>>

Release(s) ==
    /\ Claimed(s) /\ obj[s].del
    /\ \/ versions[SubjectOf[s]] = <<>>
       \/ SubjectOf[s] \in orphaned
       \/ SharedClaim(s)
    /\ obj' = [obj EXCEPT ![s] = Gone]
    /\ Unchanged(s)

Init ==
    /\ obj = [s \in Schemas |-> Gone]
    /\ versions = [j \in Subjects |-> <<>>]
    /\ config = [j \in Subjects |-> NoLevel]
    /\ orphaned = {}

Next ==
    \E s \in Schemas :
        \/ Delete(s) \/ Claim(s) \/ Configure(s) \/ Fail(s)
        \/ Retract(s) \/ Abandon(s) \/ Release(s)
        \/ \E c \in Contents : Create(s, c) \/ Edit(s, c) \/ Publish(s, c) \/ Report(s, c)

Spec == Init /\ [][Next]_vars

=============================================================================

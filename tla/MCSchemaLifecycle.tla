------------------------- MODULE MCSchemaLifecycle -------------------------
(* Model values for checking SchemaLifecycle with TLC.                     *)
EXTENDS SchemaLifecycle

CONSTANTS s1, s2, j1, j2, L1

\* two Schemas on distinct subjects, one of them declaring a level
MCSubjectOf == [k \in Schemas |-> IF k = s1 THEN j1 ELSE j2]
MCCompatOf == [k \in Schemas |-> IF k = s1 THEN L1 ELSE NoLevel]

\* two Schemas sharing one subject, neither declaring a level
SharedSubjectOf == [k \in Schemas |-> j1]
NoCompatOf == [k \in Schemas |-> NoLevel]

\* the auth secret stays valid: buildClient still fails whenever the
\* SchemaRegistry is missing, and SecretChanges is covered by the run with
\* one Schema
SecretKept == authOk

\* every Schema lives in the SchemaRegistry's namespace
MCListed == Schemas
=============================================================================

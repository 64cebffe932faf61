----------------------------- MODULE MCOperator -----------------------------
(* Model values for checking Operator with TLC.                            *)
EXTENDS Operator

CONSTANTS s1, j1, L1, r1, u1

MCSubjectOf == [k \in Schemas |-> j1]
MCCompatOf == [k \in Schemas |-> L1]

\* the Schema lives in the SchemaRegistry's namespace
SameNamespace == Schemas

\* the Schema lives in another namespace and names the SchemaRegistry
\* through spec.registryRef.namespace, which buildClient follows
OtherNamespace == {}
=============================================================================

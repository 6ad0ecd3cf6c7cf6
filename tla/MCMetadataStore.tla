---------------------------- MODULE MCMetadataStore ----------------------------
(* Two saves and two gets of one record, and a save of another.            *)
EXTENDS MetadataStore

CONSTANTS s1, s2, s3, g1, g2

MCKeyOf == [c \in Saves \cup Gets |-> IF c = s3 THEN "did" ELSE "transaction"]
=============================================================================

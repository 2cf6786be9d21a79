--------------------------- MODULE MCMetadataStore ---------------------------
(* A small instance of MetadataStore: three contents, of which one is empty.  *)
EXTENDS MetadataStore

MCMaxTime == 2
=============================================================================

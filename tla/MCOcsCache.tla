----------------------------- MODULE MCOcsCache -----------------------------
(* OcsCache on no, one or two machines and one package.                      *)
EXTENDS OcsCache
=============================================================================

----------------------------- MODULE MC_PagedKv -----------------------------
(* Prompts that fill their pages, that share a first page and part of the    *)
(* second, and that hold a chunk of another one in another place.  Four      *)
(* pages are too few for two sequences that share nothing.                   *)
EXTENDS PagedKv

MCPrompts == {<<1, 1, 1, 1>>, <<1, 1, 1, 2, 1>>, <<2, 1, 1, 1>>}

=============================================================================

--------------------------- MODULE DkimCandidates ---------------------------
(***************************************************************************)
(* dkim_candidates: the selectors of the providers that the MX and SPF     *)
(* rows name come first, then the common list, each selector once.         *)
(***************************************************************************)
EXTENDS Sequences, Functions, SequencesExt

CONSTANTS
  Providers,           (* fingerprints, in the order of the table          *)
  PROVIDER_SELECTORS,  (* the selectors of each                            *)
  DKIM_SELECTORS       (* the common list                                  *)

(* A selector that stands in the list already is not appended again.       *)
Once(list) ==
  FoldLeft(LAMBDA out, s : IF s \in Range(out) THEN out ELSE Append(out, s), <<>>, list)

(* blob: the fingerprints found in the rows.  A lookup that failed leaves  *)
(* them out, and the common list alone is probed.                          *)
dkim_candidates(blob) ==
  Once(FoldLeft(LAMBDA sels, p : IF p \in blob THEN sels \o PROVIDER_SELECTORS[p] ELSE sels,
                <<>>, Providers)
       \o DKIM_SELECTORS)
=============================================================================

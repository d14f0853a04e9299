----------------------------- MODULE MCDkimSweep -----------------------------
(* Instances of DkimSweep for TLC: two providers, one of which is named by *)
(* the rows or none, that share a selector with the common list; batches   *)
(* of two and a short last batch.                                          *)
EXTENDS DkimSweep

CONSTANTS s1, s2, s3, s4

Candidates ==
  INSTANCE DkimCandidates WITH
    Providers <- <<"fastmail", "outlook">>,
    PROVIDER_SELECTORS <- [outlook |-> <<s3, s1>>, fastmail |-> <<s4, s2>>],
    DKIM_SELECTORS <- <<s1, s2, s4>>

MCGuided == Candidates!dkim_candidates({"outlook"})
MCUnguided == Candidates!dkim_candidates({})
=============================================================================

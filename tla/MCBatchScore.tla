---------------------------- MODULE MCBatchScore ----------------------------
(* Instance of BatchScore for TLC: the worlds that differ from a plain one *)
(* in at most two of the aspects below, up to MaxLost lookups lost.        *)
EXTENDS BatchScore

Plain == [Nowhere(Unpublished) EXCEPT !.existence = "exists"]

(* The ways one aspect of a world may be.                                  *)
Aspects ==
  << {[Plain EXCEPT !.apex = a, !.all = q, !.cost = c] :
        a \in {"own", "redirected"}, q \in {"low", "shouted", "drowned"},
        c \in {"within", "heavy", "voids", "semi"}},
     {[Plain EXCEPT !.dmarc = p, !.rua = some] :
        p \in {"monitor", "enforced", "shouted", "shadowed"}, some \in BOOLEAN},
     {[Plain EXCEPT !.above = record] : record \in Ancestors},
     {[Plain EXCEPT !.mx = m, !.hint = h] :
        m \in {"none", "null", "real", "both"}, h \in {"nowhere", "mx", "apex"}},
     {[Plain EXCEPT !.keys = found] :
        found \in [Selectors -> {"none", "good", "weak", "invalid"}]},
     {[Plain EXCEPT !.sts = "there"], [Plain EXCEPT !.rpt = "there"],
      [Plain EXCEPT !.tlsa = "there"], [Plain EXCEPT !.bimi = "there"]} >>

(* v, and what w has beyond a plain world.                                 *)
Merged(v, w) == [k \in DOMAIN Plain |-> IF w[k] = Plain[k] THEN v[k] ELSE w[k]]

MCWorlds ==
  {w \in UNION {{Merged(v, u) : v \in Aspects[i], u \in Aspects[j]} :
                  i \in DOMAIN Aspects, j \in DOMAIN Aspects} : Consistent(w)}
=============================================================================

----------------------------- MODULE Components -----------------------------
(***************************************************************************)
(* cbom.py: what the components of a bill of materials say about           *)
(* themselves.  A file f has its components in order, f.order, and of each *)
(* reference r a record f.comp[r]:                                         *)
(*   type          assetType, "unknown" for any other                      *)
(*   refs          the references of a certificate, key or protocol, in    *)
(*                 the order they are read; <<>> for the others            *)
(*   level, prim   nistQuantumSecurityLevel and primitive, or None         *)
(*   hint          _is_vulnerable_name of its name                         *)
(*   ca            its subject looks like a CA's or equals its issuer      *)
(***************************************************************************)
EXTENDS Instances

KnownIn(f) == ToSet(f.order)

\* mutant: the primitive is asked before the rated level
AlgoIsVulnerable_PrimitiveFirst(c) ==
  IF c.prim # None THEN c.prim \in {"signature", "pke", "kem", "key-agree"}
  ELSE IF c.level # None THEN c.level = 0 ELSE c.hint

\* _algo_is_vulnerable: the rated level, else the primitive, else the name
AlgoIsVulnerable(c) ==
  \/ c.level = 0
  \/ /\ c.level = None \/ c.level < 0
     /\ IF c.prim # None
        THEN c.prim \in {"signature", "pke", "kem", "key-agree"} ELSE c.hint

\* a component's own verdict, when it refers to nothing
Weak(f, r) ==
  LET c == f.comp[r]
  IN  \/ c.type = "algorithm" /\ AlgoIsVulnerable(c)
      \/ c.type = "unknown" /\ c.hint

\* is_ca: a CA certificate, or what one refers to
CaCertificates(f) ==
  {x \in KnownIn(f) : f.comp[x].type = "certificate" /\ f.comp[x].ca}

IsCa(f, r) ==
  IF f.comp[r].type = "certificate" THEN r \in CaCertificates(f)
  ELSE \E x \in CaCertificates(f) : r \in ToSet(f.comp[x].refs)

\* is_signature_side
SignatureSide(f, r) ==
  \/ f.comp[r].type \in {"certificate", "related-crypto-material"}
  \/ f.comp[r].type = "algorithm" /\ f.comp[r].prim \in {"signature", "pke"}

\* _classify_kind
Kind(f, r) ==
  CASE f.comp[r].type = "protocol" -> "protocol"
    [] f.comp[r].type = "unknown" -> "default"
    [] OTHER -> IF IsCa(f, r) THEN "ca"
                ELSE CASE f.comp[r].type = "certificate" -> "leaf"
                       [] f.comp[r].type = "algorithm" -> "algorithm"
                       [] OTHER -> "key"

=============================================================================

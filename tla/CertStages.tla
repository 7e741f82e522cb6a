------------------------------ MODULE CertStages ------------------------------
(***************************************************************************)
(* The contents of the keys/ directory of a sye-environment.tar.gz file,   *)
(* and the three configuration files that "sye cluster create-certs"       *)
(* derives from the operator's current one.                                *)
(*                                                                         *)
(* A certificate authority is its generation number: 1 is made by          *)
(* "cluster create", g+1 by the rotation that replaces g.  A keys          *)
(* directory is the authority that issues (ca.pem with ca.key, which the   *)
(* code always writes together) and the set of authorities trusted         *)
(* (root_ca.pem, a concatenation of certificates).                         *)
(***************************************************************************)
EXTENDS Naturals

CONSTANT MaxCa  \* the last authority ever created: MaxCa - 1 rotations

ASSUME MaxCaAssumption == MaxCa \in Nat \ {0}

Stage == 1..3

Ca == 1..MaxCa

Keys == [ca : Ca, roots : SUBSET Ca]

\* createConfigurationFile: root_ca.pem is a copy of the only certificate.
Fresh(g) == [ca |-> g, roots |-> {g}]

\* The old authority still issues; the new one is appended to the roots.
Stage1(old, new) == [old EXCEPT !.roots = @ \cup {new}]

\* Mutant of Stage2: the old authority goes on issuing.
Stage2KeepsIssuer(old, new) == Stage1(old, new)

\* The new authority issues; the roots are those of stage 1.
Stage2(old, new) == [Stage1(old, new) EXCEPT !.ca = new]

\* Mutant of Stage3: the old authority stays trusted.
Stage3KeepsRoots(old, new) == Stage2(old, new)

\* The new authority issues and is the only root.
Stage3(old, new) == [Stage2(old, new) EXCEPT !.roots = {new}]

\* The files written by createConfigurationFileForCertRotation.
StageFiles(old, new) ==
    [s \in Stage |-> CASE s = 1 -> Stage1(old, new)
                       [] s = 2 -> Stage2(old, new)
                       [] s = 3 -> Stage3(old, new)]

\* A service with keys k accepts the certificates issued under keys l.
Accepts(k, l) == l.ca \in k.roots

\* The place of a keys directory in the sequence of all rotations: 3g when g
\* stands alone, one more when a successor of the issuer is already trusted,
\* one less while a predecessor of the issuer is still trusted.
Epoch(k) ==
    CASE \E r \in k.roots : r > k.ca -> 3 * k.ca + 1
      [] \E r \in k.roots : r < k.ca -> 3 * k.ca - 1
      [] OTHER                       -> 3 * k.ca
================================================================================

---------------------------- MODULE NodeIdentity ----------------------------
(***************************************************************************)
(* How a node comes by its identity: the start of the program, the client  *)
(* of the enrollment service and the key store, whose files are written    *)
(* one by one.  The program is restarted whenever it ends, a file or the   *)
(* answer of the controller may be lost at every step, and the controller  *)
(* grants an enrollment key only so often.                                 *)
(***************************************************************************)
EXTENDS Naturals, FiniteSets

CONSTANTS KeyUses,       \* enrollments the key allows
          MaxBoots,      \* starts of the program
          MaxIdFaults    \* steps that fail or are cut short

ASSUME IdentityAssumption == MaxBoots \in Nat /\ MaxIdFaults \in Nat

Boot == 1..MaxBoots
Nothing == 0
IdentityFiles == {"cert", "key", "ca", "meta"}
Files == IdentityFiles \union {"priv", "pub"}

VARIABLES
  disk,       \* file -> the start whose enrollment (or key generation) wrote it
  progress,   \* the program's place
  boot,       \* the current start
  sent,       \* the public key in the request of this start
  enrolled,   \* what the controller has enrolled: [boot, wg]
  identity,   \* what the program runs with: file -> start
  idFaults

identityVars == <<disk, progress, boot, sent, enrolled, identity, idFaults>>

\* SaveIdentity writes the files in this order, each at a place of its own.
After == [cert |-> "key", key |-> "ca", ca |-> "meta", meta |-> "load"]

IdentityTypeOK ==
  /\ disk \in [Files -> Boot \union {Nothing}] /\ boot \in 0..MaxBoots
  /\ progress \in {"down", "start", "newPriv", "newPub", "keyed", "request", "answered", "load", "tls", "run"}
            \union IdentityFiles
  /\ sent \in Boot \union {Nothing} /\ enrolled \subseteq [boot : Boot, wg : Boot \union {Nothing}]
  /\ identity \in [IdentityFiles -> Boot \union {Nothing}] /\ idFaults \in 0..MaxIdFaults

Has(f) == disk[f] # Nothing
HasIdentity == \A f \in IdentityFiles : Has(f)

IdentityInit ==
  /\ disk = [f \in Files |-> Nothing] /\ progress = "down" /\ boot = 0 /\ sent = Nothing
  /\ enrolled = {} /\ identity = [f \in IdentityFiles |-> Nothing] /\ idFaults = 0

IdFault == idFaults < MaxIdFaults /\ idFaults' = idFaults + 1

-----------------------------------------------------------------------------

Boots ==
  /\ progress = "down" /\ boot < MaxBoots
  /\ boot' = boot + 1 /\ progress' = "start" /\ sent' = Nothing
  /\ UNCHANGED <<disk, enrolled, identity, idFaults>>

\* The process ends at any point, by an error it returns or by a crash. (A file is written
\* under another name first and renamed, so that it is there as a whole or not at all.)
Ends ==
  /\ progress # "down" /\ IdFault /\ progress' = "down"
  /\ identity' = [f \in IdentityFiles |-> Nothing]
  /\ UNCHANGED <<disk, boot, sent, enrolled>>

StartAfresh ==   \* mutant: a WireGuard key that is there is replaced
  /\ progress = "start" /\ progress' = IF HasIdentity THEN "load" ELSE "newPriv"
  /\ UNCHANGED <<disk, boot, sent, enrolled, identity, idFaults>>

\* Enroll skips a node that has an identity and else sees to its WireGuard key: a public
\* key that is missing is computed again from the private one.
Start ==
  /\ progress = "start"
  /\ progress' = CASE HasIdentity -> "load"
             [] ~HasIdentity /\ Has("priv") /\ Has("pub") -> "keyed"
             [] ~HasIdentity /\ Has("priv") /\ ~Has("pub") -> "newPub"
             [] OTHER -> "newPriv"
  /\ UNCHANGED <<disk, boot, sent, enrolled, identity, idFaults>>

\* EnsureWGKey writes the private key, then the public one.
EnsureWGKey ==
  /\ \/ progress = "newPriv" /\ disk' = [disk EXCEPT !["priv"] = boot] /\ progress' = "newPub"
     \/ progress = "newPub" /\ disk' = [disk EXCEPT !["pub"] = disk["priv"]] /\ progress' = "keyed"
  /\ UNCHANGED <<boot, sent, enrolled, identity, idFaults>>

\* A node that cannot write its WireGuard key enrolls without one.
WGPublicKey ==
  /\ \/ progress = "keyed" /\ sent' = disk["pub"] /\ UNCHANGED idFaults
     \/ progress \in {"newPriv", "newPub"} /\ IdFault /\ UNCHANGED sent
  /\ progress' = "request" /\ UNCHANGED <<disk, boot, enrolled, identity>>

\* The enrollment is granted; the answer carries the certificate of the key of this start.
RequestIdentity ==
  /\ progress = "request" /\ Cardinality(enrolled) < KeyUses
  /\ enrolled' = enrolled \union {[boot |-> boot, wg |-> sent]}
  /\ progress' = "answered"
  /\ UNCHANGED <<disk, boot, sent, identity, idFaults>>

\* The key is used up, or the controller is not reached: the program ends.
RequestRefused ==
  /\ progress = "request" /\ progress' = "down"
  /\ \/ Cardinality(enrolled) >= KeyUses /\ UNCHANGED idFaults
     \/ IdFault
  /\ UNCHANGED <<disk, boot, sent, enrolled, identity>>

\* The answer is checked before anything of it is kept.
CheckAnswer ==
  /\ progress = "answered" /\ progress' = "cert"
  /\ UNCHANGED <<disk, boot, sent, enrolled, identity, idFaults>>

SaveMissing ==   \* mutant: a file that is there is kept
  /\ progress \in IdentityFiles /\ progress' = After[progress]
  /\ disk' = IF Has(progress) THEN disk ELSE [disk EXCEPT ![progress] = boot]
  /\ UNCHANGED <<boot, sent, enrolled, identity, idFaults>>
SaveIdentity ==
  /\ progress \in IdentityFiles /\ disk' = [disk EXCEPT ![progress] = boot] /\ progress' = After[progress]
  /\ UNCHANGED <<boot, sent, enrolled, identity, idFaults>>

LoadIdentity ==
  /\ progress = "load" /\ progress' = IF HasIdentity THEN "tls" ELSE "down"
  /\ identity' = IF HasIdentity THEN [f \in IdentityFiles |-> disk[f]] ELSE identity
  /\ UNCHANGED <<disk, boot, sent, enrolled, idFaults>>

\* The certificate and the key have to match.
buildMTLSFromIdentity ==
  /\ progress = "tls" /\ progress' = IF identity["cert"] = identity["key"] THEN "run" ELSE "down"
  /\ UNCHANGED <<disk, boot, sent, enrolled, identity, idFaults>>

IdentityStep ==
  \/ Boots \/ Start \/ EnsureWGKey \/ WGPublicKey \/ RequestIdentity \/ RequestRefused \/ CheckAnswer
  \/ SaveIdentity \/ LoadIdentity \/ buildMTLSFromIdentity

IdentityNext == IdentityStep \/ Ends

IdentitySpec == IdentityInit /\ [][IdentityNext]_identityVars

-----------------------------------------------------------------------------
(* Properties.                                                             *)

\* The files HasIdentity asks for are of one enrollment, however many were cut short
\* before: a certificate is never kept beside the key of another, which would end every
\* later start (keystore.go:150-185).  And the WireGuard key the controller was told is the
\* one on the disk, once and for all (keystore.go:66-113).
IdentityWhole ==
  /\ HasIdentity => \A f, g \in IdentityFiles : disk[f] = disk[g]
  /\ \A e \in enrolled : e.wg # Nothing => disk["priv"] = e.wg /\ disk["pub"] = e.wg
=============================================================================

------------------------- MODULE ControllerProgram --------------------------
(***************************************************************************)
(* The controller as a process that may be stopped anywhere:               *)
(*   cmd/corelink-controller/main.go   runServe, buildController, serve,   *)
(*                                     resolveEncKey                       *)
(*   cmd/corelink-controller/admin.go  resolveAdminPassHash                *)
(*   internal/controller/ca            EnsureCA, CurrentCRL                *)
(*   internal/controller/server        BuildServerCert, CRLCache, the      *)
(*                                     interceptors and the middleware     *)
(* A generated secret, or CA, is a fresh number. Time is a counter.        *)
(***************************************************************************)
EXTENDS Integers

CONSTANTS
  Peer,         \* client certificates, all issued by the first CA
  CrlTtl,       \* 30 s
  CertLife,     \* life of a server certificate, 365 days
  CertSpare,    \* what must be left of a cached one, 30 days
  MaxTime,      \* bound: the clock
  MaxStarts     \* bound: starts of the process

ASSUME ProgAssumption ==
  /\ CrlTtl \in Nat \ {0} /\ CertLife \in Nat /\ CertSpare \in Nat
  /\ MaxTime \in Nat \ {0} /\ MaxStarts \in Nat

VARIABLES
  secret,     \* row ca_enc_key of the secrets, 0 if there is none
  root,       \* table ca_roots: the CA and the secret its key is encrypted with
  certFile,   \* server-cert.pem: the CA that issued it and its end
  password,   \* the administrator's: none, stored, or shown on the terminal
  stage,      \* how far the process has come
  memory,     \* its CA, the CA of its server certificate, the secret it resolved
  pinned,     \* CAs that enrolled nodes trust
  now, starts,
  revokedAt,  \* when a certificate was revoked, 0 if it was not
  cache,      \* CRLCache: its value and the time it was read
  refresh,    \* the refresh under the cache's mutex
  admitted    \* history: when a request of each certificate was last let through

progVars == <<secret, root, certFile, password, stage, memory, pinned, now, starts,
              revokedAt, cache, refresh, admitted>>

durableVars == <<secret, root, certFile, password>>
bootVars == <<durableVars, stage, memory, pinned, starts>>
crlVars == <<revokedAt, cache, refresh, admitted>>

NoRoot == [ca |-> 0, secret |-> 0]
NoCert == [ca |-> 0, until |-> 0]
NoCache == [revoked |-> {}, at |-> 0, has |-> FALSE]
NoRefresh == [by |-> {}, began |-> 0]
NoMemory == [ca |-> 0, chain |-> 0, secret |-> 0]

ProgInit ==
  /\ secret = 0 /\ root = NoRoot /\ certFile = NoCert /\ password = "none"
  /\ stage = "down" /\ memory = NoMemory /\ pinned = {}
  /\ now = 1 /\ starts = 0
  /\ revokedAt = [p \in Peer |-> 0]
  /\ cache = NoCache /\ refresh = NoRefresh
  /\ admitted = [p \in Peer |-> 0]

ProgTypeOK ==
  /\ secret \in 0..MaxStarts /\ root.ca \in 0..MaxStarts /\ root.secret \in 0..MaxStarts
  /\ password \in {"none", "stored", "shown"}
  /\ stage \in {"down", "secret", "root", "cert", "password", "print", "serving", "refused"}
  /\ now \in 1..MaxTime /\ admitted \in [Peer -> 0..MaxTime]
  /\ cache.at \in 0..now /\ refresh.by \subseteq Peer

-----------------------------------------------------------------------------
(* buildController, one durable write at a time; the number of the start   *)
(* names what it generates.                                                *)
Start ==
  /\ stage = "down" /\ starts < MaxStarts
  /\ starts' = starts + 1
  /\ stage' = "secret"
  /\ UNCHANGED <<durableVars, memory, pinned, now, crlVars>>

\* Mutated form: a generated secret is kept in memory only.
resolveEncKeyUnsaved ==
  /\ stage = "secret"
  /\ memory' = [memory EXCEPT !.secret = IF secret = 0 THEN starts ELSE secret]
  /\ stage' = "root"
  /\ UNCHANGED <<durableVars, pinned, starts, now, crlVars>>

resolveEncKey ==
  /\ stage = "secret"
  /\ secret' = IF secret = 0 THEN starts ELSE secret
  /\ memory' = [memory EXCEPT !.secret = secret']
  /\ stage' = "root"
  /\ UNCHANGED <<root, certFile, password, pinned, starts, now, crlVars>>

\* Mutated form: the root is made anew, the file is not.
EnsureCAAnew ==
  /\ stage = "root"
  /\ root' = [ca |-> starts, secret |-> memory.secret]
  /\ memory' = [memory EXCEPT !.ca = root'.ca]
  /\ stage' = "cert"
  /\ UNCHANGED <<secret, certFile, password, pinned, starts, now, crlVars>>

(* EnsureCA: a CA that cannot be decrypted ends the process.               *)
EnsureCA ==
  /\ stage = "root"
  /\ root' = IF root = NoRoot THEN [ca |-> starts, secret |-> memory.secret] ELSE root
  /\ memory' = [memory EXCEPT !.ca = root'.ca]
  /\ stage' = IF root'.secret = memory.secret THEN "cert" ELSE "refused"
  /\ UNCHANGED <<secret, certFile, password, pinned, starts, now, crlVars>>

(* BuildServerCert: the cached certificate is not compared with the CA.    *)
Reusable == certFile.until - now > CertSpare

BuildServerCert ==
  /\ stage = "cert"
  /\ \/ /\ Reusable
        /\ UNCHANGED certFile
        /\ memory' = [memory EXCEPT !.chain = certFile.ca]
     \/ /\ ~Reusable
        /\ certFile' \in {certFile, [ca |-> memory.ca, until |-> now + CertLife]}
        /\ memory' = [memory EXCEPT !.chain = memory.ca]
  /\ stage' = "password"
  /\ UNCHANGED <<secret, root, password, pinned, starts, now, crlVars>>

(* resolveAdminPassHash stores a generated password before it prints it:   *)
(* a process that ends in between has told nobody.                         *)
resolveAdminPassHash ==
  /\ stage = "password"
  /\ IF password = "none" THEN password' = "stored" /\ stage' = "print"
     ELSE stage' = "serving" /\ UNCHANGED password
  /\ cache' = NoCache
  /\ UNCHANGED <<secret, root, certFile, memory, pinned, starts, now, revokedAt, refresh, admitted>>

PrintPassword ==
  /\ stage = "print"
  /\ password' = "shown"
  /\ stage' = "serving"
  /\ UNCHANGED <<secret, root, certFile, memory, pinned, starts, now, crlVars>>

(* A signal, or a crash, at any point; the memory is gone. On a signal     *)
(* serve stops in this order: the ticker and the locator, Notify, gRPC,    *)
(* HTTP (for ten seconds), STUN, the local socket, the database.           *)
Ends ==
  /\ stage # "down"
  /\ stage' = "down"
  /\ memory' = NoMemory
  /\ refresh' = NoRefresh
  /\ UNCHANGED <<durableVars, pinned, starts, now, revokedAt, cache, admitted>>

(* A node enrolls and keeps the certificate of the CA.                     *)
NodeEnrolls ==
  /\ stage = "serving"
  /\ pinned' = pinned \cup {memory.ca}
  /\ UNCHANGED <<durableVars, stage, memory, starts, now, crlVars>>

-----------------------------------------------------------------------------
(* Revocation is a write to the database, by the administration API of     *)
(* this process or by the command line of another.                         *)
Revoke(p) ==
  /\ revokedAt[p] = 0
  /\ revokedAt' = [revokedAt EXCEPT ![p] = now]
  /\ UNCHANGED <<bootVars, now, cache, refresh, admitted>>

Lets(p) == admitted' = [admitted EXCEPT ![p] = now]

(* A request takes the CRL from the cache, under the mutex; an expired one *)
(* is read anew, and its age counts from before it is read.                *)
\* Mutated form: an entry stays fresh for one unit too long.
FreshLate == cache.has /\ now - cache.at <= CrlTtl

Fresh == cache.has /\ now - cache.at < CrlTtl

RequestCached(p) ==
  /\ stage = "serving" /\ refresh.by = {} /\ Fresh
  /\ p \notin cache.revoked
  /\ Lets(p)
  /\ UNCHANGED <<bootVars, now, revokedAt, cache, refresh>>

BeginRefresh(p) ==
  /\ stage = "serving" /\ refresh.by = {} /\ ~Fresh
  /\ refresh' = [by |-> {p}, began |-> now]
  /\ UNCHANGED <<bootVars, now, revokedAt, cache, admitted>>

Revoked == {p \in Peer : revokedAt[p] # 0}

(* The source is read, and the request that refreshed is judged by it. A   *)
(* source that fails refuses the request and leaves the cache as it was.   *)
EndRefresh(p) ==
  /\ p \in refresh.by
  /\ refresh' = NoRefresh
  /\ \/ /\ cache' = [revoked |-> Revoked, at |-> refresh.began, has |-> TRUE]
        /\ IF p \in Revoked THEN UNCHANGED admitted ELSE Lets(p)
     \/ UNCHANGED <<cache, admitted>>
  /\ UNCHANGED <<bootVars, now, revokedAt>>

-----------------------------------------------------------------------------
ClockTick ==
  /\ now < MaxTime
  /\ now' = now + 1
  /\ UNCHANGED <<bootVars, crlVars>>

ProgNext ==
  \/ Start \/ resolveEncKey \/ EnsureCA \/ BuildServerCert \/ resolveAdminPassHash \/ PrintPassword
  \/ Ends
  \/ NodeEnrolls \/ ClockTick
  \/ \E p \in Peer : Revoke(p) \/ RequestCached(p) \/ BeginRefresh(p) \/ EndRefresh(p)

ProgSpec == ProgInit /\ [][ProgNext]_progVars

-----------------------------------------------------------------------------
\* Whatever point the process is stopped at, the next start can decrypt the CA, and the
\* nodes that have enrolled meet a server whose certificate their CA has issued
\* (main.go:836 resolveEncKey, ca/manager.go EnsureCA, server.go:41 BuildServerCert).
OneRoot ==
  /\ stage # "refused"
  /\ stage = "serving" => pinned \subseteq {memory.ca} /\ memory.chain = memory.ca

\* A revoked certificate is let through for less than CrlTtl after its revocation, however
\* long reading the list takes and whatever requests meet in the cache (crlcache.go).
RevokedShutOut ==
  \A p \in Peer : revokedAt[p] # 0 => admitted[p] < revokedAt[p] + CrlTtl
=============================================================================

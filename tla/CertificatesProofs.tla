-------------------------- MODULE CertificatesProofs --------------------------
(* Proofs about Certificates, for any number of handshakes, kills and time *)
(* steps.                                                                  *)
EXTENDS Certificates, TLAPS

Making == {"openKey", "writeKey", "openCert", "writeCert"}

(* CAs are made by a process that has not ended yet. *)
Count == made <= kills + (IF boot \in {"down", "load"} THEN 0 ELSE 1)

(* What is in memory, by main's place. *)
Memory ==
  /\ boot \in {"down", "load"} => caKey = None /\ caCert = None
  /\ boot \in Making => caKey = made /\ caCert = made /\ made \in CAs
  /\ boot \in {"install", "run"} =>
       /\ caCert # None => caCert = certFile
       /\ caKey # None => caKey = keyFile /\ certFile \in CAs

(* The files: the certificate is begun when the key is complete, and never *)
(* written again.                                                          *)
OnDisk ==
  /\ boot \in {"openKey", "writeKey", "openCert"} => certFile = Absent
  /\ boot \in {"openCert", "writeCert"} => keyFile = caKey
  /\ boot = "writeCert" => certFile = Torn
  /\ certFile # Absent => keyFile \in CAs
  /\ certFile \in CAs => keyFile = certFile
  /\ boot \in {"install", "run"} => certFile # Absent

(* The trust store holds what the certificate's file holds. *)
InStore == store # None /\ ~lost => certFile = store

(* Why the pair matches and the trusted CA signs. *)
CertInv == TypeOK /\ Count /\ Memory /\ OnDisk /\ InStore

USE CertificatesAssumption DEF CAs, None, Absent, Torn

LEMMA InitCert == Init => CertInv
<1> SUFFICES ASSUME Init PROVE CertInv
  OBVIOUS
<1>1. TypeOK
  <2>1. shake \in [Handshakes ->
            [at : {"hello", "dial", "fetch", "forge", "cached", "signed", "failed"},
             cert : 0..MaxTime + 1, open : BOOLEAN]]
    BY DEF Init, NoShake
  <2>2. upstream \in 1..MaxTime + 1 /\ time \in 0..MaxTime /\ cache \in 0..MaxTime + 1
    BY DEF Init
  <2>3. /\ keyFile \in CAs \cup {Absent, Torn} /\ certFile \in CAs \cup {Absent, Torn}
        /\ store \in CAs \cup {None}
        /\ caKey \in CAs \cup {None} /\ caCert \in CAs \cup {None}
        /\ made \in 0..MaxKills + 1 /\ kills \in 0..MaxKills
    BY DEF Init
  <2>4. lost \in BOOLEAN /\ boot = "load"
    BY DEF Init
  <2> QED
    BY <2>1, <2>2, <2>3, <2>4 DEF TypeOK
<1>2. Count /\ Memory /\ OnDisk /\ InStore
  BY DEF Init, Count, Memory, OnDisk, InStore, Making
<1> QED
  BY <1>1, <1>2 DEF CertInv

USE DEF files, ca, clock

(* Start-up touches neither the clock nor the handshakes. *)
LEMMA BootCert == CertInv /\ Boot => CertInv'
<1> SUFFICES ASSUME CertInv, Boot PROVE CertInv'
  OBVIOUS
<1>0. TypeOK /\ Count /\ Memory /\ OnDisk /\ InStore
  BY DEF CertInv
<1>1. UNCHANGED <<lost, kills, time, upstream, cache, shake>>
  BY DEF Boot, BootGoes, LoadCA, GenerateCA, OpenKey, WriteKey, OpenCert, WriteCert, Install
<1>3. (/\ lost \in BOOLEAN /\ kills \in 0..MaxKills /\ time \in 0..MaxTime
       /\ upstream \in 1..MaxTime + 1 /\ cache \in 0..MaxTime + 1
       /\ shake \in [Handshakes ->
            [at : {"hello", "dial", "fetch", "forge", "cached", "signed", "failed"},
             cert : 0..MaxTime + 1, open : BOOLEAN]])'
  BY <1>0, <1>1 DEF TypeOK
<1> DEFINE
  Types == /\ keyFile \in CAs \cup {Absent, Torn} /\ certFile \in CAs \cup {Absent, Torn}
           /\ store \in CAs \cup {None}
           /\ caKey \in CAs \cup {None} /\ caCert \in CAs \cup {None}
           /\ boot \in {"down", "load", "openKey", "writeKey", "openCert", "writeCert", "install", "run"}
           /\ made \in 0..MaxKills + 1
<1>4. Types /\ kills \in 0..MaxKills
  BY <1>0 DEF TypeOK
<1> SUFFICES (Types /\ Count /\ Memory /\ OnDisk /\ InStore)'
  BY <1>3 DEF CertInv, TypeOK
<1>5. CASE LoadCA
  BY <1>0, <1>4, <1>5 DEF LoadCA, BootGoes, Count, Memory, OnDisk, InStore, Making
<1>6. CASE GenerateCA
  BY <1>0, <1>4, <1>6 DEF GenerateCA, BootGoes, Count, Memory, OnDisk, InStore, Making
<1>7. CASE OpenKey
  BY <1>0, <1>4, <1>7 DEF OpenKey, BootGoes, Count, Memory, OnDisk, InStore, Making
<1>8. CASE WriteKey
  BY <1>0, <1>4, <1>8 DEF WriteKey, BootGoes, Count, Memory, OnDisk, InStore, Making
<1>9. CASE OpenCert
  BY <1>0, <1>4, <1>9 DEF OpenCert, BootGoes, Count, Memory, OnDisk, InStore, Making
<1>10. CASE WriteCert
  BY <1>0, <1>4, <1>10 DEF WriteCert, BootGoes, Count, Memory, OnDisk, InStore, Making
<1>11. CASE Install
  BY <1>0, <1>4, <1>11 DEF Install, BootGoes, Count, Memory, OnDisk, InStore, Making
<1> QED
  BY <1>5, <1>6, <1>7, <1>8, <1>9, <1>10, <1>11 DEF Boot

(* An end of the process, at any point. *)
LEMMA EndsCert == CertInv /\ kills < MaxKills /\ Ends => CertInv'
<1> SUFFICES ASSUME CertInv, kills < MaxKills, Ends PROVE CertInv'
  OBVIOUS
<1>1. TypeOK'
  BY DEF CertInv, TypeOK, Ends, NoShake
<1>2. (Count /\ Memory /\ OnDisk /\ InStore)'
  BY DEF CertInv, TypeOK, Ends, Count, Memory, OnDisk, InStore, Making
<1> QED
  BY <1>1, <1>2 DEF CertInv

(* A handshake changes its own place and the cache. *)
LEMMA HandshakeCert ==
  ASSUME CertInv, NEW h \in Handshakes, Handshake(h) PROVE CertInv'
<1>1. CASE ForgePanics(h)
  BY <1>1, EndsCert DEF ForgePanics
<1>2. CASE Lookup(h) \/ Dial(h) \/ DialFails(h) \/ Fetch(h) \/ FetchFails(h) \/ Forge(h) \/ Again(h)
  <2> DEFINE
    Ats == {"hello", "dial", "fetch", "forge", "cached", "signed", "failed"}
    Certs == 0..MaxTime + 1
  <2>1. UNCHANGED <<keyFile, certFile, store, lost, boot, caKey, caCert, made, kills, time,
                    upstream>>
    BY <1>2 DEF Lookup, Dial, DialFails, Fetch, FetchFails, Forge, Again, Shakes
  <2>2. (Count /\ Memory /\ OnDisk /\ InStore)'
    BY <2>1 DEF CertInv, Count, Memory, OnDisk, InStore
  <2>3. shake[h].cert \in Certs /\ cache \in Certs /\ upstream \in Certs
    BY DEF CertInv, TypeOK
  <2>4. shake \in [Handshakes -> [at : Ats, cert : Certs, open : BOOLEAN]]
    BY DEF CertInv, TypeOK
  <2>5. shake' \in [Handshakes -> [at : Ats, cert : Certs, open : BOOLEAN]] /\ cache' \in Certs
    <3>1. CASE Lookup(h)
      <4>1. CASE GetTls
        <5>1. shake' = [shake EXCEPT ![h] = [at |-> "cached", cert |-> cache, open |-> FALSE]]
              /\ cache' = cache
          BY <3>1, <4>1, Zenon DEF Lookup, Shakes
        <5> QED
          BY <2>3, <2>4, <5>1
      <4>2. CASE ~GetTls
        <5>1. shake' = [shake EXCEPT ![h] = [at |-> "dial", cert |-> None, open |-> FALSE]]
              /\ cache' = cache
          BY <3>1, <4>2, Zenon DEF Lookup, Shakes
        <5> QED
          BY <2>3, <2>4, <5>1
      <4> QED
        BY <4>1, <4>2
    <3>2. CASE Dial(h)
      BY <2>3, <2>4, <3>2 DEF Dial, Shakes
    <3>3. CASE DialFails(h)
      BY <2>3, <2>4, <3>3 DEF DialFails, Shakes
    <3>6. CASE Fetch(h)
      BY <2>3, <2>4, <3>6 DEF Fetch, Shakes
    <3>7. CASE FetchFails(h)
      BY <2>3, <2>4, <3>7 DEF FetchFails, Shakes
    <3>4. CASE Forge(h)
      BY <2>3, <2>4, <3>4 DEF Forge, Shakes
    <3>5. CASE Again(h)
      BY <2>3, <2>4, <3>5 DEF Again, Shakes
    <3> QED
      BY <1>2, <3>1, <3>2, <3>3, <3>4, <3>5, <3>6, <3>7
  <2>6. TypeOK'
    BY <2>1, <2>5 DEF CertInv, TypeOK
  <2> QED
    BY <2>2, <2>6 DEF CertInv
<1> QED
  BY <1>1, <1>2 DEF Handshake

(* Start-up, service, ends and restarts: an invariant of them all.         *)
THEOREM CertificatesInvariant == Spec => []CertInv
<1>1. CertInv /\ [Next]_vars => CertInv'
  <2> SUFFICES ASSUME CertInv, [Next]_vars PROVE CertInv'
    OBVIOUS
  <2>1. CASE Boot
    BY <2>1, BootCert
  <2>2. CASE Kill
    BY <2>2, EndsCert DEF Kill
  <2>3. CASE Restart
    BY <2>3 DEF Restart, BootGoes, CertInv, TypeOK, Count, Memory, OnDisk, InStore, Making
  <2>4. CASE LoseFolder
    BY <2>4 DEF LoseFolder, CertInv, TypeOK, Count, Memory, OnDisk, InStore, Making
  <2>5. CASE \E h \in Handshakes : Handshake(h)
    BY <2>5, HandshakeCert
  <2>6. CASE Tick \/ Renew
    BY <2>6 DEF Tick, Renew, CertInv, TypeOK, Count, Memory, OnDisk, InStore, Making
  <2>7. CASE Bounded \/ UNCHANGED vars
    BY <2>7 DEF Bounded, vars, CertInv, TypeOK, Count, Memory, OnDisk, InStore, Making
  <2> QED
    BY <2>1, <2>2, <2>3, <2>4, <2>5, <2>6, <2>7 DEF Next
<1> QED
  BY <1>1, InitCert, PTL DEF Spec

(* Files, memory and handshakes have their types.                          *)
THEOREM CertificatesTypes == Spec => []TypeOK
BY CertificatesInvariant, PTL DEF CertInv

(* The key in memory is the one of the CA certificate, after any number of *)
(* kills: the two files are never of two CAs (checkRotSrtGen, generateCA). *)
THEOREM KeyMatches == Spec => []PairMatches
<1>1. CertInv => PairMatches
  BY DEF CertInv, TypeOK, PairMatches, Memory, OnDisk, Making
<1> QED
  BY <1>1, CertificatesInvariant, PTL

(* While the folder is there, a CA in the trust store is the one that      *)
(* signs (InstallCertToSystem).                                            *)
THEOREM TrustedCASigns == Spec => []TrustedSigns
<1>1. CertInv => TrustedSigns
  BY DEF CertInv, TrustedSigns, Memory, InStore
<1> QED
  BY <1>1, CertificatesInvariant, PTL

(* What every process that serves holds: the certificate as far as the     *)
(* file has one, and then the key.                                         *)
Served == boot \in {"install", "run"} /\ certFile \in CAs => caKey # None /\ caCert # None

LEMMA ServedStep == CertInv /\ Served /\ [Next]_vars => Served'
<1> SUFFICES ASSUME CertInv, Served, [Next]_vars PROVE Served'
  OBVIOUS
<1>0. TypeOK /\ Memory /\ OnDisk
  BY DEF CertInv
<1>1. CASE Boot
  <2>1. CASE LoadCA
    BY <1>0, <2>1 DEF LoadCA, BootGoes, OnDisk, Served
  <2>2. CASE GenerateCA \/ OpenKey \/ WriteKey \/ OpenCert
    BY <2>2 DEF GenerateCA, OpenKey, WriteKey, OpenCert, BootGoes, Served
  <2>3. CASE WriteCert
    BY <1>0, <2>3 DEF WriteCert, BootGoes, Memory, Making, Served
  <2>4. CASE Install
    BY <2>4 DEF Install, BootGoes, Served
  <2> QED
    BY <1>1, <2>1, <2>2, <2>3, <2>4 DEF Boot
<1>2. CASE Kill \/ Restart \/ LoseFolder
  BY <1>2 DEF Kill, Ends, Restart, LoseFolder, BootGoes, Served
<1>3. CASE \E h \in Handshakes : Handshake(h)
  BY <1>3 DEF Handshake, Lookup, Dial, DialFails, Fetch, FetchFails, Forge,
    Again, Shakes, ForgePanics, Ends, Served
<1>4. CASE Tick \/ Renew \/ Bounded \/ UNCHANGED vars
  BY <1>4 DEF Tick, Renew, Bounded, vars, Served
<1> QED
  BY <1>1, <1>2, <1>3, <1>4 DEF Next

(* Only a kill between the two writes of the certificate's file leaves a   *)
(* program without a CA (checkRotSrtGen, loadCA).                          *)
THEOREM OnlyBrokenIsUnusable == Spec => []UsableUnlessBroken
<1>1. Init => Served
  BY DEF Init, Served
<1>2. CertInv /\ Served => UsableUnlessBroken
  BY DEF CertInv, TypeOK, OnDisk, Served, Broken, UsableUnlessBroken
<1> QED
  BY <1>1, <1>2, ServedStep, CertificatesInvariant, PTL DEF Spec

(* What a step does to the two files. *)
LEMMA FilesStep ==
  ASSUME CertInv, Next
  PROVE  \/ UNCHANGED <<keyFile, certFile>>
         \/ lost' # lost
         \/ certFile = Absent /\ certFile' \in {Absent, Torn}
         \/ boot = "writeCert" /\ certFile = Torn
<1>0. TypeOK /\ OnDisk
  BY DEF CertInv
<1>1. CASE Boot
  BY <1>0, <1>1 DEF OnDisk, Boot, BootGoes, LoadCA, GenerateCA, OpenKey, WriteKey, OpenCert,
    WriteCert, Install
<1>2. CASE Kill \/ Restart \/ LoseFolder
  BY <1>0, <1>2 DEF TypeOK, Kill, Ends, Restart, LoseFolder
<1>3. CASE \E h \in Handshakes : Handshake(h)
  BY <1>3 DEF Handshake, Lookup, Dial, DialFails, Fetch, FetchFails, Forge,
    Again, Shakes, ForgePanics, Ends
<1>4. CASE Tick \/ Renew \/ Bounded
  BY <1>4 DEF Tick, Renew, Bounded, vars
<1> QED
  BY <1>1, <1>2, <1>3, <1>4 DEF Next

(* No start replaces a CA that is there (checkRotSrtGen).                  *)
THEOREM CAKept == Spec => IdentityKept
<1>1. CertInv /\ [Next]_vars =>
        [(certFile \in CAs) => (certFile' = certFile /\ keyFile' = keyFile) \/ lost' # lost]_vars
  BY FilesStep
<1> QED
  BY <1>1, CertificatesInvariant, PTL DEF Spec, IdentityKept

(* Nor does one repair a torn certificate (loadCA).                        *)
THEOREM NoRepair == Spec => BrokenStays
<1>1. CertInv /\ [Next]_vars => [Broken => Broken' \/ lost' # lost]_vars
  <2> SUFFICES ASSUME CertInv, Next, Broken, lost' = lost PROVE Broken'
    OBVIOUS
  <2>1. certFile' = Torn
    BY FilesStep DEF Broken
  <2>2. boot' # "writeCert"
    <3>1. CASE Boot
      BY <3>1 DEF Broken, CertInv, OnDisk, Boot, BootGoes, LoadCA, GenerateCA,
        OpenKey, WriteKey, OpenCert, WriteCert, Install
    <3>2. CASE Kill \/ Restart \/ LoseFolder
      BY <3>2 DEF Broken, Kill, Ends, Restart, LoseFolder, BootGoes
    <3>3. CASE \E h \in Handshakes : Handshake(h)
      BY <3>3 DEF Broken, Handshake, Lookup, Dial, DialFails, Fetch, FetchFails, Forge,
    Again, Shakes, ForgePanics, Ends
    <3>4. CASE Tick \/ Renew \/ Bounded
      BY <3>4 DEF Broken, Tick, Renew, Bounded, vars
    <3> QED
      BY <3>1, <3>2, <3>3, <3>4 DEF Next
  <2> QED
    BY <2>1, <2>2 DEF Broken
<1> QED
  BY <1>1, CertificatesInvariant, PTL DEF Spec, BrokenStays

=============================================================================

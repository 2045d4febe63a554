----------------------------- MODULE Certificates -----------------------------
(***************************************************************************)
(* The proxy's own CA and the certificates it signs. At start-up the CA is *)
(* loaded from two files or made anew, written to them one after the other *)
(* and put into the user's trust store; the process may be killed at any   *)
(* point. certHandler then signs a certificate per host, after the         *)
(* target's, and keeps it until it expires.                                *)
(***************************************************************************)
EXTENDS Integers

CONSTANTS
  Handshakes,  \* handshakes with clients, all for one host
  MaxKills,    \* bound of the model: how often the process ends
  MaxTime      \* bound of the model

ASSUME CertificatesAssumption == MaxKills \in Nat /\ MaxTime \in Nat \ {0}

(* CAs are numbered as they are made; contents of a file, nil pointers and *)
(* an empty store are no CAs.                                              *)
CAs == 1..MaxKills + 1
None == 0
Absent == -1
Torn == -2   \* a file without a complete PEM block

VARIABLES
  keyFile, certFile,  \* rootCA.key and rootCA.crt
  store,              \* the CA of that name in the trust store
  lost,               \* the folder certs was deleted once
  boot,               \* main's place
  caKey, caCert,      \* the process's caCert
  made,               \* CAs made so far
  kills,
  time,
  upstream,           \* NotAfter of the target's certificate
  cache,              \* NotAfter of the cached certificate, None without one
  shake               \* each handshake's place, certificate and connection to the host

files == <<keyFile, certFile>>
ca == <<caKey, caCert>>
clock == <<time, upstream>>
vars == <<keyFile, certFile, store, lost, boot, caKey, caCert, made, kills,
          time, upstream, cache, shake>>

NoShake == [at |-> "hello", cert |-> None, open |-> FALSE]

Init ==
  /\ keyFile = Absent /\ certFile = Absent
  /\ store = None
  /\ lost = FALSE
  /\ boot = "load"
  /\ caKey = None /\ caCert = None
  /\ made = 0 /\ kills = 0
  /\ time = 0 /\ upstream \in 1..MaxTime
  /\ cache = None
  /\ shake = [h \in Handshakes |-> NoShake]

-----------------------------------------------------------------------------
(* Start-up: checkRotSrtGen and InstallCertToSystem. *)
BootGoes(from, to) ==
  /\ boot = from
  /\ boot' = to
  /\ UNCHANGED <<lost, kills, clock, cache, shake>>

(* Mutant of LoadCA: what does not parse is kept. *)
LoadCALenient ==
  /\ keyFile # Absent /\ certFile # Absent
  /\ BootGoes("load", "install")
  /\ caCert' = certFile /\ caKey' = keyFile
  /\ UNCHANGED <<files, store, made>>

(* loadCA: the certificate is parsed before the key, and both are kept up  *)
(* to the first that does not parse. An error is printed, no more.         *)
LoadCA ==
  /\ keyFile # Absent /\ certFile # Absent
  /\ BootGoes("load", "install")
  /\ caCert' = IF certFile \in CAs THEN certFile ELSE None
  /\ caKey' = IF certFile \in CAs /\ keyFile \in CAs THEN keyFile ELSE None
  /\ UNCHANGED <<files, store, made>>

(* Mutant of GenerateCA: the new CA is trusted before it is written.       *)
GenerateTrusted ==
  /\ keyFile = Absent \/ certFile = Absent
  /\ BootGoes("load", "openKey")
  /\ made' = made + 1
  /\ caKey' = made' /\ caCert' = made'
  /\ store' = IF store = None THEN made' ELSE store
  /\ UNCHANGED files

GenerateCA ==
  /\ keyFile = Absent \/ certFile = Absent
  /\ BootGoes("load", "openKey")
  /\ made' = made + 1
  /\ caKey' = made' /\ caCert' = made'
  /\ UNCHANGED <<files, store>>

(* Mutant of OpenKey: O_EXCL, and the error ignored as it is.              *)
OpenKeyOnce ==
  /\ BootGoes("openKey", IF keyFile = Absent THEN "writeKey" ELSE "openCert")
  /\ keyFile' = IF keyFile = Absent THEN Torn ELSE keyFile
  /\ UNCHANGED <<certFile, store, ca, made>>

(* O_TRUNC *)
OpenKey ==
  /\ BootGoes("openKey", "writeKey")
  /\ keyFile' = Torn
  /\ UNCHANGED <<certFile, store, ca, made>>

WriteKey ==
  /\ BootGoes("writeKey", "openCert")
  /\ keyFile' = caKey
  /\ UNCHANGED <<certFile, store, ca, made>>

OpenCert ==
  /\ BootGoes("openCert", "writeCert")
  /\ certFile' = Torn
  /\ UNCHANGED <<keyFile, store, ca, made>>

WriteCert ==
  /\ BootGoes("writeCert", "install")
  /\ certFile' = caCert
  /\ UNCHANGED <<keyFile, store, ca, made>>

(* certutil finds a CA by its name, whichever it is; only without one the  *)
(* file is added, if it holds a certificate and the user agrees.           *)
Install ==
  /\ BootGoes("install", "run")
  /\ store' \in (IF store = None /\ certFile \in CAs THEN {None, certFile} ELSE {store})
  /\ UNCHANGED <<files, ca, made>>

-----------------------------------------------------------------------------
(* The process ends: memory is gone, files and store stay. *)
Ends ==
  /\ boot' = "down"
  /\ caKey' = None /\ caCert' = None
  /\ cache' = None
  /\ shake' = [h \in Handshakes |-> NoShake]
  /\ kills' = kills + 1
  /\ UNCHANGED <<files, store, lost, made, clock>>

Kill == boot # "down" /\ kills < MaxKills /\ Ends

Restart ==
  /\ BootGoes("down", "load")
  /\ UNCHANGED <<files, store, ca, made>>

(* The folder of the program is deleted with certs in it, as build.bat     *)
(* does; the trust store keeps its CA.                                     *)
LoseFolder ==
  /\ boot = "down" /\ ~lost
  /\ lost' = TRUE
  /\ keyFile' = Absent /\ certFile' = Absent
  /\ UNCHANGED <<store, boot, ca, made, kills, clock, cache, shake>>

-----------------------------------------------------------------------------
(* certHandler, for one host. *)
Shakes(h, from, to, cert, open) ==
  /\ boot = "run" /\ shake[h].at = from
  /\ shake' = [shake EXCEPT ![h] = [at |-> to, cert |-> cert, open |-> open]]
  /\ UNCHANGED <<files, store, lost, boot, ca, made, kills, clock>>

GetTls == cache # None /\ cache > time

Lookup(h) ==
  /\ IF GetTls THEN Shakes(h, "hello", "cached", cache, FALSE)
               ELSE Shakes(h, "hello", "dial", None, FALSE)
  /\ UNCHANGED cache

Dial(h) == Shakes(h, "dial", "fetch", None, TRUE) /\ UNCHANGED cache

DialFails(h) == Shakes(h, "dial", "failed", None, FALSE) /\ UNCHANGED cache

(* The target's certificate, unverified and whatever its age. From here on *)
(* each return closes the connection.                                      *)
Fetch(h) == Shakes(h, "fetch", "forge", upstream, TRUE) /\ UNCHANGED cache

(* The host's handshake fails or shows no certificate: both returns stand  *)
(* before the deferred Close calls.                                        *)
FetchFails(h) == Shakes(h, "fetch", "failed", None, TRUE) /\ UNCHANGED cache

(* CreateCertificate refuses a key that is not the certificate's. Nobody   *)
(* looks whether another handshake has stored a certificate meanwhile.     *)
Forge(h) ==
  /\ caKey # None /\ caCert # None
  /\ LET signed == caKey = caCert
     IN  /\ Shakes(h, "forge", IF signed THEN "signed" ELSE "failed", shake[h].cert, FALSE)
         /\ cache' = IF signed THEN shake[h].cert ELSE cache

(* Without a CA a nil pointer ends the process. *)
ForgePanics(h) ==
  /\ boot = "run" /\ shake[h].at = "forge"
  /\ caKey = None \/ caCert = None
  /\ kills < MaxKills /\ Ends

(* The next connection. *)
Again(h) ==
  /\ \E at \in {"cached", "signed", "failed"} : Shakes(h, at, "hello", None, FALSE)
  /\ UNCHANGED cache

Tick ==
  /\ time < MaxTime
  /\ time' = time + 1
  /\ UNCHANGED <<files, store, lost, boot, ca, made, kills, upstream, cache, shake>>

(* The target renews its certificate. *)
Renew ==
  /\ upstream <= MaxTime
  /\ upstream' \in upstream + 1 .. MaxTime + 1
  /\ UNCHANGED <<files, store, lost, boot, ca, made, kills, time, cache, shake>>

-----------------------------------------------------------------------------
Boot == LoadCA \/ GenerateCA \/ OpenKey \/ WriteKey \/ OpenCert \/ WriteCert \/ Install
Handshake(h) ==
  \/ Lookup(h) \/ Dial(h) \/ DialFails(h) \/ Fetch(h) \/ FetchFails(h)
  \/ Forge(h) \/ ForgePanics(h) \/ Again(h)

(* The bound on kills stops a process that could only panic once more. *)
Bounded == kills = MaxKills /\ UNCHANGED vars

Next == Boot \/ Kill \/ Restart \/ LoseFolder \/ (\E h \in Handshakes : Handshake(h))
        \/ Tick \/ Renew \/ Bounded

Spec == Init /\ [][Next]_vars

-----------------------------------------------------------------------------
(* Types of files, memory and handshakes. *)
TypeOK ==
  /\ keyFile \in CAs \cup {Absent, Torn} /\ certFile \in CAs \cup {Absent, Torn}
  /\ store \in CAs \cup {None}
  /\ caKey \in CAs \cup {None} /\ caCert \in CAs \cup {None}
  /\ boot \in {"down", "load", "openKey", "writeKey", "openCert", "writeCert", "install", "run"}
  /\ made \in 0..MaxKills + 1 /\ kills \in 0..MaxKills
  /\ lost \in BOOLEAN
  /\ time \in 0..MaxTime /\ upstream \in 1..MaxTime + 1
  /\ cache \in 0..MaxTime + 1
  /\ shake \in [Handshakes ->
       [at : {"hello", "dial", "fetch", "forge", "cached", "signed", "failed"},
        cert : 0..MaxTime + 1, open : BOOLEAN]]

(* The key the process signs with belongs to its CA certificate, however   *)
(* often it was killed while it wrote the two files, or lost both: with    *)
(* another key every handshake fails (RotSrtDeal.go:33-124).               *)
PairMatches == caKey # None /\ caCert # None => caKey = caCert

(* A CA that was put into the trust store is the one that signs, unless    *)
(* the folder was deleted: the store is searched by name only, so a second *)
(* CA would never be trusted (WinCrtLoad.go:27-35).                        *)
TrustedSigns == boot = "run" /\ store # None /\ caCert # None /\ ~lost => store = caCert

(* The process comes up with a CA. Refuted by a kill between OpenCert and  *)
(* WriteCert (README, 3).                                                  *)
CAUsable == boot = "run" => caKey # None /\ caCert # None

(* What a kill in between leaves on the disk. *)
Broken == certFile = Torn /\ boot # "writeCert"

(* There is no other way to come up without a CA: not a kill while the key *)
(* is written, nor before the certificate's file is opened, however often  *)
(* (checkRotSrtGen, generateCA, loadCA).                                   *)
UsableUnlessBroken == boot = "run" /\ ~Broken => caKey # None /\ caCert # None

(* It is not repaired: loadCA finds both files, prints its error, and the  *)
(* next start finds them as well (RotSrtDeal.go:33-76).                    *)
BrokenStays == [][Broken => Broken' \/ lost' # lost]_vars

(* A CA that was written out once is the program's CA for good, unless the *)
(* folder is deleted: no start makes another one, whatever it was killed   *)
(* at (checkRotSrtGen).                                                    *)
IdentityKept ==
  [][(certFile \in CAs) => (certFile' = certFile /\ keyFile' = keyFile) \/ lost' # lost]_vars

(* certHandler closes what it has dialled. Refuted: a handshake with the   *)
(* host that fails leaves it open (Connect_Wok.go:144-151; README, 3).     *)
Answered(h) == shake[h].at \in {"cached", "signed", "failed"}
HostConnsClosed == \A h \in Handshakes : Answered(h) => ~shake[h].open

(* A newer certificate is not replaced in the cache by an older one.       *)
(* Refuted: of two handshakes that fetch at once, the one that fetched     *)
(* first may store last (Connect_Wok.go:130-198; README, 3).               *)
NewestCached == [][cache' # None => cache' >= cache]_vars

=============================================================================

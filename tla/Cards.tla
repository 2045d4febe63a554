-------------------------------- MODULE Cards --------------------------------
(***************************************************************************)
(* NetCardCLI and what follows it: the cards are tested one after the      *)
(* other (SpeedTest), and PeriodCheck (Scheduler) goes on from the measured *)
(* speeds. The best chunk sizes are read by ChunkPlan alone, the fastest   *)
(* card that is noted last (BestProbeClientIP) by nobody.                  *)
(***************************************************************************)
EXTENDS Scheduler, SpeedTest

CONSTANT NoCard

ASSUME NoCardAssumption == NoCard \notin Cards

VARIABLES
  phase,       \* "test", then "turns"
  testing,     \* the card under test
  untested,    \* cards TCPSpeedTest has still to visit
  multiSpeed   \* MultiSpeed of NetworkTester.NetCardInfo

cardVars == <<phase, testing, untested, multiSpeed>>
vars == <<schedVars, testVars, cardVars>>

Init ==
  /\ SchedInit /\ TestInit
  /\ phase = "test"
  /\ testing = NoCard
  /\ untested = Cards
  /\ multiSpeed = [c \in Cards |-> 0]

(* TCPSpeedTest's loop takes the next card. *)
BeginTest ==
  /\ phase = "test" /\ testing = NoCard
  /\ testing' \in untested
  /\ untested' = untested \ {testing'}
  /\ UNCHANGED <<schedVars, testVars, phase, multiSpeed>>

RunTest ==
  /\ testing # NoCard /\ ~crashed
  /\ ReaderStep \/ SamplerStep
  /\ UNCHANGED <<schedVars, cardVars>>

(* SpeedTest returns and TCPSpeedTest stores the result; the next test     *)
(* begins with variables of its own. A sampler that was not the one to end *)
(* the test goes on for ever with the old ones.                            *)
EndTest ==
  /\ testing # NoCard /\ ReadersDone /\ ~crashed
  /\ \E bag \in Outcomes :
       /\ Measure(testing, bag)
       /\ multiSpeed' = [multiSpeed EXCEPT ![testing] = bag.standard]
  /\ testing' = NoCard
  /\ TestRestart
  /\ UNCHANGED <<phase, untested>>

EndTests ==
  /\ phase = "test" /\ testing = NoCard /\ untested = {}
  /\ phase' = "turns"
  /\ UNCHANGED <<schedVars, testVars, testing, untested, multiSpeed>>

PeriodCheck ==
  /\ phase = "turns"
  /\ Turn
  /\ UNCHANGED <<testVars, cardVars>>

(* The nil response ends the process. *)
Crashed == crashed /\ UNCHANGED vars

Next == BeginTest \/ RunTest \/ EndTest \/ EndTests \/ PeriodCheck \/ Crashed

Testing(A) == testing # NoCard /\ ~crashed /\ A /\ UNCHANGED <<schedVars, cardVars>>

(* A Read returns and a request is answered within probeClient's 30 s, the *)
(* loop of TCPSpeedTest goes on. Nothing is asked of the sampler.          *)
Spec ==
  /\ Init /\ [][Next]_vars
  /\ WF_vars(BeginTest) /\ WF_vars(EndTest) /\ WF_vars(EndTests)
  /\ \A r \in Readers :
       WF_vars(Testing(Respond(r) \/ RequestFails(r) \/ SeeStop(r) \/ Read(r)))

-----------------------------------------------------------------------------
(* Types of the start-up and of its two parts. *)
TypeOK ==
  /\ SchedTypeOK /\ TestTypeOK
  /\ phase \in {"test", "turns"}
  /\ testing \in Cards \cup {NoCard} /\ untested \subseteq Cards
  /\ multiSpeed \in [Cards -> Nat]

(* A card that was measured keeps a standard speed between the slowest and *)
(* the fastest it was ever measured at, or loses it to 0/0: it never drops *)
(* to 0, at which its weights would be 0/0 too (334-357).                  *)
StandardInRange ==
  \A c \in Cards : standard[c] # Lost =>
    /\ standard[c] >= multiSpeed[c] \/ standard[c] >= low[c]
    /\ standard[c] <= multiSpeed[c] \/ standard[c] <= fastest[c] \/ standard[c] <= low[c]

(* The start-up ends: every card's test is over and the period loop is     *)
(* reached, or the process has ended with a reader's panic.                *)
StartUpEnds == <>(phase = "turns" \/ crashed)

(* The steps that are left until the period loop is reached. *)
TestLength == 2 * Cardinality(Readers) + MaxBytes + 2
StartUpLeft ==
  Cardinality(untested) * TestLength
  + (IF testing = NoCard THEN 0 ELSE 1 + ReadersLeft)
  + (IF phase = "test" THEN 1 ELSE 0)

(* Every step of TCPSpeedTest and of its readers brings the start-up       *)
(* nearer to its end, and none of a sampler takes it back: no card is      *)
(* tested twice and no reader begins anew (NetCardCLI, SpeedTest).         *)
StartUpAdvances ==
  [][phase = "test" =>
       /\ StartUpLeft' <= StartUpLeft
       /\ <<phase, testing, reader, totalBytes>>' # <<phase, testing, reader, totalBytes>> =>
            StartUpLeft' < StartUpLeft]_vars

=============================================================================

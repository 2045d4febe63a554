------------------------------ MODULE SpeedTest ------------------------------
(***************************************************************************)
(* SpeedTest.go: the test of one card. Three readers download the same     *)
(* file while a goroutine samples their common byte count; when the speed  *)
(* is stable it fills in the result and cancels the readers. SpeedTest     *)
(* waits for the readers only, and reads a result the sampler may still be *)
(* writing; the sampler ends in no other way.                              *)
(***************************************************************************)
EXTENDS Integers, Sequences, FiniteSets

CONSTANTS
  Readers,     \* the goroutines that download SpeedTestURL
  MinBytes,    \* the 10 MB after which the running time counts, in units
  MaxBytes,    \* bound of the model: length of the downloads together
  MinSamples,  \* the samples without a current speed; 10 in the code
  Measured,    \* speeds the sampler may arrive at, [low, fastest, standard]
  NetworkFails \* whether a request may fail

(* SpeedAvg is one of the averages FastestSpeedAvg is the largest of; the  *)
(* time from the 10th MB on is shorter than the time from the start, so    *)
(* SpeedRunAvg, and with it the mean of both, is no less than SpeedAvg.    *)
ASSUME SpeedTestAssumption ==
  /\ IsFiniteSet(Readers)
  /\ MinBytes \in Nat \ {0} /\ MaxBytes \in Nat
  /\ MinSamples \in Nat /\ MinSamples >= 3
  /\ Measured \subseteq [low : Nat \ {0}, fastest : Nat, standard : Nat]
  /\ \A m \in Measured : m.low <= m.fastest /\ m.low <= m.standard
  /\ NetworkFails \in BOOLEAN

VARIABLES
  reader,     \* each reader's place; "eof" and "stopped" are ends
  totalBytes,
  samples,    \* byteList from its fourth last entry on
  count,      \* len(byteList)
  running,    \* runningTimePit
  sampler,    \* the sampler's place
  outputBag,  \* the result under construction
  found,      \* what the sampler is writing into it
  stopped,    \* ctx was cancelled
  crashed     \* a reader used the response it did not get

testVars == <<reader, totalBytes, samples, count, running, sampler, outputBag,
              found, stopped, crashed>>

EmptyBag == [low |-> 0, fastest |-> 0, standard |-> 0, best |-> 0]

TestInit ==
  /\ reader = [r \in Readers |-> "request"]
  /\ totalBytes = 0
  /\ samples = <<>> /\ count = 0
  /\ running = FALSE
  /\ sampler = "sleep"
  /\ outputBag = EmptyBag /\ found = EmptyBag
  /\ stopped = FALSE
  /\ crashed = FALSE

(* The next card's test has variables of its own. *)
TestRestart ==
  /\ reader' = [r \in Readers |-> "request"]
  /\ totalBytes' = 0
  /\ samples' = <<>> /\ count' = 0
  /\ running' = FALSE
  /\ sampler' = "sleep"
  /\ outputBag' = EmptyBag /\ found' = EmptyBag
  /\ stopped' = FALSE
  /\ crashed' = FALSE

-----------------------------------------------------------------------------
(* The readers. *)
Respond(r) ==
  /\ reader[r] = "request" /\ ~stopped
  /\ reader' = [reader EXCEPT ![r] = "read"]
  /\ UNCHANGED <<totalBytes, samples, count, running, sampler, outputBag, found, stopped, crashed>>

(* Client.Do fails, by itself or because the sampler has cancelled it, and *)
(* resp.Body is evaluated for the deferred Close.                          *)
RequestFails(r) ==
  /\ reader[r] = "request"
  /\ stopped \/ NetworkFails
  /\ crashed' = TRUE
  /\ UNCHANGED <<reader, totalBytes, samples, count, running, sampler, outputBag, found, stopped>>

(* The select before every Read. *)
SeeStop(r) ==
  /\ reader[r] = "read" /\ stopped
  /\ reader' = [reader EXCEPT ![r] = "stopped"]
  /\ UNCHANGED <<totalBytes, samples, count, running, sampler, outputBag, found, stopped, crashed>>

(* A Read: bytes, or the end of the body. probeClient's 30 s, the end of   *)
(* the file and an error of the connection look the same, and so does, in  *)
(* a Read under way, the cancelled request.                                *)
Read(r) ==
  /\ reader[r] = "read"
  /\ \/ /\ totalBytes < MaxBytes
        /\ totalBytes' = totalBytes + 1
        /\ UNCHANGED reader
     \/ /\ reader' = [reader EXCEPT ![r] = "eof"]
        /\ UNCHANGED totalBytes
  /\ UNCHANGED <<samples, count, running, sampler, outputBag, found, stopped, crashed>>

-----------------------------------------------------------------------------
(* The sampler. *)

(* SpeedNow is not 0: enough samples, and bytes since the third last. *)
Moving(list, n) == n > MinSamples /\ list[Len(list)] # list[Len(list) - 3]

LastFour(list) == SubSeq(list, IF Len(list) > 4 THEN Len(list) - 3 ELSE 1, Len(list))

(* Mutant of Sample: the running time counts from the start. *)
SampleFromStart ==
  /\ sampler = "sleep"
  /\ samples' = LastFour(Append(samples, totalBytes))
  /\ count' = IF count > MinSamples THEN count ELSE count + 1
  /\ \/ /\ Moving(samples', count')
        /\ \E m \in Measured :
             found' = [low |-> m.low, fastest |-> m.fastest, standard |-> m.standard, best |-> totalBytes]
        /\ sampler' = "write"
        /\ UNCHANGED running
     \/ /\ running' = TRUE
        /\ UNCHANGED <<sampler, found>>
  /\ UNCHANGED <<reader, totalBytes, outputBag, stopped, crashed>>

(* Every 250 ms. Whether a speed other than 0 counts as stable depends on  *)
(* the clock and is left open.                                             *)
Sample ==
  /\ sampler = "sleep"
  /\ samples' = LastFour(Append(samples, totalBytes))
  /\ count' = IF count > MinSamples THEN count ELSE count + 1
  /\ \/ /\ running /\ Moving(samples', count')
        /\ \E m \in Measured :
             found' = [low |-> m.low, fastest |-> m.fastest, standard |-> m.standard, best |-> totalBytes]
        /\ sampler' = "write"
        /\ UNCHANGED running
     \/ /\ running' = (running \/ totalBytes >= MinBytes)
        /\ UNCHANGED <<sampler, found>>
  /\ UNCHANGED <<reader, totalBytes, outputBag, stopped, crashed>>

(* Mutant of Write: the readers are cancelled first. *)
WriteLate ==
  /\ sampler = "write"
  /\ sampler' = "cancel"
  /\ stopped' = TRUE
  /\ UNCHANGED <<reader, totalBytes, samples, count, running, found, crashed, outputBag>>

(* The four assignments are under way until this step. *)
Write ==
  /\ sampler = "write"
  /\ outputBag' = found
  /\ sampler' = "cancel"
  /\ UNCHANGED <<reader, totalBytes, samples, count, running, found, stopped, crashed>>

CancelReaders ==
  /\ sampler = "cancel"
  /\ stopped' = TRUE
  /\ sampler' = "returned"
  /\ UNCHANGED <<reader, totalBytes, samples, count, running, outputBag, found, crashed>>

-----------------------------------------------------------------------------
(* Mutant of ReadersDone: no wg.Done at the end of the body.               *)
ReadersDoneStopped == \A r \in Readers : reader[r] = "stopped"

(* wg.Wait is over. *)
ReadersDone == \A r \in Readers : reader[r] \in {"eof", "stopped"}

(* The bags SpeedTest may return: a field that is being written is seen as *)
(* it was or as it will be.                                                *)
Outcomes ==
  IF sampler # "write" THEN {outputBag}
  ELSE {[f \in DOMAIN EmptyBag |-> IF f \in written THEN found[f] ELSE outputBag[f]] :
          written \in SUBSET DOMAIN EmptyBag}

(* The steps the readers can still take, to the end of the body or of the  *)
(* process.                                                                *)
ReadersAt(place) == {r \in Readers : reader[r] = place}
ReadersLeft == 2 * Cardinality(ReadersAt("request")) + Cardinality(ReadersAt("read")) + (MaxBytes - totalBytes)

ReaderStep == \E r \in Readers : Respond(r) \/ RequestFails(r) \/ SeeStop(r) \/ Read(r)
SamplerStep == Sample \/ Write \/ CancelReaders

-----------------------------------------------------------------------------
(* Types of the test's state. *)
TestTypeOK ==
  /\ reader \in [Readers -> {"request", "read", "eof", "stopped"}]
  /\ totalBytes \in 0..MaxBytes
  /\ samples \in Seq(0..MaxBytes) /\ Len(samples) <= 4
  /\ count \in 0..MinSamples + 1
  /\ running \in BOOLEAN /\ stopped \in BOOLEAN /\ crashed \in BOOLEAN
  /\ sampler \in {"sleep", "write", "cancel", "returned"}
  /\ \A bag \in {outputBag, found} :
       bag \in [low : Nat, fastest : Nat, standard : Nat, best : 0..MaxBytes]

(* A measured chunk size is at least the 10 MB the code waits for ("the    *)
(* smallest chunk is larger than 10MB", SpeedTest.go:201), even when the   *)
(* result is read half written.                                            *)
BestChunkLarge == ReadersDone => \A bag \in Outcomes : bag.best = 0 \/ bag.best >= MinBytes

(* When a reader was ended by the sampler, the result that is returned is  *)
(* complete: it was written before the context was cancelled (188-195).    *)
CompleteWhenStopped ==
  ReadersDone /\ (\E r \in Readers : reader[r] = "stopped") =>
    Outcomes = {found} /\ found.standard > 0

=============================================================================

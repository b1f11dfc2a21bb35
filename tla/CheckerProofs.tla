--------------------------- MODULE CheckerProofs ---------------------------
(***************************************************************************)
(* Proofs about Checker: for every timeout and every latency target, the   *)
(* state Check returns is the documented one and Check takes at most two   *)
(* timeouts; and about CheckWithRetries, which calls it again and again.   *)
(***************************************************************************)
EXTENDS CheckWithRetries, FiniteSetTheorems, WellFoundedInduction, TLAPS

(* What has passed and what is left of the step under way fit together; the *)
(* resolution uses up at most its own timeout.                              *)
Budget ==
  /\ stage = "started" => latency = 0
  /\ stage = "resolving" => latency + left <= Timeout
  /\ stage \in {"connecting", "reading"} => latency + left <= 2 * Timeout
  /\ stage \in {"measuring", "returned"} => latency <= 2 * Timeout

(* What the state says of the checks so far, at each stage.                 *)
NearExpiry == UsesTLS /\ target.certificate = "expiring"
Findings ==
  /\ stage \in {"started", "resolving", "connecting"} => state = "Unknown" /\ ~interrupted
  /\ stage \in {"resolving", "connecting", "reading"} => target.hasHost
  /\ stage \in {"connecting", "reading"} => target.resolves
  /\ stage = "reading" =>
       /\ ~interrupted
       /\ target.kind \in {"http", "https"}
       /\ target.accepts
       /\ UsesTLS => target.certificate \in {"expiring", "good"}
       /\ state = IF NearExpiry THEN "Degraded" ELSE "Unknown"
  /\ stage = "measuring" =>
       state = IF ~ExpectationsPass THEN "Unavailable"
               ELSE IF NearExpiry THEN "Degraded" ELSE "Healthy"

CheckerInv == TypeOK /\ Budget /\ Findings /\ StateAsDocumented

(* The states before the first step.                                        *)
LEMMA CheckerInit == Init => CheckerInv
<1> SUFFICES ASSUME Init PROVE CheckerInv
  OBVIOUS
<1> USE CheckerAssumption DEF Init
<1>1. TypeOK
  <2>1. left \in 0..Timeout /\ latency \in Nat
    OBVIOUS
  <2>2. QED
    BY <2>1 DEF TypeOK, Stage, Network, State
<1>2. Budget /\ Findings /\ StateAsDocumented
  BY DEF Budget, Findings, StateAsDocumented
<1>3. QED
  BY <1>1, <1>2 DEF CheckerInv

(* An address without a host.                                               *)
LEMMA NoHostKeeps == CheckerInv /\ NoHost => CheckerInv'
<1> SUFFICES ASSUME CheckerInv, NoHost PROVE CheckerInv'
  OBVIOUS
<1> USE CheckerAssumption DEF CheckerInv
<1>1. TypeOK'
  BY DEF TypeOK, NoHost, Failed, StateByCertificate, Stage, Network, State, Target, Kind, Certificate
<1>2. Budget'
  BY DEF TypeOK, Budget, NoHost, Network
<1>3. Findings'
  BY DEF TypeOK, Findings, NearExpiry, ExpectationsPass, BodyPasses, UsesTLS, HandshakeRefused,
         StateByCertificate, ContextEnded, NoHost, Failed, Target, Kind, Certificate
<1>4. StateAsDocumented'
  BY DEF TypeOK, Findings, NearExpiry, ExpectationsPass, Worsened, StateAsDocumented, BodyPasses,
         UsesTLS, HandshakeRefused, ContextEnded, NoHost, Failed, Network, Target, Kind, Certificate
<1>5. QED
  BY <1>1, <1>2, <1>3, <1>4

(* The resolution starts.                                                   *)
LEMMA LookupKeeps == CheckerInv /\ Lookup => CheckerInv'
<1> SUFFICES ASSUME CheckerInv, Lookup PROVE CheckerInv'
  OBVIOUS
<1> USE CheckerAssumption DEF CheckerInv
<1>1. TypeOK'
  BY DEF TypeOK, Lookup, Failed, StateByCertificate, Stage, Network, State, Target, Kind, Certificate
<1>2. Budget'
  BY DEF TypeOK, Budget, Lookup, Network
<1>3. Findings'
  BY DEF TypeOK, Findings, NearExpiry, ExpectationsPass, BodyPasses, UsesTLS, HandshakeRefused,
         StateByCertificate, ContextEnded, Lookup, Failed, Target, Kind, Certificate
<1>4. StateAsDocumented'
  BY DEF TypeOK, Findings, NearExpiry, ExpectationsPass, Worsened, StateAsDocumented, BodyPasses,
         UsesTLS, HandshakeRefused, ContextEnded, Lookup, Failed, Network, Target, Kind, Certificate
<1>5. QED
  BY <1>1, <1>2, <1>3, <1>4

(* The resolution fails or is cut short.                                    *)
LEMMA LookupFailsKeeps == CheckerInv /\ LookupFails => CheckerInv'
<1> SUFFICES ASSUME CheckerInv, LookupFails PROVE CheckerInv'
  OBVIOUS
<1> USE CheckerAssumption DEF CheckerInv
<1>1. TypeOK'
  BY DEF TypeOK, LookupFails, Failed, StateByCertificate, Stage, Network, State, Target, Kind, Certificate
<1>2. Budget'
  BY DEF TypeOK, Budget, LookupFails, Network
<1>3. Findings'
  BY DEF TypeOK, Findings, NearExpiry, ExpectationsPass, BodyPasses, UsesTLS, HandshakeRefused,
         StateByCertificate, ContextEnded, LookupFails, Failed, Target, Kind, Certificate
<1>4. StateAsDocumented'
  BY DEF TypeOK, Findings, NearExpiry, ExpectationsPass, Worsened, StateAsDocumented, BodyPasses,
         UsesTLS, HandshakeRefused, ContextEnded, LookupFails, Failed, Network, Target, Kind, Certificate
<1>5. QED
  BY <1>1, <1>2, <1>3, <1>4

(* The check proper starts with a timeout of its own.                       *)
LEMMA ResolvedKeeps == CheckerInv /\ Resolved => CheckerInv'
<1> SUFFICES ASSUME CheckerInv, Resolved PROVE CheckerInv'
  OBVIOUS
<1> USE CheckerAssumption DEF CheckerInv
<1>1. TypeOK'
  BY DEF TypeOK, Resolved, Failed, StateByCertificate, Stage, Network, State, Target, Kind, Certificate
<1>2. Budget'
  BY DEF TypeOK, Budget, Resolved, Network
<1>3. Findings'
  BY DEF TypeOK, Findings, NearExpiry, ExpectationsPass, BodyPasses, UsesTLS, HandshakeRefused,
         StateByCertificate, ContextEnded, Resolved, Failed, Target, Kind, Certificate
<1>4. StateAsDocumented'
  BY DEF TypeOK, Findings, NearExpiry, ExpectationsPass, Worsened, StateAsDocumented, BodyPasses,
         UsesTLS, HandshakeRefused, ContextEnded, Resolved, Failed, Network, Target, Kind, Certificate
<1>5. QED
  BY <1>1, <1>2, <1>3, <1>4

(* The target refuses or the context ends.                                  *)
LEMMA ConnectFailsKeeps == CheckerInv /\ ConnectFails => CheckerInv'
<1> SUFFICES ASSUME CheckerInv, ConnectFails PROVE CheckerInv'
  OBVIOUS
<1> USE CheckerAssumption DEF CheckerInv
<1>1. TypeOK'
  BY DEF TypeOK, ConnectFails, Failed, StateByCertificate, Stage, Network, State, Target, Kind, Certificate
<1>2. Budget'
  BY DEF TypeOK, Budget, ConnectFails, Network
<1>3. Findings'
  BY DEF TypeOK, Findings, NearExpiry, ExpectationsPass, BodyPasses, UsesTLS, HandshakeRefused,
         StateByCertificate, ContextEnded, ConnectFails, Failed, Target, Kind, Certificate
<1>4. StateAsDocumented'
  BY DEF TypeOK, Findings, NearExpiry, ExpectationsPass, Worsened, StateAsDocumented, BodyPasses,
         UsesTLS, HandshakeRefused, ContextEnded, ConnectFails, Failed, Network, Target, Kind, Certificate
<1>5. QED
  BY <1>1, <1>2, <1>3, <1>4

(* A TCP connection is all that is asked.                                   *)
LEMMA ConnectTCPKeeps == CheckerInv /\ ConnectTCP => CheckerInv'
<1> SUFFICES ASSUME CheckerInv, ConnectTCP PROVE CheckerInv'
  OBVIOUS
<1> USE CheckerAssumption DEF CheckerInv
<1>1. TypeOK'
  BY DEF TypeOK, ConnectTCP, Failed, StateByCertificate, Stage, Network, State, Target, Kind, Certificate
<1>2. Budget'
  BY DEF TypeOK, Budget, ConnectTCP, Network
<1>3. Findings'
  BY DEF TypeOK, Findings, NearExpiry, ExpectationsPass, BodyPasses, UsesTLS, HandshakeRefused,
         StateByCertificate, ContextEnded, ConnectTCP, Failed, Target, Kind, Certificate
<1>4. StateAsDocumented'
  BY DEF TypeOK, Findings, NearExpiry, ExpectationsPass, Worsened, StateAsDocumented, BodyPasses,
         UsesTLS, HandshakeRefused, ContextEnded, ConnectTCP, Failed, Network, Target, Kind, Certificate
<1>5. QED
  BY <1>1, <1>2, <1>3, <1>4

(* The certificate decides.                                                 *)
LEMMA ConnectTLSKeeps == CheckerInv /\ ConnectTLS => CheckerInv'
<1> SUFFICES ASSUME CheckerInv, ConnectTLS PROVE CheckerInv'
  OBVIOUS
<1> USE CheckerAssumption DEF CheckerInv
<1>1. TypeOK'
  BY DEF TypeOK, ConnectTLS, Failed, StateByCertificate, Stage, Network, State, Target, Kind, Certificate
<1>2. Budget'
  BY DEF TypeOK, Budget, ConnectTLS, Network
<1>3. Findings'
  BY DEF TypeOK, Findings, NearExpiry, ExpectationsPass, BodyPasses, UsesTLS, HandshakeRefused,
         StateByCertificate, ContextEnded, ConnectTLS, Failed, Target, Kind, Certificate
<1>4. StateAsDocumented'
  BY DEF TypeOK, Findings, NearExpiry, ExpectationsPass, Worsened, StateAsDocumented, BodyPasses,
         UsesTLS, HandshakeRefused, ContextEnded, ConnectTLS, Failed, Network, Target, Kind, Certificate
<1>5. QED
  BY <1>1, <1>2, <1>3, <1>4

(* The certificate first, then the body.                                    *)
LEMMA RespondKeeps == CheckerInv /\ Respond => CheckerInv'
<1> SUFFICES ASSUME CheckerInv, Respond PROVE CheckerInv'
  OBVIOUS
<1> USE CheckerAssumption DEF CheckerInv
<1>1. TypeOK'
  BY DEF TypeOK, Respond, Failed, StateByCertificate, Stage, Network, State, Target, Kind, Certificate
<1>2. Budget'
  BY DEF TypeOK, Budget, Respond, Network
<1>3. Findings'
  BY DEF TypeOK, Findings, NearExpiry, ExpectationsPass, BodyPasses, UsesTLS, HandshakeRefused,
         StateByCertificate, ContextEnded, Respond, Failed, Target, Kind, Certificate
<1>4. StateAsDocumented'
  BY DEF TypeOK, Findings, NearExpiry, ExpectationsPass, Worsened, StateAsDocumented, BodyPasses,
         UsesTLS, HandshakeRefused, ContextEnded, Respond, Failed, Network, Target, Kind, Certificate
<1>5. QED
  BY <1>1, <1>2, <1>3, <1>4

(* The body does not hide the certificate.                                  *)
LEMMA ReadBodyKeeps == CheckerInv /\ ReadBody => CheckerInv'
<1> SUFFICES ASSUME CheckerInv, ReadBody PROVE CheckerInv'
  OBVIOUS
<1> USE CheckerAssumption DEF CheckerInv
<1>1. TypeOK'
  BY DEF TypeOK, ReadBody, Failed, StateByCertificate, Stage, Network, State, Target, Kind, Certificate
<1>2. Budget'
  BY DEF TypeOK, Budget, ReadBody, Network
<1>3. Findings'
  BY DEF TypeOK, Findings, NearExpiry, ExpectationsPass, BodyPasses, UsesTLS, HandshakeRefused,
         StateByCertificate, ContextEnded, ReadBody, Failed, Target, Kind, Certificate
<1>4. StateAsDocumented'
  BY DEF TypeOK, Findings, NearExpiry, ExpectationsPass, Worsened, StateAsDocumented, BodyPasses,
         UsesTLS, HandshakeRefused, ContextEnded, ReadBody, Failed, Network, Target, Kind, Certificate
<1>5. QED
  BY <1>1, <1>2, <1>3, <1>4

(* The context ends while the body is read.                                 *)
LEMMA ReadFailsKeeps == CheckerInv /\ ReadFails => CheckerInv'
<1> SUFFICES ASSUME CheckerInv, ReadFails PROVE CheckerInv'
  OBVIOUS
<1> USE CheckerAssumption DEF CheckerInv
<1>1. TypeOK'
  BY DEF TypeOK, ReadFails, Failed, StateByCertificate, Stage, Network, State, Target, Kind, Certificate
<1>2. Budget'
  BY DEF TypeOK, Budget, ReadFails, Network
<1>3. Findings'
  BY DEF TypeOK, Findings, NearExpiry, ExpectationsPass, BodyPasses, UsesTLS, HandshakeRefused,
         StateByCertificate, ContextEnded, ReadFails, Failed, Target, Kind, Certificate
<1>4. StateAsDocumented'
  BY DEF TypeOK, Findings, NearExpiry, ExpectationsPass, Worsened, StateAsDocumented, BodyPasses,
         UsesTLS, HandshakeRefused, ContextEnded, ReadFails, Failed, Network, Target, Kind, Certificate
<1>5. QED
  BY <1>1, <1>2, <1>3, <1>4

(* The latency is judged last.                                              *)
LEMMA MeasureKeeps == CheckerInv /\ Measure => CheckerInv'
<1> SUFFICES ASSUME CheckerInv, Measure PROVE CheckerInv'
  OBVIOUS
<1> USE CheckerAssumption DEF CheckerInv
<1>1. TypeOK'
  BY DEF TypeOK, Measure, Failed, StateByCertificate, Stage, Network, State, Target, Kind, Certificate
<1>2. Budget'
  BY DEF TypeOK, Budget, Measure, Network
<1>3. Findings'
  BY DEF TypeOK, Findings, NearExpiry, ExpectationsPass, BodyPasses, UsesTLS, HandshakeRefused,
         StateByCertificate, ContextEnded, Measure, Failed, Target, Kind, Certificate
<1>4. StateAsDocumented'
  BY DEF TypeOK, Findings, NearExpiry, ExpectationsPass, Worsened, StateAsDocumented, BodyPasses,
         UsesTLS, HandshakeRefused, ContextEnded, Measure, Failed, Network, Target, Kind, Certificate
<1>5. QED
  BY <1>1, <1>2, <1>3, <1>4

(* Time passes within a timeout.                                            *)
LEMMA TimePassesKeeps == CheckerInv /\ TimePasses => CheckerInv'
<1> SUFFICES ASSUME CheckerInv, TimePasses PROVE CheckerInv'
  OBVIOUS
<1> USE CheckerAssumption DEF CheckerInv
<1>1. TypeOK'
  BY DEF TypeOK, TimePasses, Failed, StateByCertificate, Stage, Network, State, Target, Kind, Certificate
<1>2. Budget'
  BY DEF TypeOK, Budget, TimePasses, Network
<1>3. Findings'
  BY DEF TypeOK, Findings, NearExpiry, ExpectationsPass, BodyPasses, UsesTLS, HandshakeRefused,
         StateByCertificate, ContextEnded, TimePasses, Failed, Target, Kind, Certificate
<1>4. StateAsDocumented'
  BY DEF TypeOK, Findings, NearExpiry, ExpectationsPass, Worsened, StateAsDocumented, BodyPasses,
         UsesTLS, HandshakeRefused, ContextEnded, TimePasses, Failed, Network, Target, Kind, Certificate
<1>5. QED
  BY <1>1, <1>2, <1>3, <1>4

(* A cancellation changes no finding.                                       *)
LEMMA CancelKeeps == CheckerInv /\ Cancel => CheckerInv'
<1> SUFFICES ASSUME CheckerInv, Cancel PROVE CheckerInv'
  OBVIOUS
<1> USE CheckerAssumption DEF CheckerInv
<1>1. TypeOK'
  BY DEF TypeOK, Cancel, Failed, StateByCertificate, Stage, Network, State, Target, Kind, Certificate
<1>2. Budget'
  BY DEF TypeOK, Budget, Cancel, Network
<1>3. Findings'
  BY DEF TypeOK, Findings, NearExpiry, ExpectationsPass, BodyPasses, UsesTLS, HandshakeRefused,
         StateByCertificate, ContextEnded, Cancel, Failed, Target, Kind, Certificate
<1>4. StateAsDocumented'
  BY DEF TypeOK, Findings, NearExpiry, ExpectationsPass, Worsened, StateAsDocumented, BodyPasses,
         UsesTLS, HandshakeRefused, ContextEnded, Cancel, Failed, Network, Target, Kind, Certificate
<1>5. QED
  BY <1>1, <1>2, <1>3, <1>4

(* No step disturbs CheckerInv: one case for each action of Next.           *)
LEMMA CheckerStep == CheckerInv /\ [Next]_vars => CheckerInv'
<1> SUFFICES ASSUME CheckerInv, [Next]_vars PROVE CheckerInv'
  OBVIOUS
<1>1. CASE NoHost
  BY <1>1, NoHostKeeps
<1>2. CASE Lookup
  BY <1>2, LookupKeeps
<1>3. CASE LookupFails
  BY <1>3, LookupFailsKeeps
<1>4. CASE Resolved
  BY <1>4, ResolvedKeeps
<1>5. CASE ConnectFails
  BY <1>5, ConnectFailsKeeps
<1>6. CASE ConnectTCP
  BY <1>6, ConnectTCPKeeps
<1>7. CASE ConnectTLS
  BY <1>7, ConnectTLSKeeps
<1>8. CASE Respond
  BY <1>8, RespondKeeps
<1>9. CASE ReadBody
  BY <1>9, ReadBodyKeeps
<1>10. CASE ReadFails
  BY <1>10, ReadFailsKeeps
<1>11. CASE Measure
  BY <1>11, MeasureKeeps
<1>12. CASE TimePasses
  BY <1>12, TimePassesKeeps
<1>13. CASE Cancel
  BY <1>13, CancelKeeps
<1>14. CASE UNCHANGED vars
  BY <1>14 DEF vars, CheckerInv, TypeOK, Budget, Findings, NearExpiry, StateAsDocumented,
    ExpectationsPass, Worsened, BodyPasses, UsesTLS
<1> QED
  BY <1>1, <1>2, <1>3, <1>4, <1>5, <1>6, <1>7, <1>8, <1>9, <1>10, <1>11, <1>12, <1>13, <1>14 DEF Next, Check, Returned

(* Check keeps the invariant from its call to its return.                   *)
THEOREM CheckerInvariant == Spec => []CheckerInv
  BY CheckerInit, CheckerStep, PTL DEF Spec

(* Types.                                                                   *)
THEOREM CheckerTypes == Spec => []TypeOK
  BY CheckerInvariant, PTL DEF CheckerInv

(* Check returns the state README.md's table gives for what it found.       *)
THEOREM StatesFollowTheTable == Spec => []StateAsDocumented
  BY CheckerInvariant, PTL DEF CheckerInv

(* No check takes longer than the resolution's timeout and one more.        *)
THEOREM ChecksAreShort == Spec => []TwoTimeouts
<1>1. CheckerInv => TwoTimeouts
  BY CheckerAssumption DEF CheckerInv, TypeOK, Budget, TwoTimeouts, Stage, Network
<1> QED
  BY CheckerInvariant, <1>1, PTL

-----------------------------------------------------------------------------
(* CheckWithRetries: what holds of one call of Check holds of every probe, *)
(* for any number of retries and any delays.                               *)

(* While Check runs it has its own invariant, from the first probe on and   *)
(* again from each next one; the wait between them leaves it nothing to     *)
(* violate.                                                                 *)
BetweenProbes ==
  /\ stage = "started" /\ target \in Target
  /\ left = 0 /\ latency = 0
  /\ state = "Unavailable" /\ interrupted = FALSE /\ cancelled \in BOOLEAN
ProbesCounted ==
  /\ attempt \in 0..Retries
  /\ loop = "waiting" => attempt < Retries
RetryInv ==
  /\ loop \in {"checking", "waiting", "returned"}
  /\ loop = "checking" => CheckerInv
  /\ loop = "waiting" => BetweenProbes
  /\ loop = "returned" => StateAsDocumented /\ TwoTimeouts
  /\ ProbesCounted

(* What a call of Check guarantees at every moment.                         *)
LEMMA CheckerPromises == CheckerInv => StateAsDocumented /\ TwoTimeouts
BY CheckerAssumption DEF CheckerInv, TypeOK, Budget, TwoTimeouts, Stage, Network

(* The same of Retry: nothing changes between two probes.                   *)
LEMMA RetryPromises == RetryInv => StateAsDocumented /\ TwoTimeouts
<1>1. BetweenProbes => StateAsDocumented /\ TwoTimeouts
  BY CheckerAssumption DEF BetweenProbes, StateAsDocumented, TwoTimeouts
<1>2. QED
  BY <1>1, CheckerPromises DEF RetryInv

(* The first probe begins.                                                  *)
LEMMA RetryInitially == RetryInit => RetryInv
<1> SUFFICES ASSUME RetryInit PROVE RetryInv
  OBVIOUS
<1>1. CheckerInv
  BY CheckerInit DEF RetryInit
<1>2. ProbesCounted /\ loop = "checking"
  BY RetryAssumption DEF RetryInit, ProbesCounted
<1>3. QED
  BY <1>1, <1>2 DEF RetryInv

(* A step of a probe.                                                       *)
LEMMA ProbeKeeps ==
  RetryInv /\ loop = "checking" /\ (Check \/ TimePasses \/ Cancel) /\ UNCHANGED retry => RetryInv'
<1> SUFFICES ASSUME RetryInv, loop = "checking", Check \/ TimePasses \/ Cancel, UNCHANGED retry
             PROVE  RetryInv'
  OBVIOUS
<1>1. CheckerInv'
  BY CheckerStep DEF RetryInv, Next
<1>2. loop' = "checking" /\ ProbesCounted'
  BY DEF RetryInv, ProbesCounted, retry
<1>3. QED
  BY <1>1, <1>2 DEF RetryInv

(* Retry returns what the last probe found, which the wait has not touched. *)
LEMMA ReturnKeeps == RetryInv /\ (Judge \/ RetryCancelled) => RetryInv'
<1> SUFFICES ASSUME RetryInv, Judge \/ RetryCancelled PROVE RetryInv'
  OBVIOUS
<1>1. UNCHANGED vars /\ loop' = "returned" /\ attempt' = attempt
  BY DEF Judge, RetryCancelled
<1>2. StateAsDocumented' /\ TwoTimeouts'
  BY <1>1, RetryPromises DEF StateAsDocumented, TwoTimeouts, ExpectationsPass, Worsened,
              BodyPasses, UsesTLS, vars
<1>3. QED
  BY <1>1, <1>2 DEF RetryInv, ProbesCounted

(* A wait begins only while retries are left.                               *)
LEMMA BacksKeeps == RetryInv /\ Backs => RetryInv'
<1> SUFFICES ASSUME RetryInv, Backs PROVE RetryInv'
  OBVIOUS
<1> USE CheckerAssumption, RetryAssumption
<1>1. AnyTarget \in Target
  <2>1. [kind |-> "tcp", hasHost |-> TRUE, resolves |-> TRUE, accepts |-> TRUE,
         certificate |-> "good", bodyFits |-> TRUE, statusExpected |-> TRUE,
         textFound |-> TRUE] \in Target
    BY DEF Target, Kind, Certificate
  <2>2. QED
    BY <2>1 DEF AnyTarget
<1>2. BetweenProbes'
  BY <1>1 DEF Backs, BetweenProbes, RetryInv, CheckerInv, TypeOK
<1>3. loop' = "waiting" /\ ProbesCounted'
  BY DEF Backs, ProbesCounted, RetryInv
<1>4. QED
  BY <1>2, <1>3 DEF RetryInv

(* The wait goes on, also when the context is cancelled.                    *)
LEMMA WaitKeeps == RetryInv /\ (WaitPasses \/ CancelWhileWaiting) => RetryInv'
<1> SUFFICES ASSUME RetryInv, WaitPasses \/ CancelWhileWaiting PROVE RetryInv'
  OBVIOUS
<1>1. loop = "waiting" /\ loop' = "waiting" /\ attempt' = attempt
  BY DEF WaitPasses, CancelWhileWaiting, retry
<1>2. BetweenProbes'
  <2>1. BetweenProbes
    BY <1>1 DEF RetryInv
  <2>2. CASE WaitPasses
    BY <2>1, <2>2 DEF WaitPasses, BetweenProbes, vars
  <2>3. CASE Cancel
    BY <2>1, <2>3 DEF Cancel, BetweenProbes
  <2>4. QED
    BY <2>2, <2>3 DEF CancelWhileWaiting
<1>3. QED
  BY <1>1, <1>2 DEF RetryInv, ProbesCounted

(* A probe begins as the first one did, whatever the last one found.        *)
LEMMA NextProbeKeeps == RetryInv /\ NextProbe => RetryInv'
<1> SUFFICES ASSUME RetryInv, NextProbe PROVE RetryInv'
  OBVIOUS
<1>1. BetweenProbes /\ attempt < Retries
  BY DEF RetryInv, ProbesCounted, NextProbe
<1> USE CheckerAssumption DEF NextProbe, BetweenProbes
<1>2. TypeOK'
  <2>1. stage' \in Stage /\ state' \in State /\ left' \in 0..Timeout /\ latency' \in Nat
    BY <1>1 DEF Stage, Network, State
  <2>2. target' \in Target /\ cancelled' \in BOOLEAN /\ interrupted' \in BOOLEAN
    BY <1>1
  <2>3. QED
    BY <2>1, <2>2 DEF TypeOK
<1>3. Budget' /\ Findings'
  BY <1>1 DEF Budget, Findings
<1>4. StateAsDocumented'
  BY <1>1 DEF StateAsDocumented
<1>5. loop' = "checking" /\ ProbesCounted'
  BY <1>1, RetryAssumption DEF RetryInv, ProbesCounted
<1>6. QED
  BY <1>2, <1>3, <1>4, <1>5 DEF RetryInv, CheckerInv

(* Whatever step is taken.                                                  *)
LEMMA RetryStep == RetryInv /\ [RetryNext]_allVars => RetryInv'
<1> SUFFICES ASSUME RetryInv, [RetryNext]_allVars PROVE RetryInv'
  OBVIOUS
<1>1. CASE CheckStep(Check) \/ CheckStep(TimePasses) \/ CheckStep(Cancel)
  BY <1>1, ProbeKeeps DEF CheckStep
<1>2. CASE UNCHANGED allVars
  BY <1>2 DEF RetryInv, CheckerInv, TypeOK, Budget, Findings, NearExpiry, BetweenProbes,
    ProbesCounted, StateAsDocumented, TwoTimeouts, ExpectationsPass, Worsened, BodyPasses,
    UsesTLS, allVars, vars, retry
<1>3. QED
  BY <1>1, <1>2, ReturnKeeps, BacksKeeps, WaitKeeps, NextProbeKeeps DEF RetryNext

(* RetryInv is an invariant.                                                *)
THEOREM RetryInvariant == RetrySpec => []RetryInv
BY RetryInitially, RetryStep, PTL DEF RetrySpec

(* resilience.Retry around Check: each probe of a check returns the state   *)
(* of README.md's table, whatever the probes before it found.               *)
THEOREM EveryProbeFollowsTheTable == RetrySpec => []StateAsDocumented
  BY RetryPromises, RetryInvariant, PTL

(* Each probe takes at most two timeouts.                                   *)
THEOREM EveryProbeIsShort == RetrySpec => []TwoTimeouts
  BY RetryPromises, RetryInvariant, PTL

(* Retry calls check at most once more than endpoint.Retries, so that with  *)
(* EveryProbeIsShort a check ends: 0 to Retries are the attempts.           *)
THEOREM ProbesAreBounded == RetrySpec => [](attempt \in 0..Retries)
<1>1. RetryInv => attempt \in 0..Retries
  BY DEF RetryInv, ProbesCounted
<1>2. QED
  BY <1>1, RetryInvariant, PTL

-----------------------------------------------------------------------------
(* RetryDelay: what the doubling loop of retryDelay arrives at, for any     *)
(* number of attempts and any delays.                                       *)

(* Induction over the natural numbers, for a set of them.                   *)
LEMMA EveryNumber ==
  ASSUME NEW S, 0 \in S, \A n \in Nat : n \in S => n + 1 \in S
  PROVE  \A n \in Nat : n \in S
<1> SUFFICES ASSUME \E n \in Nat : n \notin S PROVE FALSE
  OBVIOUS
<1> DEFINE T == {n \in Nat : n \notin S}
           R == OpToRel(<, Nat)
<1>1. T \subseteq Nat /\ T # {}
  OBVIOUS
<1>2. \A m, n \in Nat : m < n => <<m, n>> \in R
  BY DEF OpToRel
<1> HIDE DEF R
<1>3. IsWellFoundedOn(R, Nat)
  BY NatLessThanWellFounded DEF R
<1>4. PICK n \in T : \A m \in T : ~(<<m, n>> \in R)
  <2> HIDE DEF T
  <2>1. QED
    BY <1>1, <1>3, WFMin
<1>5. n \in Nat /\ n # 0 /\ n \notin S
  OBVIOUS
<1>6. n - 1 \in Nat /\ n - 1 < n /\ n = (n - 1) + 1
  BY <1>5
<1>7. n - 1 \notin S
  BY <1>5, <1>6
<1>8. n - 1 \in T
  BY <1>6, <1>7
<1>9. QED
  BY <1>2, <1>4, <1>5, <1>6, <1>8

(* One more doubling, counted by the subsets of one more element.           *)
LEMMA PowersOfTwo ==
  ASSUME NEW n \in Nat
  PROVE  2^n \in Nat /\ 2^(n + 1) \in Nat /\ 2^(n + 1) = 2 * 2^n
<1> DEFINE S == 1..n
           T == 1..(n + 1)
           A == SUBSET S
           B == {X \in SUBSET T : n + 1 \in X}
           g == [X \in A |-> X \cup {n + 1}]
<1>1. IsFiniteSet(S) /\ Cardinality(S) = n /\ IsFiniteSet(T) /\ Cardinality(T) = n + 1
  BY FS_Interval
<1>2. T = S \cup {n + 1} /\ n + 1 \notin S
  OBVIOUS
<1> HIDE DEF S, T
<1>3. IsFiniteSet(A) /\ Cardinality(A) = 2^n /\ Cardinality(SUBSET T) = 2^(n + 1)
  BY <1>1, FS_SUBSET
<1>4. g \in Bijection(A, B)
  <2>1. \A X \in A : g[X] \in B
    BY <1>2
  <2>2. \A X, Y \in A : g[X] = g[Y] => X = Y
    BY <1>2
  <2>3. ASSUME NEW Y \in B PROVE \E X \in A : g[X] = Y
    <3>1. Y \ {n + 1} \in A /\ g[Y \ {n + 1}] = Y
      BY <1>2
    <3>2. QED
      BY <3>1
  <2>4. g \in [A -> B]
    BY <2>1
  <2> HIDE DEF g, A, B
  <2>5. QED
    BY <2>2, <2>3, <2>4 DEF Bijection, Injection, Surjection, IsInjective
<1>5. IsFiniteSet(B) /\ Cardinality(B) = Cardinality(A)
  BY <1>3, <1>4, FS_Bijection DEF ExistsBijection
<1>6. SUBSET T = A \cup B /\ A \cap B = {}
  BY <1>2
<1>7. Cardinality(A \cup B) = Cardinality(A) + Cardinality(B) - 0
  <2> HIDE DEF A, B
  <2>1. QED
    BY <1>3, <1>5, <1>6, FS_Union, FS_EmptySet
<1>8. Cardinality(A) \in Nat /\ Cardinality(B) \in Nat
  BY <1>3, <1>5, FS_CardinalityType
<1> HIDE DEF A, B
<1>9. Cardinality(A \cup B) = 2^(n + 1)
  BY <1>3, <1>6
<1>10. Cardinality(A \cup B) = 2 * Cardinality(A)
  BY <1>5, <1>7, <1>8
<1>11. QED
  BY <1>3, <1>8, <1>9, <1>10

(* The recursion of Backoff: the delays of the loop up to k doublings.      *)
IsDoubling(f, k, base, max) ==
  f = [n \in 0..k |-> IF n = 0 THEN base
                      ELSE IF max > 0 /\ f[n - 1] >= max \div 2 THEN max
                      ELSE 2 * f[n - 1]]

LEMMA DoublingExists ==
  ASSUME NEW base, NEW max
  PROVE  \A k \in Nat : \E f : IsDoubling(f, k, base, max)
<1> DEFINE S == {k \in Nat : \E f : IsDoubling(f, k, base, max)}
<1>1. 0 \in S
  <2> DEFINE f == [n \in 0..0 |-> base]
  <2>1. f = [n \in 0..0 |-> IF n = 0 THEN base
                            ELSE IF max > 0 /\ f[n - 1] >= max \div 2 THEN max
                            ELSE 2 * f[n - 1]]
    OBVIOUS
  <2>2. IsDoubling(f, 0, base, max)
    BY <2>1 DEF IsDoubling
  <2>3. QED
    BY <2>2
<1>2. ASSUME NEW k \in Nat, k \in S PROVE k + 1 \in S
  <2>1. PICK g : IsDoubling(g, k, base, max)
    BY <1>2
  <2> DEFINE Next1(d) == IF max > 0 /\ d >= max \div 2 THEN max ELSE 2 * d
             f == [n \in 0..(k + 1) |-> IF n = k + 1 THEN Next1(g[k]) ELSE g[n]]
  <2>2. \A n \in 0..k : g[n] = IF n = 0 THEN base ELSE Next1(g[n - 1])
    BY <2>1 DEF IsDoubling
  <2>3. \A n \in 0..k : f[n] = g[n]
    OBVIOUS
  <2>4. f[k + 1] = Next1(g[k])
    OBVIOUS
  <2>5. f = [n \in 0..(k + 1) |-> f[n]]
    OBVIOUS
  <2> HIDE DEF f, Next1
  <2>6. ASSUME NEW n \in 0..(k + 1)
        PROVE  f[n] = IF n = 0 THEN base ELSE Next1(f[n - 1])
    <3>1. CASE n = k + 1
      <4>1. n # 0 /\ n - 1 = k /\ k \in 0..k
        BY <3>1
      <4>2. QED
        BY <2>3, <2>4, <3>1, <4>1
    <3>2. CASE n = 0
      <4>1. n \in 0..k
        BY <3>2
      <4>2. QED
        BY <2>2, <2>3, <3>2, <4>1
    <3>3. CASE n # 0 /\ n # k + 1
      <4>1. n \in 0..k /\ n - 1 \in 0..k
        BY <3>3
      <4>2. QED
        BY <2>2, <2>3, <3>3, <4>1
    <3>4. QED
      BY <3>1, <3>2, <3>3
  <2>7. f = [n \in 0..(k + 1) |-> IF n = 0 THEN base ELSE Next1(f[n - 1])]
    BY <2>5, <2>6
  <2>8. IsDoubling(f, k + 1, base, max)
    BY <2>7 DEF IsDoubling, Next1
  <2>9. QED
    BY <2>8
<1> HIDE DEF S
<1>3. \A k \in Nat : k \in S
  BY <1>1, <1>2, EveryNumber
<1>4. QED
  BY <1>3 DEF S

(* The delay is the doubled one, or the loop has reached the maximum, which *)
(* it does no earlier than at half of it, rounded down.                     *)
LEMMA DoublingValues ==
  ASSUME NEW base \in Nat \ {0}, NEW max \in Int, NEW k \in Nat, NEW f,
         IsDoubling(f, k, base, max)
  PROVE  \/ f[k] = base * 2^k
         \/ max > 0 /\ f[k] = max /\ base * 2^k >= 2 * (max \div 2)
<1> DEFINE Reached(n) ==
             \/ f[n] = base * 2^n
             \/ max > 0 /\ f[n] = max /\ base * 2^n >= 2 * (max \div 2)
           S == {n \in Nat : n <= k => Reached(n)}
<1>1. \A n \in 0..k : f[n] = IF n = 0 THEN base
                             ELSE IF max > 0 /\ f[n - 1] >= max \div 2 THEN max
                             ELSE 2 * f[n - 1]
  BY DEF IsDoubling
<1>2. 0 \in S
  <2>1. 0 \in 0..k
    OBVIOUS
  <2>2. f[0] = base
    BY <1>1, <2>1
  <2>3. 2^0 = 1
    OBVIOUS
  <2>4. base * 2^0 = base
    BY <2>3
  <2>5. QED
    BY <2>2, <2>4
<1>3. ASSUME NEW n \in Nat, n \in S PROVE n + 1 \in S
  <2> SUFFICES ASSUME n + 1 <= k PROVE Reached(n + 1)
    OBVIOUS
  <2> DEFINE p == base * 2^n  q == base * 2^(n + 1)  half == max \div 2
  <2>1. p \in Nat /\ q = 2 * p
    <3>1. 2^n \in Nat /\ 2^(n + 1) = 2 * 2^n
      BY PowersOfTwo
    <3> DEFINE x == 2^n  y == 2^(n + 1)
    <3> HIDE DEF x, y
    <3>2. x \in Nat /\ y = 2 * x
      BY <3>1 DEF x, y
    <3>3. base * x \in Nat /\ base * y = 2 * (base * x)
      BY <3>2
    <3>4. QED
      BY <3>3 DEF x, y
  <2>2. half \in Int /\ (max > 0 => 0 <= half /\ half <= max)
    OBVIOUS
  <2>3. n \in 0..k /\ n + 1 \in 0..k /\ n + 1 # 0 /\ (n + 1) - 1 = n
    OBVIOUS
  <2>4. f[n + 1] = IF max > 0 /\ f[n] >= half THEN max ELSE 2 * f[n]
    BY <1>1, <2>3
  <2>5. \/ f[n] = p
        \/ max > 0 /\ f[n] = max /\ p >= 2 * half
    BY <1>3, <2>3
  <2> HIDE DEF p, q, half
  <2>6. f[n + 1] = q \/ (max > 0 /\ f[n + 1] = max /\ q >= 2 * half)
    BY <2>1, <2>2, <2>4, <2>5
  <2>7. QED
    BY <2>6 DEF p, q, half
<1> HIDE DEF S
<1>4. k \in S
  BY <1>2, <1>3, EveryNumber
<1>5. QED
  BY <1>4 DEF S

(* docs/architecture.md: "doubles from the configured base delay, is        *)
(* capped"; the cap can come one unit early, and is never exceeded.         *)
LEMMA BackoffDoubles ==
  ASSUME NEW base \in Nat \ {0}, NEW max \in Int, NEW k \in Nat
  PROVE  LET documented == IF max > 0 /\ base * 2^k > max THEN max ELSE base * 2^k
         IN  /\ documented \in Nat /\ Backoff(k, base, max) \in Nat
             /\ documented <= Backoff(k, base, max)
             /\ Backoff(k, base, max) <= documented + 1
             /\ Backoff(k, base, max) <= IF max > 0 THEN max ELSE base * 2^k
<1> DEFINE f == CHOOSE g : IsDoubling(g, k, base, max)
           p == base * 2^k
           half == max \div 2
<1>1. Backoff(k, base, max) = IF max > 0 /\ f[k] > max THEN max ELSE f[k]
  BY DEF Backoff, IsDoubling
<1>2. IsDoubling(f, k, base, max)
  BY DoublingExists
<1> HIDE DEF f
<1>3. f[k] = p \/ (max > 0 /\ f[k] = max /\ p >= 2 * half)
  BY <1>2, DoublingValues
<1>4. p \in Nat
  <2> DEFINE x == 2^k
  <2>1. x \in Nat
    BY PowersOfTwo
  <2> HIDE DEF x
  <2>2. base * x \in Nat
    BY <2>1
  <2>3. QED
    BY <2>2 DEF x
<1>5. half \in Int /\ 2 * half >= max - 1
  OBVIOUS
<1> HIDE DEF p, half
<1>6. LET documented == IF max > 0 /\ p > max THEN max ELSE p
      IN  /\ documented \in Nat /\ Backoff(k, base, max) \in Nat
          /\ documented <= Backoff(k, base, max)
          /\ Backoff(k, base, max) <= documented + 1
          /\ Backoff(k, base, max) <= IF max > 0 THEN max ELSE p
  BY <1>1, <1>3, <1>4, <1>5
<1>7. QED
  BY <1>6 DEF p

(* A wait is one that retryDelay returned for the retries so far.           *)
DelayInv ==
  /\ delays \in Delays
  /\ loop = "waiting" => delay \in RetryDelays(attempt, delays.base, delays.max)

LEMMA DelayStep == DelayInv /\ [RetryNext]_allVars => DelayInv'
<1> SUFFICES ASSUME DelayInv, [RetryNext]_allVars PROVE DelayInv'
  OBVIOUS
<1>1. CASE UNCHANGED retry
  BY <1>1 DEF DelayInv, retry
<1>2. CASE Backs
  <2>1. delays' = delays /\ attempt' = attempt
    BY <1>2 DEF Backs
  <2>2. delay' \in RetryDelays(attempt, delays.base, delays.max)
    BY <1>2 DEF Backs
  <2>3. QED
    BY <2>1, <2>2 DEF DelayInv
<1>3. CASE WaitPasses
  BY <1>3 DEF WaitPasses, DelayInv
<1>4. CASE Judge \/ NextProbe \/ RetryCancelled
  BY <1>4 DEF Judge, NextProbe, RetryCancelled, DelayInv
<1>5. QED
  BY <1>1, <1>2, <1>3, <1>4 DEF RetryNext, CheckStep, CancelWhileWaiting, allVars

LEMMA DelaysAsDocumented ==
  ASSUME DelayInv, attempt \in Nat
  PROVE  BackoffAsDocumented
<1> SUFFICES ASSUME loop = "waiting"
             PROVE  IF delays.base <= 0 THEN delay = 0
                    ELSE /\ 10 * (delay + 1) > 8 * DocumentedBackoff
                         /\ 10 * delay <= 12 * (DocumentedBackoff + 1)
  BY DEF BackoffAsDocumented
<1> DEFINE base == delays.base  max == delays.max  back == Backoff(attempt, base, max)
<1>1. base \in Int /\ max \in Int /\ delay \in RetryDelays(attempt, base, max)
  BY RetryAssumption DEF DelayInv
<1> HIDE DEF base, max
<1>2. CASE base <= 0
  BY <1>1, <1>2 DEF RetryDelays, base
<1>3. CASE ~(base <= 0)
  <2>1. base \in Nat \ {0}
    BY <1>1, <1>3
  <2>2. DocumentedBackoff = IF max > 0 /\ base * 2^attempt > max THEN max ELSE base * 2^attempt
    BY DEF DocumentedBackoff, base, max
  <2>3. /\ DocumentedBackoff \in Nat /\ back \in Nat
        /\ DocumentedBackoff <= back /\ back <= DocumentedBackoff + 1
    BY <1>1, <2>1, <2>2, BackoffDoubles
  <2>4. delay \in ((8 * back) \div 10)..((12 * back) \div 10)
    BY <1>1, <1>3 DEF RetryDelays
  <2> HIDE DEF back
  <2>5. 10 * (delay + 1) > 8 * back /\ 10 * delay <= 12 * back
    <3> DEFINE low == (8 * back) \div 10  high == (12 * back) \div 10
    <3>1. /\ low \in Int /\ 10 * (low + 1) > 8 * back
          /\ high \in Int /\ 10 * high <= 12 * back
      BY <2>3
    <3>2. delay \in low..high
      BY <2>4
    <3> HIDE DEF low, high
    <3>3. QED
      BY <2>3, <3>1, <3>2
  <2>6. /\ 10 * (delay + 1) > 8 * DocumentedBackoff
        /\ 10 * delay <= 12 * (DocumentedBackoff + 1)
    <3>1. delay \in Int
      BY <2>3, <2>4
    <3>2. QED
      BY <2>3, <2>5, <3>1
  <2>7. QED
    BY <1>3, <2>6 DEF base
<1>4. QED
  BY <1>2, <1>3

(* docs/architecture.md: "Backoff doubles from the configured base delay,   *)
(* is capped, and receives +/-20% jitter", for any delays and any number of *)
(* retries, within the unit that rounding takes.                            *)
THEOREM BackoffIsAsDocumented == RetrySpec => []BackoffAsDocumented
<1>1. RetryInit => DelayInv
  BY DEF RetryInit, DelayInv
<1>2. RetryInv => attempt \in Nat
  BY RetryAssumption DEF RetryInv, ProbesCounted
<1>3. DelayInv /\ RetryInv => BackoffAsDocumented
  BY <1>2, DelaysAsDocumented
<1>4. QED
  BY <1>1, <1>3, DelayStep, RetryInvariant, PTL DEF RetrySpec

-----------------------------------------------------------------------------
(* How long a check with its retries takes at most.                         *)

LEMMA PowersGrow ==
  ASSUME NEW k \in Nat
  PROVE  \A m \in Nat : 2^k <= 2^(k + m)
<1> DEFINE S == {m \in Nat : 2^k <= 2^(k + m)}
<1>1. 0 \in S
  <2>1. 2^k \in Nat /\ k + 0 = k
    BY PowersOfTwo
  <2>2. QED
    BY <2>1
<1>2. ASSUME NEW m \in Nat, m \in S PROVE m + 1 \in S
  <2> DEFINE x == 2^k  y == 2^(k + m)  z == 2^(k + m + 1)
  <2>1. x \in Nat /\ y \in Nat /\ z = 2 * y /\ x <= y
    BY <1>2, PowersOfTwo
  <2>2. k + (m + 1) = k + m + 1
    OBVIOUS
  <2> HIDE DEF x, y, z
  <2>3. x <= z
    BY <2>1
  <2>4. 2^k <= 2^(k + (m + 1))
    BY <2>2, <2>3 DEF x, z
  <2>5. QED
    BY <2>4
<1> HIDE DEF S
<1>3. \A m \in Nat : m \in S
  BY <1>1, <1>2, EveryNumber
<1>4. QED
  BY <1>3 DEF S

(* The delay without the random factor, for any of the retries.             *)
LEMMA BackoffIsShort ==
  ASSUME NEW base \in Nat \ {0}, NEW max \in Int, NEW k \in 0..Retries
  PROVE  LET longest == IF max > 0 THEN max ELSE base * 2^Retries
         IN  longest \in Nat /\ Backoff(k, base, max) \in 0..longest
<1> DEFINE x == 2^k  y == 2^Retries  back == Backoff(k, base, max)
<1>1. k \in Nat /\ Retries \in Nat /\ Retries - k \in Nat /\ k + (Retries - k) = Retries
  BY RetryAssumption
<1>2. x \in Nat /\ y \in Nat /\ x <= y
  BY <1>1, PowersOfTwo, PowersGrow
<1>3. back \in Nat /\ back <= IF max > 0 THEN max ELSE base * x
  BY <1>1, BackoffDoubles
<1> HIDE DEF x, y, back
<1>4. base * x \in Nat /\ base * y \in Nat /\ base * x <= base * y
  BY <1>2
<1>5. LET longest == IF max > 0 THEN max ELSE base * y
      IN  longest \in Nat /\ back \in 0..longest
  BY <1>3, <1>4
<1>6. QED
  BY <1>5 DEF y, back

(* What retryDelay returns while retries are left.                          *)
LEMMA DelayIsShort ==
  ASSUME delays \in Delays, NEW k \in 0..Retries
  PROVE  /\ LongestWait \in Nat
         /\ \A d \in RetryDelays(k, delays.base, delays.max) : d \in 0..LongestWait
<1> DEFINE base == delays.base  max == delays.max  back == Backoff(k, base, max)
           longest == IF max > 0 THEN max ELSE base * 2^Retries
<1>1. base \in Int /\ max \in Int
  BY RetryAssumption
<1>2. LongestWait = IF base <= 0 THEN 0 ELSE (12 * longest) \div 10
  BY DEF LongestWait
<1> SUFFICES LongestWait \in Nat /\ \A d \in RetryDelays(k, base, max) : d \in 0..LongestWait
  OBVIOUS
<1> HIDE DEF base, max
<1>3. CASE base <= 0
  BY <1>1, <1>2, <1>3 DEF RetryDelays
<1>4. CASE ~(base <= 0)
  <2>1. base \in Nat \ {0}
    BY <1>1, <1>4
  <2>2. longest \in Nat /\ back \in 0..longest
    BY <1>1, <2>1, BackoffIsShort
  <2>3. RetryDelays(k, base, max) = ((8 * back) \div 10)..((12 * back) \div 10)
    BY <1>4 DEF RetryDelays
  <2>4. LongestWait = (12 * longest) \div 10
    BY <1>2, <1>4
  <2> HIDE DEF longest, back
  <2>5. (8 * back) \div 10 >= 0 /\ (12 * back) \div 10 <= (12 * longest) \div 10
    BY <2>2
  <2>6. (8 * back) \div 10 \in Int /\ (12 * back) \div 10 \in Int /\ (12 * longest) \div 10 \in Nat
    BY <2>2
  <2> DEFINE low == (8 * back) \div 10  high == (12 * back) \div 10  top == (12 * longest) \div 10
  <2> HIDE DEF low, high, top
  <2>7. 0 <= low /\ high <= top /\ low \in Int /\ high \in Int /\ top \in Nat
    BY <2>5, <2>6 DEF low, high, top
  <2>8. LongestWait = top /\ RetryDelays(k, base, max) = low..high
    BY <2>3, <2>4 DEF low, high, top
  <2>9. QED
    BY <2>7, <2>8
<1>5. QED
  BY <1>3, <1>4

(* The timer is set to the delay and runs down.                             *)
WaitInv == loop = "waiting" => delay \in Nat /\ wait \in 0..delay
TimeInv == RetryInv /\ DelayInv /\ WaitInv

LEMMA WaitStep == RetryInv /\ DelayInv /\ WaitInv /\ [RetryNext]_allVars => WaitInv'
<1> SUFFICES ASSUME RetryInv, DelayInv, WaitInv, [RetryNext]_allVars PROVE WaitInv'
  OBVIOUS
<1>1. CASE UNCHANGED retry
  BY <1>1 DEF WaitInv, retry
<1>2. CASE Backs
  <2>1. delays \in Delays /\ attempt \in 0..Retries
    BY DEF DelayInv, RetryInv, ProbesCounted
  <2>2. delay' \in RetryDelays(attempt, delays.base, delays.max) /\ wait' = delay'
    BY <1>2 DEF Backs
  <2>3. LongestWait \in Nat /\ delay' \in 0..LongestWait
    BY <2>1, <2>2, DelayIsShort
  <2>4. QED
    BY <2>2, <2>3 DEF WaitInv
<1>3. CASE WaitPasses
  BY <1>3 DEF WaitPasses, WaitInv
<1>4. CASE Judge \/ NextProbe \/ RetryCancelled
  BY <1>4 DEF Judge, NextProbe, RetryCancelled, WaitInv
<1>5. QED
  BY <1>1, <1>2, <1>3, <1>4 DEF RetryNext, CheckStep, CancelWhileWaiting, allVars

(* The turns left after this one: plain arithmetic for the steps below.     *)
LEMMA OneTurnLess ==
  ASSUME NEW n \in Nat, NEW k \in Nat
  PROVE  /\ n * k \in Nat /\ 0 * k = 0
         /\ n # 0 => n - 1 \in Nat /\ (n - 1) * k \in Nat /\ n * k = k + (n - 1) * k
         /\ \A m \in Nat : n <= m => m * k \in Nat /\ n * k <= m * k
OBVIOUS

LEMMA SumsKeepOrder ==
  \A x, y, z \in Int : (x <= y => x + z <= y + z) /\ (x < y => x + z < y + z)
OBVIOUS

(* The time left is never more than the longest check.                      *)
LEMMA TimeLeftRange ==
  ASSUME TimeInv
  PROVE  /\ loop # "returned" => ProbeLeft \in 0..(2 * Timeout)
         /\ LongestWait \in Nat /\ Turn \in Nat /\ Retries - attempt \in Nat
         /\ loop = "waiting" => wait \in 0..LongestWait /\ Retries - attempt # 0
         /\ TimeLeft \in 0..LongestCheck
<1> USE CheckerAssumption, RetryAssumption
<1>1. attempt \in 0..Retries /\ (loop = "waiting" => attempt < Retries)
  BY DEF TimeInv, RetryInv, ProbesCounted
<1>2. LongestWait \in Nat /\ (loop = "waiting" => delay \in 0..LongestWait)
  BY <1>1, DelayIsShort DEF TimeInv, DelayInv
<1>3. Turn = LongestWait + 2 * Timeout /\ Turn \in Nat
  BY <1>2 DEF Turn
<1>4. loop = "waiting" => wait \in 0..LongestWait
  BY <1>2 DEF TimeInv, WaitInv
<1>5. loop # "returned" => ProbeLeft \in 0..(2 * Timeout)
  <2>1. CASE loop = "checking"
    BY <2>1 DEF TimeInv, RetryInv, CheckerInv, TypeOK, ProbeLeft, Stage, Network
  <2>2. CASE loop = "waiting"
    BY <2>2 DEF TimeInv, RetryInv, BetweenProbes, ProbeLeft
  <2>3. QED
    BY <2>1, <2>2 DEF TimeInv, RetryInv
<1>6. TimeLeft \in 0..LongestCheck
  <2> DEFINE n == Retries - attempt
  <2>1. n \in Nat /\ n <= Retries /\ (loop = "waiting" => n # 0)
    BY <1>1
  <2> DEFINE all == Retries * Turn  now == n * Turn  next == (n - 1) * Turn
  <2>2. /\ all \in Nat /\ now \in Nat /\ now <= all
        /\ loop = "waiting" => next \in Nat /\ now = Turn + next
    BY <1>3, <2>1, OneTurnLess
  <2>3. LongestCheck = 2 * Timeout + all
    BY DEF LongestCheck
  <2>4. /\ loop = "checking" => TimeLeft = ProbeLeft + now
        /\ loop = "waiting" => TimeLeft = wait + 2 * Timeout + next
        /\ loop = "returned" => TimeLeft = 0
    BY DEF TimeLeft
  <2>5. loop \in {"checking", "waiting", "returned"}
    BY DEF TimeInv, RetryInv
  <2> HIDE DEF all, now, next, n
  <2>6. QED
    BY <1>2, <1>3, <1>4, <1>5, <2>2, <2>3, <2>4, <2>5
<1>7. QED
  BY <1>1, <1>2, <1>3, <1>4, <1>5, <1>6

(* No step of a probe gives back what its timeouts have counted.            *)
LEMMA ProbeLeftFalls ==
  ASSUME CheckerInv, Check \/ TimePasses \/ Cancel
  PROVE  ProbeLeft' <= ProbeLeft /\ (TimePasses => ProbeLeft' < ProbeLeft)
<1> USE CheckerAssumption DEF ProbeLeft, Network
<1>1. left \in 0..Timeout
  BY DEF CheckerInv, TypeOK
<1>2. CASE NoHost \/ Lookup \/ LookupFails \/ Resolved
  BY <1>1, <1>2 DEF NoHost, Lookup, LookupFails, Resolved, TimePasses
<1>3. CASE ConnectFails \/ ConnectTCP \/ ConnectTLS \/ Respond
  <2>1. stage = "connecting" /\ stage' \in {"measuring", "reading"} /\ left' = left
    BY <1>3 DEF ConnectFails, ConnectTCP, ConnectTLS, Respond
  <2>2. TimePasses => stage' = stage
    BY DEF TimePasses
  <2>3. QED
    BY <1>1, <2>1, <2>2
<1>4. CASE ReadBody \/ ReadFails \/ Measure
  BY <1>1, <1>4 DEF ReadBody, ReadFails, Measure, TimePasses
<1>5. CASE TimePasses
  BY <1>1, <1>5 DEF TimePasses
<1>6. CASE Cancel
  <2>1. stage' = stage /\ left' = left
    BY <1>6 DEF Cancel
  <2>2. ~TimePasses
    BY <1>1, <2>1 DEF TimePasses
  <2>3. ProbeLeft' = ProbeLeft /\ ProbeLeft \in Int
    BY <1>1, <2>1
  <2>4. QED
    BY <2>2, <2>3
<1>7. QED
  BY <1>2, <1>3, <1>4, <1>5, <1>6 DEF Check

(* No step of Retry does, and a unit of time that passes is counted.        *)
TimeFalls ==
  /\ TimeLeft' <= TimeLeft
  /\ CheckStep(TimePasses) \/ WaitPasses => TimeLeft' < TimeLeft

LEMMA TimeStep ==
  ASSUME TimeInv, TimeInv', [RetryNext]_allVars
  PROVE  TimeFalls \/ UNCHANGED allVars
<1> SUFFICES ASSUME RetryNext PROVE TimeFalls \/ UNCHANGED allVars
  OBVIOUS
<1> USE CheckerAssumption, RetryAssumption
<1> DEFINE n == Retries - attempt  now == n * Turn  next == (n - 1) * Turn
<1>1. /\ n \in Nat /\ Turn \in Nat /\ Turn = LongestWait + 2 * Timeout
      /\ loop # "returned" => ProbeLeft \in 0..(2 * Timeout)
      /\ TimeLeft \in Nat
      /\ loop = "waiting" => wait \in 0..LongestWait /\ n # 0
  BY TimeLeftRange DEF Turn
<1>2. now \in Nat /\ (n # 0 => next \in Nat /\ now = Turn + next)
  BY <1>1, OneTurnLess
<1>3. /\ loop = "checking" => TimeLeft = ProbeLeft + now
      /\ loop = "waiting" => TimeLeft = wait + 2 * Timeout + next
      /\ loop = "returned" => TimeLeft = 0
  BY DEF TimeLeft
<1>4. delays' = delays
  BY DEF RetryNext, CheckStep, CancelWhileWaiting, retry, Judge, Backs, WaitPasses, NextProbe,
         RetryCancelled, allVars
<1>5. Turn' = Turn
  BY <1>4 DEF Turn, LongestWait
<1>6. CASE CheckStep(Check \/ TimePasses \/ Cancel)
  <2>1. loop = "checking" /\ loop' = "checking" /\ attempt' = attempt
    BY <1>6 DEF CheckStep, retry
  <2>2. ProbeLeft' <= ProbeLeft /\ (TimePasses => ProbeLeft' < ProbeLeft)
    BY <1>6, <2>1, ProbeLeftFalls DEF TimeInv, RetryInv, CheckStep
  <2>3. ProbeLeft' \in Int
    BY <1>6, <2>1 DEF TimeInv, RetryInv, CheckerInv, TypeOK, ProbeLeft, Stage, Network
  <2>4. TimeLeft' = ProbeLeft' + now
    BY <1>5, <2>1 DEF TimeLeft
  <2>5. ~WaitPasses /\ (CheckStep(TimePasses) => TimePasses)
    BY <2>1 DEF WaitPasses, CheckStep
  <2> HIDE DEF now, next, n
  <2>6. ProbeLeft \in Int /\ now \in Int /\ TimeLeft = ProbeLeft + now
    BY <1>1, <1>2, <1>3, <2>1
  <2>7. TimeLeft' <= TimeLeft
    <3>1. ProbeLeft' + now <= ProbeLeft + now
      BY <2>2, <2>3, <2>6, SumsKeepOrder
    <3>2. QED
      BY <2>4, <2>6, <3>1
  <2>8. ASSUME TimePasses PROVE TimeLeft' < TimeLeft
    <3>1. ProbeLeft' < ProbeLeft
      BY <2>2, <2>8
    <3>2. ProbeLeft' + now < ProbeLeft + now
      BY <2>3, <2>6, <3>1, SumsKeepOrder
    <3>3. QED
      BY <2>4, <2>6, <3>2
  <2>9. QED
    BY <2>5, <2>7, <2>8 DEF TimeFalls
<1>7. CASE Judge \/ RetryCancelled
  <2>1. TimeLeft' = 0 /\ ~WaitPasses /\ ~CheckStep(TimePasses)
    BY <1>7 DEF TimeLeft, Judge, RetryCancelled, WaitPasses, CheckStep, retry
  <2>2. QED
    BY <1>1, <2>1 DEF TimeFalls
<1>8. CASE Backs
  <2>1. /\ loop = "checking" /\ loop' = "waiting" /\ attempt' = attempt
        /\ ~WaitPasses /\ ~CheckStep(TimePasses)
    BY <1>8 DEF Backs, WaitPasses, CheckStep, retry
  <2>2. n # 0
    BY <1>1, <1>8 DEF Backs, TimeInv, RetryInv, ProbesCounted
  <2>3. wait' \in 0..LongestWait
    <3>1. delays \in Delays /\ attempt \in 0..Retries
      BY DEF TimeInv, DelayInv, RetryInv, ProbesCounted
    <3>2. wait' \in RetryDelays(attempt, delays.base, delays.max)
      BY <1>8 DEF Backs
    <3>3. QED
      BY <3>1, <3>2, DelayIsShort
  <2>4. TimeLeft' = wait' + 2 * Timeout + next
    BY <1>5, <2>1 DEF TimeLeft
  <2>5. LongestWait \in Nat
    BY TimeLeftRange
  <2> HIDE DEF now, next, n
  <2>6. TimeLeft' <= TimeLeft
    BY <1>1, <1>2, <1>3, <2>1, <2>2, <2>3, <2>4, <2>5
  <2>7. QED
    BY <2>1, <2>6 DEF TimeFalls
<1>9. CASE WaitPasses
  <2>1. /\ loop = "waiting" /\ loop' = "waiting" /\ attempt' = attempt /\ wait' = wait - 1
        /\ ~CheckStep(TimePasses)
    BY <1>9 DEF WaitPasses, CheckStep
  <2>2. TimeLeft' = wait' + 2 * Timeout + next
    BY <1>5, <2>1 DEF TimeLeft
  <2> HIDE DEF now, next, n
  <2>3. wait \in Int /\ next \in Int
    BY <1>1, <1>2, <2>1
  <2>4. QED
    BY <1>3, <2>1, <2>2, <2>3 DEF TimeFalls
<1>10. CASE CancelWhileWaiting
  <2>1. /\ loop = "waiting" /\ loop' = "waiting" /\ attempt' = attempt /\ wait' = wait
        /\ ~CheckStep(TimePasses) /\ ~WaitPasses
    BY <1>1, <1>10 DEF CancelWhileWaiting, Cancel, retry, CheckStep, WaitPasses
  <2>2. TimeLeft' = wait' + 2 * Timeout + next
    BY <1>5, <2>1 DEF TimeLeft
  <2>3. TimeLeft' = TimeLeft
    BY <1>3, <2>1, <2>2
  <2>4. QED
    BY <1>1, <2>1, <2>3 DEF TimeFalls
<1>11. CASE NextProbe
  <2>1. /\ loop = "waiting" /\ loop' = "checking" /\ attempt' = attempt + 1 /\ wait = 0
        /\ ~CheckStep(TimePasses) /\ ~WaitPasses
    BY <1>11 DEF NextProbe, CheckStep, WaitPasses
  <2>2. stage' = "started"
    BY <1>11, <2>1 DEF NextProbe, TimeInv, RetryInv, BetweenProbes
  <2>3. ProbeLeft' = 2 * Timeout
    BY <2>2 DEF ProbeLeft
  <2>4. Retries - attempt' = n - 1
    BY <1>1, <2>1 DEF TimeInv, RetryInv, ProbesCounted
  <2>5. TimeLeft' = ProbeLeft' + next
    BY <1>5, <2>1, <2>4 DEF TimeLeft
  <2>6. TimeLeft' = TimeLeft
    <3> HIDE DEF next, now, n
    <3>1. next \in Nat
      BY <1>1, <1>2, <2>1
    <3>2. QED
      BY <1>3, <2>1, <2>3, <2>5, <3>1
  <2>7. QED
    BY <1>1, <2>1, <2>6 DEF TimeFalls
<1>12. QED
  BY <1>6, <1>7, <1>8, <1>9, <1>10, <1>11 DEF RetryNext, CheckStep

(* A check with its retries holds a worker and a slot for at most two       *)
(* timeouts per probe and the longest wait between two probes, for any      *)
(* timeout, any number of retries, any delays and any targets, and no step  *)
(* sets back what has passed of it.                                         *)
THEOREM ChecksEndInTime == RetrySpec => RetryEndsInTime
<1>1. RetryInit => TimeInv
  BY RetryInitially DEF RetryInit, TimeInv, DelayInv, WaitInv
<1>2. TimeInv /\ [RetryNext]_allVars => TimeInv'
  BY DelayStep, WaitStep, RetryStep DEF TimeInv
<1>3. TimeInv => TimeLeft \in 0..LongestCheck
  BY TimeLeftRange
<1>4. TimeInv /\ TimeInv' /\ [RetryNext]_allVars => [TimeFalls]_allVars
  BY TimeStep
<1>5. TimeFalls <=> /\ TimeLeft' <= TimeLeft
                    /\ CheckStep(TimePasses) \/ WaitPasses => TimeLeft' < TimeLeft
  BY DEF TimeFalls
<1>6. QED
  BY <1>1, <1>2, <1>3, <1>4, <1>5, PTL DEF RetrySpec, RetryEndsInTime
=============================================================================

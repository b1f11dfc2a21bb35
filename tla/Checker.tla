------------------------------ MODULE Checker ------------------------------
(***************************************************************************)
(* One call of Checker.Check in internal/checker/checker.go: the name of   *)
(* the host, its resolution, the HTTP, TCP or TLS check, the certificate,  *)
(* the latency, and the state each of them leaves in the result.  What the *)
(* target is like is fixed for the call; when it answers, if it does, is   *)
(* not.                                                                    *)
(*                                                                         *)
(* The context of a network step ends with its timeout or with the root    *)
(* context; both are the moment at which the step can do nothing but fail. *)
(***************************************************************************)
EXTENDS Naturals

CONSTANTS
  Timeout,       \* endpoint.Timeout, in units of time
  LatencyTarget  \* endpoint.LatencyTarget; 0 for none

ASSUME CheckerAssumption == Timeout \in Nat \ {0} /\ LatencyTarget \in Nat

VARIABLES
  stage,       \* where Check is
  target,      \* what the check of this endpoint would find
  left,        \* time left of the timeout of the network step under way
  latency,     \* c.Now().Sub(started)
  state,       \* result.State
  cancelled,   \* the root context is cancelled
  interrupted  \* ghost: a network step ended by its context

vars == <<stage, target, left, latency, state, cancelled, interrupted>>

Network == {"resolving", "connecting", "reading"}
Stage == Network \cup {"started", "measuring", "returned"}
State == {"Healthy", "Degraded", "Unavailable", "Unknown"}

(* HTTP addresses with and without TLS are two kinds; config.Validate lets  *)
(* no others reach the default case.  A certificate that the handshake of   *)
(* an unconfigured TLSConfig does not refuse can still be unverified, with  *)
(* another TLSConfig, or have expired since.                                *)
Kind == {"http", "https", "tcp", "tls"}
Certificate == {"refused", "unverified", "expired", "expiring", "good"}
Target == [kind : Kind, hasHost : BOOLEAN, resolves : BOOLEAN, accepts : BOOLEAN,
           certificate : Certificate, bodyFits : BOOLEAN, statusExpected : BOOLEAN,
           textFound : BOOLEAN]

UsesTLS == target.kind \in {"https", "tls"}
HandshakeRefused == UsesTLS /\ target.certificate = "refused"
ContextEnded == cancelled \/ left = 0

Init ==
  /\ stage = "started"
  /\ target \in Target
  /\ left = 0
  /\ latency = 0
  /\ state = "Unknown"
  /\ cancelled \in BOOLEAN
  /\ interrupted = FALSE

-----------------------------------------------------------------------------
(* A network step goes on, within the timeout of its context.               *)
TimePasses ==
  /\ stage \in Network
  /\ left > 0
  /\ left' = left - 1
  /\ latency' = latency + 1
  /\ UNCHANGED <<stage, target, state, cancelled, interrupted>>

(* The root context is cancelled.                                           *)
Cancel ==
  /\ ~cancelled
  /\ cancelled' = TRUE
  /\ UNCHANGED <<stage, target, left, latency, state, interrupted>>

(* failed                                                                   *)
Failed == state' = "Unavailable"

(* endpointHost: an address may have a port and no host.                    *)
NoHost ==
  /\ stage = "started"
  /\ ~target.hasHost
  /\ Failed
  /\ stage' = "returned"
  /\ UNCHANGED <<target, left, latency, cancelled, interrupted>>

Lookup ==
  /\ stage = "started"
  /\ target.hasHost
  /\ left' = Timeout
  /\ stage' = "resolving"
  /\ UNCHANGED <<target, latency, state, cancelled, interrupted>>

LookupFails ==
  /\ stage = "resolving"
  /\ ~target.resolves \/ ContextEnded
  /\ interrupted' = (target.resolves /\ ContextEnded)
  /\ Failed
  /\ stage' = "returned"
  /\ UNCHANGED <<target, left, latency, cancelled>>

(* The check of the type of the endpoint starts, with a timeout of its own. *)
Resolved ==
  /\ stage = "resolving"
  /\ target.resolves
  /\ left' = Timeout
  /\ stage' = "connecting"
  /\ UNCHANGED <<target, latency, state, cancelled, interrupted>>

-----------------------------------------------------------------------------
(* The dial, the handshake or client.Do returns an error.                   *)
ConnectFails ==
  /\ stage = "connecting"
  /\ ~target.accepts \/ HandshakeRefused \/ ContextEnded
  /\ interrupted' = (target.accepts /\ ~HandshakeRefused)
  /\ Failed
  /\ stage' = "measuring"
  /\ UNCHANGED <<target, left, latency, cancelled>>

(* applyTLS on a result whose state is Unknown                              *)
StateByCertificate ==
  IF target.certificate \in {"unverified", "expired"} THEN "Unavailable"
  ELSE IF target.certificate = "expiring" THEN "Degraded" ELSE "Unknown"

(* checkTCP                                                                 *)
ConnectTCP ==
  /\ stage = "connecting"
  /\ target.kind = "tcp" /\ target.accepts
  /\ state' = "Healthy"
  /\ stage' = "measuring"
  /\ UNCHANGED <<target, left, latency, cancelled, interrupted>>

(* checkTLS                                                                 *)
ConnectTLS ==
  /\ stage = "connecting"
  /\ target.kind = "tls" /\ target.accepts /\ ~HandshakeRefused
  /\ state' = IF StateByCertificate = "Unknown" THEN "Healthy" ELSE StateByCertificate
  /\ stage' = "measuring"
  /\ UNCHANGED <<target, left, latency, cancelled, interrupted>>

(* Mutant: the body is read with a timeout of its own.                      *)
RespondRestartsTimeout ==
  /\ stage = "connecting"
  /\ target.kind \in {"http", "https"} /\ target.accepts /\ ~HandshakeRefused
  /\ state' = IF UsesTLS THEN StateByCertificate ELSE "Unknown"
  /\ stage' = IF state' = "Unavailable" THEN "measuring" ELSE "reading"
  /\ left' = Timeout
  /\ UNCHANGED <<target, latency, cancelled, interrupted>>

(* checkHTTP: the header of the last response is there.                     *)
Respond ==
  /\ stage = "connecting"
  /\ target.kind \in {"http", "https"} /\ target.accepts /\ ~HandshakeRefused
  /\ state' = IF UsesTLS THEN StateByCertificate ELSE "Unknown"
  /\ stage' = IF state' = "Unavailable" THEN "measuring" ELSE "reading"
  /\ UNCHANGED <<target, left, latency, cancelled, interrupted>>

BodyPasses == target.bodyFits /\ target.statusExpected /\ target.textFound

(* Mutant: a passing body forgets what the certificate said.                *)
ReadBodyHealthy ==
  /\ stage = "reading"
  /\ state' = IF BodyPasses THEN "Healthy" ELSE "Unavailable"
  /\ stage' = "measuring"
  /\ UNCHANGED <<target, left, latency, cancelled, interrupted>>

(* checkHTTP: the body is read to its end or to the inspection limit.       *)
ReadBody ==
  /\ stage = "reading"
  /\ state' = IF ~BodyPasses THEN "Unavailable"
              ELSE IF state = "Degraded" THEN "Degraded" ELSE "Healthy"
  /\ stage' = "measuring"
  /\ UNCHANGED <<target, left, latency, cancelled, interrupted>>

ReadFails ==
  /\ stage = "reading"
  /\ ContextEnded
  /\ interrupted' = TRUE
  /\ Failed
  /\ stage' = "measuring"
  /\ UNCHANGED <<target, left, latency, cancelled>>

(* The end of Check.                                                        *)
Measure ==
  /\ stage = "measuring"
  /\ state' = IF state = "Healthy" /\ LatencyTarget > 0 /\ latency > LatencyTarget
                THEN "Degraded" ELSE state
  /\ stage' = "returned"
  /\ UNCHANGED <<target, left, latency, cancelled, interrupted>>

-----------------------------------------------------------------------------
Check ==
  \/ NoHost \/ Lookup \/ LookupFails \/ Resolved
  \/ ConnectFails \/ ConnectTCP \/ ConnectTLS \/ Respond
  \/ ReadBody \/ ReadFails \/ Measure

Returned == stage = "returned" /\ UNCHANGED vars

Next == Check \/ TimePasses \/ Cancel \/ Returned

Spec == Init /\ [][Next]_vars
-----------------------------------------------------------------------------
TypeOK ==
  /\ stage \in Stage
  /\ target \in Target
  /\ left \in 0..Timeout
  /\ latency \in Nat
  /\ state \in State
  /\ cancelled \in BOOLEAN
  /\ interrupted \in BOOLEAN

(* The first three rows of README.md's table of states, whatever the order  *)
(* in which the check runs into them.                                       *)
ExpectationsPass ==
  /\ target.hasHost /\ target.resolves /\ target.accepts
  /\ UsesTLS => target.certificate \in {"expiring", "good"}
  /\ target.kind \in {"http", "https"} => BodyPasses
  /\ ~interrupted
Worsened ==
  \/ LatencyTarget > 0 /\ latency > LatencyTarget
  \/ UsesTLS /\ target.certificate = "expiring"

(* The state that Check returns is the one of the table: an outage is not   *)
(* hidden by a warning found before it, a warning not by a check passed     *)
(* after it, and Unknown is never returned.                                 *)
StateAsDocumented ==
  stage = "returned" =>
    /\ state \in {"Healthy", "Degraded", "Unavailable"}
    /\ state = "Unavailable" <=> ~ExpectationsPass
    /\ state = "Degraded" <=> ExpectationsPass /\ Worsened

(* A check takes at most two timeouts, the resolution's and the one that    *)
(* connection, handshake, redirects and body share.                         *)
TwoTimeouts == latency <= 2 * Timeout
=============================================================================

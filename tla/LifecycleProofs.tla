-------------------------- MODULE LifecycleProofs --------------------------
(***************************************************************************)
(* Proofs about Lifecycle: for every set of configuration files, what a    *)
(* loaded configuration guarantees, and which ends the process can have.   *)
(***************************************************************************)
EXTENDS Lifecycle, TLAPS

(* The defaults keep the shape of an endpoint and of a configuration.       *)
LEMMA EndpointDefaultsFit ==
  ASSUME NEW e \in EndpointConfig
  PROVE  /\ EndpointWithDefaults(e) \in EndpointConfig
         /\ EndpointWithDefaults(e).type = "http" =>
              EndpointWithDefaults(e).expectedStatus # 0
<1> DEFINE filled == Fill(e, EndpointDefaults)
<1> DEFINE dependent == Fill(filled, [sloLatency |-> filled.latencyTarget])
<1>1. filled \in EndpointConfig /\ filled.type = e.type
  BY DEF Fill, EndpointDefaults, EndpointConfig, Second, Day
<1>2. dependent \in EndpointConfig /\ dependent.type = e.type
  <2> HIDE DEF filled
  <2> QED
    BY <1>1 DEF Fill, EndpointConfig
<1>3. EndpointWithDefaults(e) =
        Fill(dependent, [expectedStatus |-> IF e.type = "http" THEN 200 ELSE 0])
  BY DEF EndpointWithDefaults
<1>4. QED
  <2> HIDE DEF dependent
  <2> QED
    BY <1>2, <1>3 DEF Fill, EndpointConfig

LEMMA SettingDefaultsFit ==
  ASSUME NEW settings \in [Setting -> Int]
  PROVE  /\ SettingsWithDefaults(settings) \in [Setting -> Int]
         /\ \A f \in DOMAIN SettingDefaults : SettingsWithDefaults(settings)[f] # 0
<1> DEFINE filled == Fill(settings, SettingDefaults)
<1>1. filled \in [Setting -> Int]
  BY DEF Fill, SettingDefaults, Setting, Second
<1>2. \A f \in DOMAIN SettingDefaults : filled[f] # 0 /\ f \in Setting /\ f # "concurrencyLimit"
  BY DEF Fill, SettingDefaults, Setting, Second
<1>3. SettingsWithDefaults(settings) = Fill(filled, [concurrencyLimit |-> filled.workers])
  BY DEF SettingsWithDefaults
<1>4. filled.workers \in Int
  BY <1>1 DEF Setting
<1>5. QED
  <2> HIDE DEF filled
  <2>1. SettingsWithDefaults(settings) \in [Setting -> Int]
    BY <1>1, <1>3, <1>4 DEF Fill
  <2>2. \A f \in Setting : f # "concurrencyLimit" => SettingsWithDefaults(settings)[f] = filled[f]
    BY <1>1, <1>3, <1>4 DEF Fill
  <2>3. QED
    BY <1>2, <2>1, <2>2

(* What Load establishes beyond Valid: HTTP checks expect a status, and no  *)
(* setting that has a default is unset.                                     *)
DefaultsAreSet(c) ==
  /\ \A i \in DOMAIN c.endpoints :
       c.endpoints[i].type = "http" => c.endpoints[i].expectedStatus # 0
  /\ \A f \in DOMAIN SettingDefaults : c.settings[f] # 0

LEMMA DefaultsFit ==
  ASSUME NEW c \in Config
  PROVE  applyDefaults(c) \in Config /\ DefaultsAreSet(applyDefaults(c))
<1> DEFINE d == applyDefaults(c)
<1> DEFINE endpoints == [i \in DOMAIN c.endpoints |-> EndpointWithDefaults(c.endpoints[i])]
<1>1. c.endpoints \in Seq(EndpointConfig) /\ c.settings \in [Setting -> Int]
  BY DEF Config
<1>2. \A i \in DOMAIN c.endpoints :
        /\ endpoints[i] \in EndpointConfig
        /\ endpoints[i].type = "http" => endpoints[i].expectedStatus # 0
  BY <1>1, EndpointDefaultsFit
<1>3. endpoints \in Seq(EndpointConfig)
  <2>1. Len(c.endpoints) \in Nat /\ DOMAIN c.endpoints = 1..Len(c.endpoints)
    BY <1>1
  <2>2. endpoints \in [1..Len(c.endpoints) -> EndpointConfig]
    BY <1>2, <2>1
  <2>3. QED
    BY <2>1, <2>2
<1>4. /\ SettingsWithDefaults(c.settings) \in [Setting -> Int]
      /\ \A f \in DOMAIN SettingDefaults : SettingsWithDefaults(c.settings)[f] # 0
  BY <1>1, SettingDefaultsFit
<1>5. /\ d \in Config /\ d.endpoints = endpoints
      /\ d.settings = SettingsWithDefaults(c.settings)
  <2>1. d = [[c EXCEPT !.settings = SettingsWithDefaults(c.settings)] EXCEPT !.endpoints = endpoints]
    BY DEF applyDefaults
  <2>2. [c EXCEPT !.settings = SettingsWithDefaults(c.settings)] \in Config
    BY <1>4 DEF Config
  <2> HIDE DEF d, endpoints
  <2>3. QED
    BY <1>3, <2>1, <2>2 DEF Config
<1>6. DefaultsAreSet(d)
  <2>1. DOMAIN endpoints = DOMAIN c.endpoints
    OBVIOUS
  <2> HIDE DEF d, endpoints
  <2>2. QED
    BY <1>2, <1>4, <1>5, <2>1 DEF DefaultsAreSet
<1>7. QED
  BY <1>5, <1>6

-----------------------------------------------------------------------------
(* The goroutines exist once run serves; each sends one message, when it    *)
(* ends, so that errCh never has more than two.                             *)
Startup == {"loading", "connecting", "migrating"}
Messages ==
  /\ main \in Startup => monitor = "none" /\ http = "none" /\ errCh = <<>>
  /\ Len(errCh) <= (IF monitor = "ended" THEN 1 ELSE 0) + (IF http = "ended" THEN 1 ELSE 0)

(* While run uses the configuration, it is a valid one.                     *)
Loaded ==
  main \in {"connecting", "migrating", "serving", "draining", "closing"} =>
    Valid(config) /\ DefaultsAreSet(config)

(* Before run calls stop only a signal cancels rootCtx, and a message       *)
(* without an error says that it is cancelled.  From then on run's error    *)
(* remembers what was found.                                                *)
Asked ==
  /\ main \in Startup \cup {"serving"} /\ cancelled => signalled
  /\ main = "serving" => \A i \in 1..Len(errCh) : errCh[i] # "error" => signalled
  /\ main \in {"draining", "closing", "exited"} /\ ~err => signalled

LifecycleInv == TypeOK /\ Messages /\ Loaded /\ Asked /\ PanicsOnlyOnSizes

(* The states before the first step.                                        *)
LEMMA LifecycleInit == Init => LifecycleInv
<1> SUFFICES ASSUME Init PROVE LifecycleInv
  OBVIOUS
<1> USE LifecycleAssumption DEF Init
<1>1. TypeOK
  <2>1. config \in Config /\ main \in Main /\ requests \in 0..MaxRequests
    BY DEF Main
  <2>2. errCh \in Seq({"nil", "error", "closed"}) /\ Len(errCh) <= 2
    OBVIOUS
  <2>3. {err, signalled, cancelled, deadline} \subseteq BOOLEAN
    OBVIOUS
  <2>4. QED
    BY <2>1, <2>2, <2>3 DEF TypeOK
<1>2. Messages /\ Loaded /\ Asked /\ PanicsOnlyOnSizes
  BY DEF Messages, Startup, Loaded, Asked, PanicsOnlyOnSizes
<1>3. QED
  BY <1>1, <1>2 DEF LifecycleInv

(* A signal, which is handled or ends the process.                          *)
LEMMA SignalKeeps == LifecycleInv /\ Signal => LifecycleInv'
<1> SUFFICES ASSUME LifecycleInv, Signal PROVE LifecycleInv'
  OBVIOUS
<1> USE LifecycleAssumption DEF LifecycleInv, Signal, process, outside, StopCalled, Handled, Running
<1>1. TypeOK'
  BY DEF TypeOK, Main, Messages
<1>2. Messages'
  BY DEF TypeOK, Messages, Startup
<1>3. Loaded'
  BY DEF Loaded
<1>4. Asked' /\ PanicsOnlyOnSizes'
  BY DEF TypeOK, Messages, Asked, Startup, PanicsOnlyOnSizes
<1>5. QED
  BY <1>1, <1>2, <1>3, <1>4

(* The deadline of the connection.                                          *)
LEMMA ConnectDeadlineKeeps == LifecycleInv /\ ConnectDeadline => LifecycleInv'
<1> SUFFICES ASSUME LifecycleInv, ConnectDeadline PROVE LifecycleInv'
  OBVIOUS
<1> USE LifecycleAssumption DEF LifecycleInv, ConnectDeadline, process, outside
<1>1. TypeOK'
  BY DEF TypeOK, Main, Messages
<1>2. Messages'
  BY DEF TypeOK, Messages, Startup
<1>3. Loaded'
  BY DEF Loaded
<1>4. Asked' /\ PanicsOnlyOnSizes'
  BY DEF TypeOK, Messages, Asked, Startup, PanicsOnlyOnSizes
<1>5. QED
  BY <1>1, <1>2, <1>3, <1>4

(* PostgreSQL comes and goes.                                               *)
LEMMA DatabaseChangesKeeps == LifecycleInv /\ DatabaseChanges => LifecycleInv'
<1> SUFFICES ASSUME LifecycleInv, DatabaseChanges PROVE LifecycleInv'
  OBVIOUS
<1> USE LifecycleAssumption DEF LifecycleInv, DatabaseChanges, process, outside
<1>1. TypeOK'
  BY DEF TypeOK, Main, Messages
<1>2. Messages'
  BY DEF TypeOK, Messages, Startup
<1>3. Loaded'
  BY DEF Loaded
<1>4. Asked' /\ PanicsOnlyOnSizes'
  BY DEF TypeOK, Messages, Asked, Startup, PanicsOnlyOnSizes
<1>5. QED
  BY <1>1, <1>2, <1>3, <1>4

(* The file is accepted, after its defaults.                                *)
LEMMA LoadKeeps == LifecycleInv /\ Load => LifecycleInv'
<1> SUFFICES ASSUME LifecycleInv, Load PROVE LifecycleInv'
  OBVIOUS
<1> USE LifecycleAssumption DEF LifecycleInv, Load
<1>1. config' \in Config /\ DefaultsAreSet(config')
  BY DefaultsFit DEF TypeOK
<1>2. TypeOK'
  <2>1. deadline' \in BOOLEAN
    OBVIOUS
  <2>2. {err, signalled, cancelled, deadline}' \subseteq BOOLEAN
    BY <2>1 DEF TypeOK
  <2>3. QED
    BY <1>1, <2>2 DEF TypeOK, Main
<1>3. Messages'
  BY DEF TypeOK, Messages, Startup
<1>4. Loaded'
  BY <1>1 DEF Loaded
<1>5. Asked' /\ PanicsOnlyOnSizes'
  BY DEF TypeOK, Messages, Asked, Startup, PanicsOnlyOnSizes
<1>6. QED
  BY <1>2, <1>3, <1>4, <1>5

(* The file is refused.                                                     *)
LEMMA LoadFailsKeeps == LifecycleInv /\ LoadFails => LifecycleInv'
<1> SUFFICES ASSUME LifecycleInv, LoadFails PROVE LifecycleInv'
  OBVIOUS
<1> USE LifecycleAssumption DEF LifecycleInv, LoadFails, process, outside, MainStep
<1>1. TypeOK'
  BY DEF TypeOK, Main, Messages
<1>2. Messages'
  BY DEF TypeOK, Messages, Startup
<1>3. Loaded'
  BY DEF Loaded
<1>4. Asked' /\ PanicsOnlyOnSizes'
  BY DEF TypeOK, Messages, Asked, Startup, PanicsOnlyOnSizes
<1>5. QED
  BY <1>1, <1>2, <1>3, <1>4

(* An attempt to connect succeeds.                                          *)
LEMMA ConnectKeeps == LifecycleInv /\ Connect => LifecycleInv'
<1> SUFFICES ASSUME LifecycleInv, Connect PROVE LifecycleInv'
  OBVIOUS
<1> USE LifecycleAssumption DEF LifecycleInv, Connect, process, outside, MainStep
<1>1. TypeOK'
  BY DEF TypeOK, Main, Messages
<1>2. Messages'
  BY DEF TypeOK, Messages, Startup
<1>3. Loaded'
  BY DEF Loaded
<1>4. Asked' /\ PanicsOnlyOnSizes'
  BY DEF TypeOK, Messages, Asked, Startup, PanicsOnlyOnSizes
<1>5. QED
  BY <1>1, <1>2, <1>3, <1>4

(* No attempt did.                                                          *)
LEMMA GiveUpKeeps == LifecycleInv /\ GiveUp => LifecycleInv'
<1> SUFFICES ASSUME LifecycleInv, GiveUp PROVE LifecycleInv'
  OBVIOUS
<1> USE LifecycleAssumption DEF LifecycleInv, GiveUp, process, outside, MainStep
<1>1. TypeOK'
  BY DEF TypeOK, Main, Messages
<1>2. Messages'
  BY DEF TypeOK, Messages, Startup
<1>3. Loaded'
  BY DEF Loaded
<1>4. Asked' /\ PanicsOnlyOnSizes'
  BY DEF TypeOK, Messages, Asked, Startup, PanicsOnlyOnSizes
<1>5. QED
  BY <1>1, <1>2, <1>3, <1>4

(* The goroutines are started.                                              *)
LEMMA MigrateKeeps == LifecycleInv /\ Migrate => LifecycleInv'
<1> SUFFICES ASSUME LifecycleInv, Migrate PROVE LifecycleInv'
  OBVIOUS
<1> USE LifecycleAssumption DEF LifecycleInv, Migrate, process, outside, MainStep
<1>1. TypeOK'
  BY DEF TypeOK, Main, Messages
<1>2. Messages'
  BY DEF TypeOK, Messages, Startup
<1>3. Loaded'
  BY DEF Loaded
<1>4. Asked' /\ PanicsOnlyOnSizes'
  BY DEF TypeOK, Messages, Asked, Startup, PanicsOnlyOnSizes
<1>5. QED
  BY <1>1, <1>2, <1>3, <1>4

(* The migration fails.                                                     *)
LEMMA MigrateFailsKeeps == LifecycleInv /\ MigrateFails => LifecycleInv'
<1> SUFFICES ASSUME LifecycleInv, MigrateFails PROVE LifecycleInv'
  OBVIOUS
<1> USE LifecycleAssumption DEF LifecycleInv, MigrateFails, process, outside, MainStep
<1>1. TypeOK'
  BY DEF TypeOK, Main, Messages
<1>2. Messages'
  BY DEF TypeOK, Messages, Startup
<1>3. Loaded'
  BY DEF Loaded
<1>4. Asked' /\ PanicsOnlyOnSizes'
  BY DEF TypeOK, Messages, Asked, Startup, PanicsOnlyOnSizes
<1>5. QED
  BY <1>1, <1>2, <1>3, <1>4

(* The select of run takes a message only if its error is kept.             *)
LEMMA SelectKeeps == LifecycleInv /\ Select => LifecycleInv'
<1> SUFFICES ASSUME LifecycleInv, Select PROVE LifecycleInv'
  OBVIOUS
<1> USE LifecycleAssumption DEF LifecycleInv, Select, process, outside, MainStep
<1> DEFINE Message == {"nil", "error", "closed"}
<1>1. /\ errCh' \in Seq(Message) /\ Len(errCh') <= Len(errCh)
      /\ ~cancelled => Head(errCh) = errCh[1] /\ 1 \in 1..Len(errCh)
  <2>1. errCh \in Seq(Message)
    BY DEF TypeOK
  <2>2. CASE errCh' = errCh
    BY <2>1, <2>2
  <2>3. CASE errCh # <<>> /\ errCh' = Tail(errCh)
    BY <2>1, <2>3
  <2>4. QED
    BY <2>1, <2>2, <2>3
<1>2. TypeOK'
  <2>1. err' \in BOOLEAN
    <3>1. err \in BOOLEAN
      BY DEF TypeOK
    <3>2. CASE err' = err
      BY <3>1, <3>2
    <3>3. CASE err' = (Head(errCh) = "error")
      BY <3>3
    <3>4. QED
      BY <3>2, <3>3
  <2>2. {err, signalled, cancelled, deadline}' \subseteq BOOLEAN
    BY <2>1 DEF TypeOK
  <2>3. QED
    BY <1>1, <2>2 DEF TypeOK, Main
<1>3. Messages'
  BY <1>1 DEF TypeOK, Messages, Startup
<1>4. Loaded'
  BY DEF Loaded
<1>5. Asked' /\ PanicsOnlyOnSizes'
  BY <1>1 DEF TypeOK, Asked, Startup, PanicsOnlyOnSizes
<1>6. QED
  BY <1>2, <1>3, <1>4, <1>5

(* The server has drained, or not.                                          *)
LEMMA ShutdownReturnsKeeps == LifecycleInv /\ ShutdownReturns => LifecycleInv'
<1> SUFFICES ASSUME LifecycleInv, ShutdownReturns PROVE LifecycleInv'
  OBVIOUS
<1> USE LifecycleAssumption DEF LifecycleInv, ShutdownReturns, process, outside, MainStep
<1>1. TypeOK'
  BY DEF TypeOK, Main, Messages
<1>2. Messages'
  BY DEF TypeOK, Messages, Startup
<1>3. Loaded'
  BY DEF Loaded
<1>4. Asked' /\ PanicsOnlyOnSizes'
  BY DEF TypeOK, Messages, Asked, Startup, PanicsOnlyOnSizes
<1>5. QED
  BY <1>1, <1>2, <1>3, <1>4

(* run returns.                                                             *)
LEMMA CloseKeeps == LifecycleInv /\ Close => LifecycleInv'
<1> SUFFICES ASSUME LifecycleInv, Close PROVE LifecycleInv'
  OBVIOUS
<1> USE LifecycleAssumption DEF LifecycleInv, Close, process, outside, MainStep
<1>1. TypeOK'
  BY DEF TypeOK, Main, Messages
<1>2. Messages'
  BY DEF TypeOK, Messages, Startup
<1>3. Loaded'
  BY DEF Loaded
<1>4. Asked' /\ PanicsOnlyOnSizes'
  BY DEF TypeOK, Messages, Asked, Startup, PanicsOnlyOnSizes
<1>5. QED
  BY <1>1, <1>2, <1>3, <1>4

(* The monitor is running.                                                  *)
LEMMA SynchronizedKeeps == LifecycleInv /\ Synchronized => LifecycleInv'
<1> SUFFICES ASSUME LifecycleInv, Synchronized PROVE LifecycleInv'
  OBVIOUS
<1> USE LifecycleAssumption DEF LifecycleInv, Synchronized, process, outside, UpsertEndpoints, Running
<1>1. TypeOK'
  BY DEF TypeOK, Main, Messages
<1>2. Messages'
  BY DEF TypeOK, Messages, Startup
<1>3. Loaded'
  BY DEF Loaded
<1>4. Asked' /\ PanicsOnlyOnSizes'
  BY DEF TypeOK, Messages, Asked, Startup, PanicsOnlyOnSizes
<1>5. QED
  BY <1>1, <1>2, <1>3, <1>4

(* The configuration is valid where make panics: its workers and its limit  *)
(* are positive, and what wraps around was larger than DoneRoom.            *)
LEMMA PanicKeeps == LifecycleInv /\ Panic => LifecycleInv'
<1> SUFFICES ASSUME LifecycleInv, Panic PROVE LifecycleInv'
  OBVIOUS
<1> USE LifecycleAssumption DEF LifecycleInv, Panic, UpsertEndpoints, Running, process, outside
<1>1. main \in {"serving", "draining", "closing"}
  BY DEF TypeOK, Main, Messages, Startup
<1>2. \/ config.settings.queueSize \notin 0..JobsRoom
      \/ Len(config.endpoints) + config.settings.workers > DoneRoom
  <2>1. config.settings.workers >= 1 /\ config.settings.concurrencyLimit >= 1
    BY <1>1 DEF Loaded, Valid
  <2>2. /\ Len(config.endpoints) \in Nat
        /\ config.settings.workers \in Int
        /\ config.settings.concurrencyLimit \in Int
        /\ config.settings.queueSize \in Int
    BY DEF TypeOK, Config, Setting
  <2> DEFINE size == Len(config.endpoints) + config.settings.workers
  <2>a. MaxInt \in Nat /\ DoneRoom \in 0..MaxInt
    BY ONLY LifecycleAssumption
  <2>b. size \in Nat
    BY ONLY <2>1, <2>2
  <2> HIDE DEF size
  <2>3. size \in Nat /\ MaxInt \in Nat /\ DoneRoom \in 0..MaxInt
    BY ONLY <2>a, <2>b
  <2>4. size <= DoneRoom => Wrapped(size) \in 0..DoneRoom
    BY ONLY <2>3 DEF Wrapped
  <2>5. \/ config.settings.queueSize \notin 0..JobsRoom
        \/ Wrapped(size) \notin 0..DoneRoom
        \/ ~(config.settings.concurrencyLimit >= 0)
    BY DEF ChannelsFit, DoneSize, size
  <2>6. config.settings.concurrencyLimit >= 0
    BY ONLY <2>1, <2>2
  <2>7. config.settings.queueSize \notin 0..JobsRoom \/ size > DoneRoom
    BY ONLY <2>3, <2>4, <2>5, <2>6
  <2>8. QED
    BY ONLY <2>7 DEF size
<1>3. TypeOK'
  BY DEF TypeOK, Main
<1>4. Messages' /\ Loaded' /\ Asked'
  BY <1>1 DEF TypeOK, Messages, Loaded, Asked, Startup
<1>5. PanicsOnlyOnSizes'
  BY <1>2 DEF PanicsOnlyOnSizes
<1>6. QED
  BY <1>3, <1>4, <1>5

(* The monitor ends, without an error only after the cancellation.          *)
LEMMA MonitorReturnsKeeps == LifecycleInv /\ MonitorReturns => LifecycleInv'
<1> SUFFICES ASSUME LifecycleInv, MonitorReturns PROVE LifecycleInv'
  OBVIOUS
<1> USE LifecycleAssumption DEF LifecycleInv, MonitorReturns, process, outside, Running
<1>1. TypeOK'
  BY DEF TypeOK, Main, Messages
<1>2. Messages'
  BY DEF TypeOK, Messages, Startup
<1>3. Loaded'
  BY DEF Loaded
<1>4. Asked' /\ PanicsOnlyOnSizes'
  BY DEF TypeOK, Messages, Asked, Startup, PanicsOnlyOnSizes
<1>5. QED
  BY <1>1, <1>2, <1>3, <1>4

(* The server is listening.                                                 *)
LEMMA ListenKeeps == LifecycleInv /\ Listen => LifecycleInv'
<1> SUFFICES ASSUME LifecycleInv, Listen PROVE LifecycleInv'
  OBVIOUS
<1> USE LifecycleAssumption DEF LifecycleInv, Listen, process, outside, Running
<1>1. TypeOK'
  BY DEF TypeOK, Main, Messages
<1>2. Messages'
  BY DEF TypeOK, Messages, Startup
<1>3. Loaded'
  BY DEF Loaded
<1>4. Asked' /\ PanicsOnlyOnSizes'
  BY DEF TypeOK, Messages, Asked, Startup, PanicsOnlyOnSizes
<1>5. QED
  BY <1>1, <1>2, <1>3, <1>4

(* The server ends, without an error only after Shutdown was called.        *)
LEMMA ServerReturnsKeeps == LifecycleInv /\ ServerReturns => LifecycleInv'
<1> SUFFICES ASSUME LifecycleInv, ServerReturns PROVE LifecycleInv'
  OBVIOUS
<1> USE LifecycleAssumption DEF LifecycleInv, ServerReturns, process, outside, Running, ShutdownCalled
<1>1. TypeOK'
  BY DEF TypeOK, Main, Messages
<1>2. Messages'
  BY DEF TypeOK, Messages, Startup
<1>3. Loaded'
  BY DEF Loaded
<1>4. Asked' /\ PanicsOnlyOnSizes'
  BY DEF TypeOK, Messages, Asked, Startup, PanicsOnlyOnSizes
<1>5. QED
  BY <1>1, <1>2, <1>3, <1>4

(* A request arrives.                                                       *)
LEMMA RequestArrivesKeeps == LifecycleInv /\ RequestArrives => LifecycleInv'
<1> SUFFICES ASSUME LifecycleInv, RequestArrives PROVE LifecycleInv'
  OBVIOUS
<1> USE LifecycleAssumption DEF LifecycleInv, RequestArrives, process, outside, Running
<1>1. TypeOK'
  BY DEF TypeOK, Main, Messages
<1>2. Messages'
  BY DEF TypeOK, Messages, Startup
<1>3. Loaded'
  BY DEF Loaded
<1>4. Asked' /\ PanicsOnlyOnSizes'
  BY DEF TypeOK, Messages, Asked, Startup, PanicsOnlyOnSizes
<1>5. QED
  BY <1>1, <1>2, <1>3, <1>4

(* A request ends.                                                          *)
LEMMA RequestEndsKeeps == LifecycleInv /\ RequestEnds => LifecycleInv'
<1> SUFFICES ASSUME LifecycleInv, RequestEnds PROVE LifecycleInv'
  OBVIOUS
<1> USE LifecycleAssumption DEF LifecycleInv, RequestEnds, process, outside, Running
<1>1. TypeOK'
  BY DEF TypeOK, Main, Messages
<1>2. Messages'
  BY DEF TypeOK, Messages, Startup
<1>3. Loaded'
  BY DEF Loaded
<1>4. Asked' /\ PanicsOnlyOnSizes'
  BY DEF TypeOK, Messages, Asked, Startup, PanicsOnlyOnSizes
<1>5. QED
  BY <1>1, <1>2, <1>3, <1>4

(* The readiness gauge is set.                                              *)
LEMMA PingKeeps == LifecycleInv /\ Ping => LifecycleInv'
<1> SUFFICES ASSUME LifecycleInv, Ping PROVE LifecycleInv'
  OBVIOUS
<1> USE LifecycleAssumption DEF LifecycleInv, Ping, process, outside, Running
<1>1. TypeOK'
  BY DEF TypeOK, Main, Messages
<1>2. Messages'
  BY DEF TypeOK, Messages, Startup
<1>3. Loaded'
  BY DEF Loaded
<1>4. Asked' /\ PanicsOnlyOnSizes'
  BY DEF TypeOK, Messages, Asked, Startup, PanicsOnlyOnSizes
<1>5. QED
  BY <1>1, <1>2, <1>3, <1>4

(* No step disturbs the invariant.                                          *)
LEMMA LifecycleStep == LifecycleInv /\ [Next]_vars => LifecycleInv'
<1> SUFFICES ASSUME LifecycleInv, [Next]_vars PROVE LifecycleInv'
  OBVIOUS
<1>1. ASSUME UNCHANGED vars PROVE LifecycleInv'
  BY <1>1 DEF LifecycleInv, TypeOK, Messages, Loaded, Asked, PanicsOnlyOnSizes,
              vars, process, outside
<1>2. CASE Signal \/ ConnectDeadline \/ DatabaseChanges
  BY <1>2, SignalKeeps, ConnectDeadlineKeeps, DatabaseChangesKeeps
<1>3. CASE Run
  BY <1>3, LoadKeeps, LoadFailsKeeps, ConnectKeeps, GiveUpKeeps, MigrateKeeps,
     MigrateFailsKeeps, SelectKeeps, ShutdownReturnsKeeps, CloseKeeps DEF Run
<1>4. CASE Synchronized \/ Panic \/ MonitorReturns
  BY <1>4, SynchronizedKeeps, PanicKeeps, MonitorReturnsKeeps
<1>5. CASE Listen \/ ServerReturns \/ RequestArrives \/ RequestEnds
  BY <1>5, ListenKeeps, ServerReturnsKeeps, RequestArrivesKeeps, RequestEndsKeeps
<1>6. CASE Ping
  BY <1>6, PingKeeps
<1>7. CASE Exited
  BY <1>1, <1>7 DEF Exited
<1>8. QED
  BY <1>1, <1>2, <1>3, <1>4, <1>5, <1>6, <1>7 DEF Next

(* What main, its goroutines and the requests keep true together.           *)
THEOREM LifecycleInvariant == Spec => []LifecycleInv
<1>1. QED
  BY LifecycleInit, LifecycleStep, PTL DEF Spec

(* run(): the types of the state, with the defaults applied to the          *)
(* configuration, and at most two messages in the channel of capacity two.  *)
THEOREM LifecycleTypes == Spec => []TypeOK
<1>1. LifecycleInv => TypeOK
  BY DEF LifecycleInv
<1>2. QED
  BY <1>1, LifecycleInvariant, PTL

(* run() returns nil, and the process 0, only after SIGINT or SIGTERM: a    *)
(* monitor or a server that gave up is never taken for a shutdown.          *)
THEOREM SuccessMeansAsked == Spec => []CleanExitOnlyWhenAsked
<1>1. LifecycleInv => CleanExitOnlyWhenAsked
  BY DEF LifecycleInv, Asked, CleanExitOnlyWhenAsked
<1>2. QED
  BY <1>1, LifecycleInvariant, PTL

(* service.Run's channels: with a configuration that Load accepted, only    *)
(* the size of the queue, of which Validate asks nothing, or a number of    *)
(* workers beyond all memory, which it does not bound, makes Run panic; the *)
(* sum that wraps around is of such a number.                               *)
THEOREM OnlyUncheckedSizesPanic == Spec => []PanicsOnlyOnSizes
<1>1. LifecycleInv => PanicsOnlyOnSizes
  BY DEF LifecycleInv
<1>2. QED
  BY <1>1, LifecycleInvariant, PTL

(* A valid window covers some endpoint at its start.                        *)
LEMMA WindowsApply ==
  ASSUME NEW c \in Config, Valid(c), NEW w \in c.windows
  PROVE  \E e \in IDs(c), now \in w.start..w.end :
           InMaintenance([c EXCEPT !.windows = {w}], e, now)
<1>1. /\ ValidWindow(w, IDs(c))
      /\ c.endpoints # <<>> /\ c.endpoints \in Seq(EndpointConfig)
      /\ w.start \in Int /\ w.end \in Int
  BY DEF Valid, Config, MaintenanceWindow
<1>2. w.start < w.end /\ w.endpoints \subseteq IDs(c)
  BY <1>1 DEF ValidWindow
<1>3. IDs(c) # {}
  <2>1. 1 \in DOMAIN c.endpoints
    BY <1>1
  <2>2. QED
    BY <2>1 DEF IDs
<1>4. PICK e \in IDs(c) : w.endpoints = {} \/ e \in w.endpoints
  BY <1>2, <1>3
<1>5. w.start \in w.start..w.end
  BY <1>1, <1>2
<1>6. [c EXCEPT !.windows = {w}].windows = {w}
  BY DEF Config
<1>7. InMaintenance([c EXCEPT !.windows = {w}], e, w.start)
  BY <1>1, <1>2, <1>4, <1>6 DEF InMaintenance
<1>8. QED
  BY <1>5, <1>7

(* Load(): what follows from a configuration that it accepted, whatever was *)
(* in the file: distinct identifiers, HTTP checks that expect a status,     *)
(* positive timeouts and intervals, a budget, windows that mean something,  *)
(* numbers that the other modules assume.                                   *)
THEOREM AcceptedConfigWorks == Spec => []LoadedConfigWorks
<1>1. LifecycleInv => LoadedConfigWorks
  <2> SUFFICES ASSUME LifecycleInv, main \in {"connecting", "migrating", "serving"}
               PROVE  /\ \A i \in DOMAIN config.endpoints : Meaningful(config.endpoints[i])
                      /\ DistinctIDs(config.endpoints) /\ config.endpoints # <<>>
                      /\ config.settings.workers > 0 /\ config.settings.concurrencyLimit > 0
                      /\ \A f \in DOMAIN SettingDefaults : config.settings[f] # 0
                      /\ \A w \in config.windows : \E e \in IDs(config), now \in w.start..w.end :
                           InMaintenance([config EXCEPT !.windows = {w}], e, now)
    BY DEF LoadedConfigWorks
  <2>1. config \in Config /\ Valid(config) /\ DefaultsAreSet(config)
    BY DEF LifecycleInv, TypeOK, Loaded
  <2>2. ASSUME NEW i \in DOMAIN config.endpoints PROVE Meaningful(config.endpoints[i])
    <3>1. config.endpoints[i] \in EndpointConfig /\ ValidEndpoint(config.endpoints[i])
      BY <2>1 DEF Config, Valid
    <3>2. config.endpoints[i].type = "http" => config.endpoints[i].expectedStatus # 0
      BY <2>1 DEF DefaultsAreSet
    <3>3. /\ config.endpoints[i].timeout > 0 /\ config.endpoints[i].interval > 0
          /\ config.endpoints[i].retries \in 0..10
      BY <3>1 DEF ValidEndpoint
    <3>4. config.endpoints[i].availabilityTarget \in 1..999
      <4> DEFINE target == config.endpoints[i].availabilityTarget
      <4>1. target \in Int
        BY <3>1 DEF EndpointConfig
      <4>2. 0 < target /\ target < 1000
        BY <3>1 DEF ValidEndpoint
      <4> HIDE DEF target
      <4>3. target \in 1..999
        BY ONLY <4>1, <4>2
      <4>4. QED
        BY <4>3 DEF target
    <3>5. QED
      BY <3>2, <3>3, <3>4 DEF Meaningful
  <2>3. DistinctIDs(config.endpoints) /\ config.endpoints # <<>>
    BY <2>1 DEF Valid
  <2>4. config.settings.workers > 0 /\ config.settings.concurrencyLimit > 0
    <3>1. config.settings.workers \in Int /\ config.settings.concurrencyLimit \in Int
      BY <2>1 DEF Config, Setting
    <3>2. config.settings.workers >= 1 /\ config.settings.concurrencyLimit >= 1
      BY <2>1 DEF Valid
    <3>3. QED
      BY <3>1, <3>2
  <2>5. \A f \in DOMAIN SettingDefaults : config.settings[f] # 0
    BY <2>1 DEF DefaultsAreSet
  <2>6. QED
    BY <2>1, <2>2, <2>3, <2>4, <2>5, WindowsApply
<1>2. QED
  BY <1>1, LifecycleInvariant, PTL
=============================================================================

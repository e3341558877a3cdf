----------------------- MODULE SnowballProcessProofs -----------------------
(***************************************************************************)
(* Proofs about the life of a process: what its storage holds, and with    *)
(* which configuration it runs, for any sequence of starts, settings, kills *)
(* and failed writes.                                                      *)
(***************************************************************************)
EXTENDS SnowballProcess, FiniteSetTheorems, TLAPS

\* The process has its storage open.
Opened == {"node", "recv", "drop", "drop_and_exit"}

\* d has the fields of a SnowballState.
IsData(d) ==
    d = [member_ids |-> d.member_ids, alfa |-> d.alfa, beta |-> d.beta, k |-> d.k,
         has_block |-> d.has_block]

\* What is open is what was read, or made, at the start, apart from the members and
\* the blocks.
DataInv ==
    pc \in Opened =>
        /\ IsData(data)
        /\ Params(data) = IF IsDisk THEN first ELSE Params(NewState(config))

\* The file was written by a guard that could write it.
FileInv ==
    file # NoData =>
        /\ IsDisk /\ IsData(file)
        /\ Params(file) = first
        /\ ~ file.has_block

\* Before the first turn and between two turns the file is what is in memory.
SyncInv ==
    IsDisk /\ pc \in {"node", "recv"} => file = data /\ ~ data.has_block

\* The configuration is made from this start's settings, and the loop is entered only
\* when there is a churn time-out to draw.
ConfigInv ==
    /\ pc = "loading" => config = default
    /\ pc \in Opened \cup {"storage"} => config = load_settings(default, settings)
    /\ pc \in Opened \ {"node"} => config["max_churn_timeout"] # 0

ProcessInv == DataInv /\ FileInv /\ SyncInv /\ ConfigInv

----------------------------------------------------------------------------
LEMMA NewStateIsData ==
    ASSUME NEW c
    PROVE  IsData(NewState(c)) /\ ~ NewState(c).has_block
BY DEF IsData, NewState

\* Changing a field keeps the others, and the fields a state has.
LEMMA FieldSet ==
    ASSUME NEW d, IsData(d), NEW v
    PROVE  /\ IsData([d EXCEPT !.has_block = v])
           /\ Params([d EXCEPT !.has_block = v]) = Params(d)
           /\ IsData([d EXCEPT !.member_ids = v])
           /\ Params([d EXCEPT !.member_ids = v]) = Params(d)
<1> DEFINE r(m, a, b, kk, h) ==
              [member_ids |-> m, alfa |-> a, beta |-> b, k |-> kk, has_block |-> h]
<1>1. d = r(d.member_ids, d.alfa, d.beta, d.k, d.has_block)
  BY DEF IsData
<1>2. /\ [d EXCEPT !.has_block = v] = r(d.member_ids, d.alfa, d.beta, d.k, v)
      /\ [d EXCEPT !.member_ids = v] = r(v, d.alfa, d.beta, d.k, d.has_block)
  BY <1>1
<1> QED
  BY <1>2 DEF IsData, Params

----------------------------------------------------------------------------
\* The steps, by what they do to the invariant

LEMMA InitHolds == Init => ProcessInv
BY DEF Init, ProcessInv, DataInv, FileInv, SyncInv, ConfigInv, Opened

\* An end of the process closes the storage and leaves the file as it is.
LEMMA DownKeeps ==
    ASSUME ProcessInv, pc' = "down", UNCHANGED <<location, file, first>>
    PROVE  ProcessInv'
BY DEF ProcessInv, DataInv, FileInv, SyncInv, ConfigInv, Opened, IsDisk, IsData, Params

LEMMA GetSettingsFailsKeeps == ProcessInv /\ GetSettingsFails => ProcessInv'
BY DEF GetSettingsFails, ProcessInv, DataInv, FileInv, SyncInv, ConfigInv, Opened, IsDisk,
       IsData, Params, NewState

LEMMA LoadSettingsKeeps == ProcessInv /\ LoadSettings => ProcessInv'
<1> SUFFICES ASSUME ProcessInv, LoadSettings PROVE ProcessInv'
  OBVIOUS
<1>1. CASE load_panics(settings)
  BY <1>1, DownKeeps DEF LoadSettings, Down
<1>2. CASE ~ load_panics(settings)
  <2>1. /\ pc' = "storage" /\ config' = load_settings(default, settings)
        /\ UNCHANGED <<location, settings, file, first>>
    BY <1>2 DEF LoadSettings, ProcessInv, ConfigInv
  <2> QED
    BY <2>1 DEF ProcessInv, DataInv, FileInv, SyncInv, ConfigInv, Opened, IsDisk, IsData, Params
<1> QED
  BY <1>1, <1>2

LEMMA GetStorageKeeps == ProcessInv /\ GetStorage => ProcessInv'
<1> SUFFICES ASSUME ProcessInv, GetStorage PROVE ProcessInv'
  OBVIOUS
<1>1. UNCHANGED <<location, settings, config>> /\ pc = "storage"
  BY DEF GetStorage
<1>2. CASE pc' = "down" /\ UNCHANGED <<file, first>>
  BY <1>1, <1>2, DownKeeps
<1>3. CASE location = "memory" /\ open_memory /\ pc' = "node" /\ UNCHANGED first
  <2>1. /\ data' = NewState(config) /\ file' = file /\ ~ IsDisk /\ ~ IsDisk' /\ IsData(data')
        /\ NewState(config)' = NewState(config)
    BY <1>1, <1>3, NewStateIsData DEF open_memory, IsDisk, NewState
  <2> QED
    BY <1>1, <1>3, <2>1 DEF ProcessInv, DataInv, FileInv, SyncInv, ConfigInv, Opened
<1>4. CASE /\ IsDisk /\ data' = NewState(config) /\ file' = NewState(config)
           /\ first' = Params(file') /\ pc' = "node"
  <2>1. IsDisk' /\ IsData(data') /\ IsData(file') /\ ~ file'.has_block
    BY <1>1, <1>4, NewStateIsData DEF IsDisk
  <2> QED
    BY <1>1, <1>4, <2>1 DEF ProcessInv, DataInv, FileInv, SyncInv, ConfigInv, Opened
<1>5. CASE /\ IsDisk /\ file # NoData /\ data' = file /\ file' = file /\ first' = first
           /\ pc' = "node"
  <2>1. IsDisk' /\ IsData(file) /\ ~ file.has_block /\ Params(file) = first
    BY <1>1, <1>5 DEF IsDisk, ProcessInv, FileInv
  <2> QED
    BY <1>1, <1>5, <2>1 DEF ProcessInv, DataInv, FileInv, SyncInv, ConfigInv, Opened
<1> QED
  BY <1>2, <1>3, <1>4, <1>5 DEF GetStorage, Down, open_disk

LEMMA NewNodeKeeps == ProcessInv /\ NewNode => ProcessInv'
<1> SUFFICES ASSUME ProcessInv, NewNode PROVE ProcessInv'
  OBVIOUS
<1>1. CASE pc' = "down"
  BY <1>1, DownKeeps DEF NewNode
<1>2. CASE ~ churn_range_is_empty /\ pc' = "recv"
  BY <1>2 DEF NewNode, churn_range_is_empty, ProcessInv, DataInv, FileInv, SyncInv, ConfigInv,
              Opened, IsDisk, IsData, Params, NewState
<1> QED
  BY <1>1, <1>2 DEF NewNode, Down

\* A turn changes members and blocks in memory, and the file not yet.
LEMMA IterateKeeps ==
    ASSUME ProcessInv, NEW to, Iterate(to),
           IsData(data) => IsData(data') /\ Params(data') = Params(data)
    PROVE  ProcessInv'
<1>1. /\ pc = "recv" /\ pc' \in {"drop", "drop_and_exit"}
      /\ UNCHANGED <<location, settings, config, file, first>>
  BY DEF Iterate
<1>2. IsData(data') /\ Params(data') = Params(data)
  BY <1>1 DEF ProcessInv, DataInv, Opened
<1>3. DataInv'
  BY <1>1, <1>2 DEF ProcessInv, DataInv, Opened, IsDisk, Params, NewState
<1> QED
  BY <1>1, <1>3 DEF ProcessInv, FileInv, SyncInv, ConfigInv, Opened, IsDisk, IsData, Params

LEMMA TurnKeeps ==
    ASSUME ProcessInv, NEW to,
           \/ Quiet(to) \/ OnBlockNew(to)
           \/ \E p \in Peer : OnPeerConnected(p, to) \/ OnPeerDisconnected(p, to)
    PROVE  ProcessInv'
<1>1. Iterate(to)
  BY DEF Quiet, OnBlockNew, OnPeerConnected, OnPeerDisconnected
<1>2. \/ data' = data
      \/ \E v : data' = [data EXCEPT !.has_block = v]
      \/ \E v : data' = [data EXCEPT !.member_ids = v]
  BY DEF Quiet, OnBlockNew, OnPeerConnected, OnPeerDisconnected
<1>3. IsData(data) => IsData(data') /\ Params(data') = Params(data)
  <2> SUFFICES ASSUME IsData(data) PROVE IsData(data') /\ Params(data') = Params(data)
    OBVIOUS
  <2>1. CASE data' = data
    BY <2>1
  <2>2. ASSUME NEW v, data' = [data EXCEPT !.has_block = v]
        PROVE  IsData(data') /\ Params(data') = Params(data)
    BY <2>2, FieldSet
  <2>3. ASSUME NEW v, data' = [data EXCEPT !.member_ids = v]
        PROVE  IsData(data') /\ Params(data') = Params(data)
    BY <2>3, FieldSet
  <2> QED
    BY <1>2, <2>1, <2>2, <2>3
<1> QED
  BY <1>1, <1>3, IterateKeeps

LEMMA DropGuardKeeps == ProcessInv /\ DropGuard => ProcessInv'
<1> SUFFICES ASSUME ProcessInv, DropGuard PROVE ProcessInv'
  OBVIOUS
<1>1. /\ pc \in {"drop", "drop_and_exit"}
      /\ UNCHANGED <<location, settings, config, data, first>>
  BY DEF DropGuard
<1>2. CASE pc' = "down" /\ UNCHANGED file
  BY <1>1, <1>2, DownKeeps
<1>3. CASE ~ cannot_write /\ written /\ pc' \in {"recv", "down"}
  <2>1. IsDisk' = IsDisk /\ Params(data)' = Params(data) /\ IsData(data)' = IsData(data)
        /\ NewState(config)' = NewState(config)
    BY <1>1 DEF IsDisk, Params, IsData, NewState
  <2>2. CASE IsDisk
    <3>1. file' = data /\ ~ data.has_block /\ IsData(data) /\ Params(data) = first
      BY <1>1, <1>3, <2>2 DEF written, cannot_write, serializable, ProcessInv, DataInv, Opened
    <3>2. DataInv' /\ SyncInv' /\ ConfigInv'
      BY <1>1, <1>3, <2>1, <2>2, <3>1 DEF ProcessInv, DataInv, SyncInv, ConfigInv, Opened
    <3>3. FileInv'
      BY <1>1, <2>1, <2>2, <3>1 DEF FileInv
    <3> QED
      BY <3>2, <3>3 DEF ProcessInv
  <2>3. CASE ~ IsDisk
    <3>1. file' = file
      BY <2>3, <1>3 DEF written
    <3> QED
      BY <1>1, <1>3, <2>1, <2>3, <3>1
      DEF ProcessInv, DataInv, FileInv, SyncInv, ConfigInv, Opened
  <2> QED
    BY <2>2, <2>3
<1> QED
  BY <1>2, <1>3 DEF DropGuard, Down

LEMMA RestartKeeps == ProcessInv /\ Restart => ProcessInv'
BY DEF Restart, ProcessInv, DataInv, FileInv, SyncInv, ConfigInv, Opened, IsDisk, IsData, Params

\* Every step keeps what is known of the storage and the configuration.
LEMMA ProcessInvariance == Spec => []ProcessInv
<1>1. ProcessInv /\ [Next]_vars => ProcessInv'
  <2> SUFFICES ASSUME ProcessInv, [Next]_vars PROVE ProcessInv'
    OBVIOUS
  <2>1. CASE Kill
    BY <2>1, DownKeeps DEF Kill, Down
  <2>2. CASE UNCHANGED vars
    BY <2>2 DEF vars, ProcessInv, DataInv, FileInv, SyncInv, ConfigInv, Opened, IsDisk,
                IsData, Params, NewState
  <2> QED
    BY <2>1, <2>2, GetSettingsFailsKeeps, LoadSettingsKeeps, GetStorageKeeps, NewNodeKeeps,
       TurnKeeps, DropGuardKeeps, RestartKeeps DEF Next
<1> QED
  BY <1>1, InitHolds, PTL DEF Spec

----------------------------------------------------------------------------
\* Results

\* The guards of storage/mod.rs persist what they promise: between two turns the file
\* is the state in memory, whatever came before, kills and failed writes included.
THEOREM GuardsPersist == Spec => []FileIsCurrent
<1>1. ProcessInv => FileIsCurrent
  BY DEF ProcessInv, SyncInv, FileIsCurrent
<1> QED
  BY <1>1, ProcessInvariance, PTL

\* The disk storage never outlives the first block, and no file ever knows of one.
THEOREM DiskEndsWithFirstBlock == Spec => []DiskStopsAtFirstBlock
<1>1. ProcessInv => DiskStopsAtFirstBlock
  BY DEF ProcessInv, SyncInv, FileInv, DiskStopsAtFirstBlock
<1> QED
  BY <1>1, ProcessInvariance, PTL

\* In memory the thresholds in force are those of the settings just loaded, on the disk
\* those with which the file was last made new, after any number of restarts.
THEOREM ThresholdsAreFixedByStorage == Spec => []ThresholdsInForce
<1>1. ProcessInv => ThresholdsInForce
  BY DEF ProcessInv, DataInv, Opened, ThresholdsInForce
<1> QED
  BY <1>1, ProcessInvariance, PTL

\* No node whose settings give a churn time-out of 0 ms ever enters the loop.
THEOREM ChurnTimeoutRequired == Spec => []NoLoopWithoutChurnTimeout
<1>1. ProcessInv => NoLoopWithoutChurnTimeout
  <2> SUFFICES ASSUME ProcessInv, pc = "recv", parses(settings, "max_churn_timeout"),
                      settings["max_churn_timeout"] = << 0 >>
               PROVE  FALSE
    BY DEF NoLoopWithoutChurnTimeout
  <2>1. config = load_settings(default, settings) /\ config["max_churn_timeout"] # 0
    BY DEF ProcessInv, ConfigInv, Opened
  <2>2. config["max_churn_timeout"] = Head(<<0>>)
    BY <2>1 DEF load_settings, merge_setting_if_set, Key, Byzantine
  <2> QED
    BY <2>1, <2>2
<1> QED
  BY <1>1, ProcessInvariance, PTL

----------------------------------------------------------------------------
\* The delay of retry_until_ok

\* The number of subsets doubles with one more element, which says of the powers of 2
\* what their definition says, without an induction.
LEMMA PowerDoubles ==
    ASSUME NEW n \in Nat
    PROVE  2^n \in Nat /\ 2^(n + 1) = 2 * 2^n
<1> DEFINE S == 1..n
           x == n + 1
           T == 1..(n + 1)
           P == SUBSET S
           Q == {A \in SUBSET T : x \in A}
           f == [A \in P |-> A \cup {x}]
<1>1. /\ IsFiniteSet(S) /\ Cardinality(S) = n
      /\ IsFiniteSet(T) /\ Cardinality(T) = n + 1
  <2>1. /\ IsFiniteSet(1..n) /\ Cardinality(1..n) = IF 1 > n THEN 0 ELSE n - 1 + 1
        /\ IsFiniteSet(1..(n + 1))
        /\ Cardinality(1..(n + 1)) = IF 1 > n + 1 THEN 0 ELSE (n + 1) - 1 + 1
    BY FS_Interval
  <2> QED
    BY <2>1
<1>2. x \notin S /\ T = S \cup {x}
  OBVIOUS
<1> HIDE DEF S, T, x
<1>3. IsFiniteSet(P) /\ Cardinality(P) = 2^n /\ Cardinality(P) \in Nat
  BY <1>1, FS_SUBSET, FS_CardinalityType
<1>4. IsFiniteSet(SUBSET T) /\ Cardinality(SUBSET T) = 2^(n + 1)
  BY <1>1, FS_SUBSET
<1>5. f \in Bijection(P, Q)
  <2>1. f \in [P -> Q]
    BY <1>2
  <2>2. ASSUME NEW A \in P, NEW B \in P, f[A] = f[B] PROVE A = B
    <3>1. A \cup {x} = B \cup {x} /\ x \notin A /\ x \notin B
      BY <1>2, <2>2
    <3> QED
      BY <3>1
  <2>3. ASSUME NEW A \in Q PROVE \E B \in P : f[B] = A
    <3>1. A \ {x} \in P /\ (A \ {x}) \cup {x} = A
      BY <1>2
    <3> QED
      BY <3>1
  <2> HIDE DEF f
  <2> QED
    BY <2>1, <2>2, <2>3 DEF Bijection, Injection, IsInjective, Surjection
<1>6. IsFiniteSet(Q) /\ Cardinality(Q) = Cardinality(P)
  <2>1. ExistsBijection(P, Q)
    BY <1>5 DEF ExistsBijection
  <2> HIDE DEF P, Q
  <2> QED
    BY <1>3, <2>1, FS_Bijection
<1>7. SUBSET T = P \cup Q /\ P \cap Q = {}
  BY <1>2
<1> HIDE DEF P, Q
<1>8. Cardinality(P \cup Q) = Cardinality(P) + Cardinality(Q) - Cardinality(P \cap Q)
  BY <1>3, <1>6, FS_Union
<1>9. Cardinality(P \cap Q) = 0
  BY <1>7, FS_EmptySet
<1>10. Cardinality(SUBSET T) = 2 * Cardinality(P)
  <2>1. Cardinality(P \cup Q) = 2 * Cardinality(P)
    BY <1>3, <1>6, <1>8, <1>9
  <2>2. Cardinality(SUBSET T) = Cardinality(P \cup Q)
    BY <1>7, Zenon
  <2> QED
    BY <2>1, <2>2
<1>11. 2^n \in Nat
  BY <1>3, Zenon
<1>12. 2^(n + 1) = 2 * 2^n
  BY <1>3, <1>4, <1>10, Zenon
<1> QED
  BY <1>11, <1>12

DelayInRange == delay \in exponential_retry_base..exponential_retry_max

\* The delay of retry_until_ok never falls below its base and never passes its maximum.
THEOREM DelayStaysInRange == Spec => []DelayInRange
<1>1. Init => DelayInRange
  BY RetryAssumption DEF Init, DelayInRange
<1>2. DelayInRange /\ [Next]_vars => DelayInRange'
  <2> SUFFICES ASSUME DelayInRange, [Next]_vars PROVE DelayInRange'
    OBVIOUS
  <2>1. delay' \in {delay, next_delay(delay), exponential_retry_base}
    <3>1. CASE GetSettingsFails \/ LoadSettings \/ Restart \/ Kill \/ UNCHANGED vars
      BY <3>1 DEF GetSettingsFails, LoadSettings, Restart, Kill, vars
    <3>2. CASE GetStorage \/ NewNode \/ DropGuard
      BY <3>2 DEF GetStorage, NewNode, DropGuard
    <3>3. ASSUME NEW to, Iterate(to) PROVE delay' = delay
      BY <3>3 DEF Iterate
    <3> QED
      BY <3>1, <3>2, <3>3
      DEF Next, Quiet, OnBlockNew, OnPeerConnected, OnPeerDisconnected
  <2> QED
    BY <2>1, RetryAssumption DEF next_delay, DelayInRange
<1> QED
  BY <1>1, <1>2, PTL DEF Spec

\* What BackoffDoubles says, and what makes the count of the failures a number.
BackoffInv == failures \in 0..MaxFailures /\ BackoffDoubles

\* The delay that n doublings of the base make, if nothing stops them.
Doubled(n) == exponential_retry_base * 2^n

LEMMA DoubledNext ==
    ASSUME NEW n \in Nat
    PROVE  Doubled(n) \in Nat /\ Doubled(n + 1) = 2 * Doubled(n)
<1> DEFINE p == 2^n
           q == 2^(n + 1)
<1>1. p \in Nat /\ q = 2 * p
  BY PowerDoubles
<1>2. Doubled(n) = exponential_retry_base * p /\ Doubled(n + 1) = exponential_retry_base * q
  BY DEF Doubled
<1> HIDE DEF p, q
<1> QED
  BY <1>1, <1>2, RetryAssumption

\* One more failure doubles the delay or, once the maximum is reached, keeps it.
LEMMA FailureDoubles == BackoffInv /\ GetSettingsFails => BackoffInv'
<1> SUFFICES ASSUME BackoffInv, GetSettingsFails PROVE BackoffInv'
  OBVIOUS
<1> DEFINE Capped(d) == IF d > exponential_retry_max THEN exponential_retry_max ELSE d
<1>1. /\ failures \in Nat /\ failures <= MaxFailures
      /\ delay = Capped(Doubled(failures))
  BY DEF BackoffInv, BackoffDoubles, Doubled, MaxFailures
<1>2. /\ Doubled(failures) \in Nat
      /\ Doubled(failures + 1) = 2 * Doubled(failures)
  BY <1>1, DoubledNext
<1>3. failures = MaxFailures => exponential_retry_max <= Doubled(failures)
  BY FailuresAssumption DEF Doubled
<1>4. delay' = next_delay(delay)
  BY DEF GetSettingsFails
<1>5. delay' = Capped(Doubled(failures'))
  <2>1. CASE failures < MaxFailures
    <3>1. failures' = failures + 1
      BY <2>1 DEF GetSettingsFails
    <3> HIDE DEF Doubled
    <3> QED
      BY <1>1, <1>2, <1>4, <3>1, RetryAssumption DEF next_delay
  <2>2. CASE failures = MaxFailures
    <3>1. failures' = failures
      BY <2>2, <1>1 DEF GetSettingsFails, MaxFailures
    <3> HIDE DEF Doubled
    <3> QED
      BY <1>1, <1>2, <1>3, <1>4, <2>2, <3>1, RetryAssumption DEF next_delay
  <2> QED
    BY <1>1, <2>1, <2>2 DEF MaxFailures
<1>6. failures' \in 0..MaxFailures
  BY <1>1 DEF GetSettingsFails, MaxFailures
<1> QED
  BY <1>5, <1>6 DEF BackoffInv, BackoffDoubles, Doubled

LEMMA BaseIsFirst == failures = 0 /\ delay = exponential_retry_base => BackoffInv
<1> SUFFICES ASSUME failures = 0, delay = exponential_retry_base PROVE BackoffInv
  OBVIOUS
<1>1. 2^0 = 1
  OBVIOUS
<1>2. exponential_retry_base * 2^failures = exponential_retry_base
  BY <1>1, RetryAssumption
<1> QED
  BY <1>2, RetryAssumption DEF BackoffInv, BackoffDoubles, MaxFailures

\* After every number of failures the delay of retry_until_ok is the base doubled as
\* often, up to the maximum, and a process that starts again begins with the base.
THEOREM RetryDelayDoubles == Spec => []BackoffDoubles
<1>1. Init => BackoffInv
  BY BaseIsFirst DEF Init
<1>2. BackoffInv /\ [Next]_vars => BackoffInv'
  <2> SUFFICES ASSUME BackoffInv, [Next]_vars PROVE BackoffInv'
    OBVIOUS
  <2>1. CASE UNCHANGED <<delay, failures>>
    BY <2>1 DEF BackoffInv, BackoffDoubles
  <2>2. CASE Restart
    <3>1. (failures = 0 /\ delay = exponential_retry_base)'
      BY <2>2 DEF Restart
    <3>2. (failures = 0 /\ delay = exponential_retry_base => BackoffInv)'
      BY BaseIsFirst, PTL
    <3> QED
      BY <3>1, <3>2
  <2>3. CASE GetSettingsFails
    BY <2>3, FailureDoubles
  <2>4. Restart \/ GetSettingsFails \/ UNCHANGED <<delay, failures>>
    <3>1. CASE LoadSettings \/ Kill \/ UNCHANGED vars
      BY <3>1 DEF LoadSettings, Kill, vars
    <3>2. CASE GetStorage \/ NewNode \/ DropGuard
      BY <3>2 DEF GetStorage, NewNode, DropGuard
    <3>3. ASSUME NEW to, Iterate(to) PROVE UNCHANGED <<delay, failures>>
      BY <3>3 DEF Iterate
    <3> QED
      BY <3>1, <3>2, <3>3
      DEF Next, Quiet, OnBlockNew, OnPeerConnected, OnPeerDisconnected
  <2> QED
    BY <2>1, <2>2, <2>3, <2>4
<1>3. BackoffInv => BackoffDoubles
  BY DEF BackoffInv
<1> QED
  BY <1>1, <1>2, <1>3, PTL DEF Spec
=============================================================================

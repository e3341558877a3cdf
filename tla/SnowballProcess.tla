-------------------------- MODULE SnowballProcess --------------------------
(***************************************************************************)
(* The life of an engine process: the start-up of engine.start, the turns  *)
(* of its loop as far as the storage sees them, and its ends and restarts. *)
(*                                                                         *)
(* main() always takes the storage location of SnowballConfig::default,    *)
(* "memory".  The other locations that get_storage accepts are modelled as *)
(* well: they are what the storage modules are for.                        *)
(*                                                                         *)
(* Of SnowballState the data kept here are what its settings and members   *)
(* are, and whether a block has been announced to it.  From then on the    *)
(* maps with byte-string keys (convergenza, waiting_response_map) have     *)
(* entries, which serde_json refuses to write: keys must be strings.       *)
(***************************************************************************)
EXTENDS SnowballConfig, FiniteSets, SequencesExt

CONSTANTS
    self,       \* local_peer_info.peer_id
    Peer,       \* the peers that may connect and disconnect
    Settings,   \* the on-chain settings to choose from
    NoData      \* no state in memory, or no file

VARIABLES
    location,   \* storage_location: "memory", "disk" (with a path), "disk_no_path", "other"
    settings,   \* the on-chain settings
    pc,         \* the next step, or "down"
    why,        \* how the process ended last
    delay,      \* the delay of retry_until_ok
    config,     \* SnowballConfig
    data,       \* the state behind the storage's guards
    file,       \* the file of the disk storage
    failures,   \* history: failed calls of get_settings, up to MaxFailures
    first       \* history: the thresholds with which the file was last made new

vars == <<location, settings, pc, why, delay, config, data, file, failures, first>>

\* Bound: the delay has reached its maximum by then.
MaxFailures == 11

ASSUME FailuresAssumption ==
    exponential_retry_max <= exponential_retry_base * 2^MaxFailures

IsDisk == location = "disk"

\* SnowballState::new panics when this node is no member.
IsIn(members, p) == \E i \in DOMAIN members : members[i] = p

NewState(c) ==
    [member_ids |-> c["members"], alfa |-> c["alfa"], beta |-> c["beta"], k |-> c["k"],
     has_block |-> FALSE]

Params(d) == [alfa |-> d.alfa, beta |-> d.beta, k |-> d.k]

Init ==
    /\ location \in {"memory", "disk", "disk_no_path", "other"}
    /\ settings \in Settings
    /\ pc = "loading"
    /\ why = "none"
    /\ delay = exponential_retry_base
    /\ config = default
    /\ data = NoData
    /\ file = NoData
    /\ failures = 0
    /\ first = NoData

Down(reason) == pc' = "down" /\ why' = reason

----------------------------------------------------------------------------
\* engine.start

\* retry_until_ok: get_settings fails, or succeeds and load_settings goes on.
GetSettingsFails ==
    /\ pc = "loading"
    /\ delay' = next_delay(delay)
    /\ failures' = IF failures < MaxFailures THEN failures + 1 ELSE failures
    /\ UNCHANGED <<location, settings, pc, why, config, data, file, first>>

LoadSettings ==
    /\ pc = "loading"
    /\ IF load_panics(settings)
       THEN Down("settings") /\ UNCHANGED config
       ELSE /\ config' = load_settings(config, settings)
            /\ pc' = "storage" /\ UNCHANGED why
    /\ UNCHANGED <<location, settings, delay, data, file, failures, first>>

\* MemStorage::new
open_memory == data' = NewState(config) /\ UNCHANGED file

\* Mutant: the file is made new at every start.
open_disk_fresh ==
    /\ data' = NewState(config)
    /\ file' = NewState(config)

\* DiskStorage::from_path: what the file holds, or a new state, which is written.
open_disk ==
    IF file # NoData
    THEN data' = file /\ UNCHANGED file
    ELSE data' = NewState(config) /\ file' = NewState(config)

\* get_storage.  A file that cannot be opened is taken for a missing one and replaced;
\* one that can makes this node's membership irrelevant: only a new state looks it up.
GetStorage ==
    /\ pc = "storage"
    /\ \/ /\ location \notin {"memory", "disk"}
          /\ Down("location")
          /\ UNCHANGED <<data, file, first>>
       \/ /\ location \in {"memory", "disk"}
          /\ ~ IsIn(config["members"], self)
          /\ Down("no_member")
          /\ UNCHANGED <<data, file, first>>
       \/ /\ location = "memory"
          /\ IsIn(config["members"], self)
          /\ open_memory
          /\ pc' = "node"
          /\ UNCHANGED <<why, first>>
       \/ /\ IsDisk
          /\ file = NoData => IsIn(config["members"], self)
          /\ open_disk
          /\ first' = IF file = NoData THEN Params(file') ELSE first
          /\ pc' = "node"
          /\ UNCHANGED why
       \/ /\ IsDisk
          /\ file # NoData
          /\ IsIn(config["members"], self)
          /\ data' = NewState(config)
          /\ file' = NewState(config)
          /\ first' = Params(file')
          /\ pc' = "node"
          /\ UNCHANGED why
       \/ /\ IsDisk
          /\ Down("io")
          /\ UNCHANGED <<data, file, first>>
    /\ UNCHANGED <<location, settings, delay, config, failures>>

\* Mutant: no wait is drawn when the test switches are off.
churn_range_is_empty_enabled == config["enabled"] /\ config["max_churn_timeout"] = 0

\* random_value draws from 0..max-1, whether the test switches are on or not.
churn_range_is_empty == config["max_churn_timeout"] = 0

\* SnowballNode::new, whose guard writes the state back, and the draw of the churn
\* time-out.
NewNode ==
    /\ pc = "node"
    /\ \/ IsDisk /\ Down("io")
       \/ churn_range_is_empty /\ Down("empty_range")
       \/ ~ churn_range_is_empty /\ pc' = "recv" /\ UNCHANGED why
    /\ UNCHANGED <<location, settings, delay, config, data, file, failures, first>>

----------------------------------------------------------------------------
\* The loop.  An iteration holds a write guard, which is dropped at its end, also when
\* a break or a panic after the update ends the loop ("drop_and_exit").

Iterate(to) ==
    /\ pc = "recv"
    /\ to \in {"drop", "drop_and_exit"}
    /\ pc' = to
    /\ UNCHANGED <<location, settings, why, delay, config, file, failures, first>>

\* An iteration that changes none of the data kept here.
Quiet(to) == Iterate(to) /\ UNCHANGED data

OnBlockNew(to) ==
    /\ Iterate(to)
    /\ data' = [data EXCEPT !.has_block = TRUE]

OnPeerConnected(p, to) ==
    /\ Iterate(to)
    /\ data' = [data EXCEPT !.member_ids = IF IsIn(@, p) THEN @ ELSE Append(@, p)]

\* The position of an unknown peer is unwrapped; the guard is dropped all the same.
OnPeerDisconnected(p, to) ==
    \/ /\ Iterate(to)
       /\ IsIn(data.member_ids, p)
       /\ data' = [data EXCEPT !.member_ids = Remove(@, p)]
    \/ /\ Iterate(to)
       /\ to = "drop_and_exit"
       /\ ~ IsIn(data.member_ids, p)
       /\ UNCHANGED data

serializable(d) == ~ d.has_block

\* Mutant: the guard is dropped without a write.
written_never == UNCHANGED file

written == file' = IF IsDisk THEN data ELSE file

\* Mutant: a state that cannot be written is skipped.
cannot_write_ignored == FALSE

cannot_write == IsDisk /\ ~ serializable(data)

\* The drop of the guard: the disk's writes the file at once or not at all, and
\* panics when it cannot.
DropGuard ==
    /\ pc \in {"drop", "drop_and_exit"}
    /\ \/ cannot_write /\ Down("not_serializable") /\ UNCHANGED file
       \/ IsDisk /\ Down("io") /\ UNCHANGED file
       \/ /\ ~ cannot_write
          /\ written
          /\ IF pc = "drop" THEN pc' = "recv" /\ UNCHANGED why ELSE Down("exited")
    /\ UNCHANGED <<location, settings, delay, config, data, failures, first>>

----------------------------------------------------------------------------
\* A kill at any moment; no guard is dropped.
Kill ==
    /\ pc # "down"
    /\ Down("killed")
    /\ UNCHANGED <<location, settings, delay, config, data, file, failures, first>>

\* main() again, maybe after a change of the on-chain settings.
Restart ==
    /\ pc = "down"
    /\ pc' = "loading"
    /\ settings' \in Settings
    /\ delay' = exponential_retry_base
    /\ config' = default
    /\ data' = NoData
    /\ failures' = 0
    /\ UNCHANGED <<location, why, file, first>>

Next ==
    \/ GetSettingsFails \/ LoadSettings \/ GetStorage \/ NewNode
    \/ \E to \in {"drop", "drop_and_exit"} :
          \/ Quiet(to) \/ OnBlockNew(to)
          \/ \E p \in Peer : OnPeerConnected(p, to) \/ OnPeerDisconnected(p, to)
    \/ DropGuard \/ Kill \/ Restart

Spec == Init /\ [][Next]_vars

----------------------------------------------------------------------------
\* Properties

\* retry_until_ok doubles the delay with every failure, up to the maximum and no
\* further, and a restart begins anew.
BackoffDoubles ==
    LET d == exponential_retry_base * 2^failures
    IN  delay = IF d > exponential_retry_max THEN exponential_retry_max ELSE d

\* storage/mod.rs:43 promises that changes are persisted when the guard is dropped.
\* Between two turns of the loop the file holds the state in memory, members that
\* came and went included, so a kill in the middle of a turn loses that turn only.
FileIsCurrent == IsDisk /\ pc = "recv" => file = data

\* The disk storage ends the process in the first turn that a block is announced in:
\* no turn begins with a block known, and no file ever knows of one.  So the disk
\* storage never carries a decision, or even a vote, over a restart.
DiskStopsAtFirstBlock ==
    IsDisk => /\ pc = "recv" => ~ data.has_block
              /\ file # NoData => ~ file.has_block

\* The engine runs with the thresholds of the settings that it has just loaded; on the
\* disk storage, with those of the day the file was last made new, whatever the
\* settings say now.
ThresholdsInForce ==
    pc = "recv" => Params(data) = IF IsDisk THEN first ELSE Params(NewState(config))

\* A churn time-out of 0 ms stops every node at start-up, also with the Byzantine
\* test switches off.
NoLoopWithoutChurnTimeout ==
    pc = "recv" /\ parses(settings, "max_churn_timeout") =>
        settings["max_churn_timeout"] # <<0>>
=============================================================================

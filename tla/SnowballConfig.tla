--------------------------- MODULE SnowballConfig ---------------------------
(***************************************************************************)
(* The configuration of a node (config.rs) and the retries that read it    *)
(* (retry_until_ok of timing.rs).  The on-chain settings are a function    *)
(* from the keys that are set; the value of a key is <<v>> when it parses  *)
(* as v and <<>> when it does not parse.                                   *)
(***************************************************************************)
EXTENDS Integers, Sequences

CONSTANTS
    exponential_retry_base,
    exponential_retry_max

ASSUME RetryAssumption ==
    /\ exponential_retry_base \in Nat \ {0}
    /\ exponential_retry_max \in Nat
    /\ exponential_retry_base <= exponential_retry_max

Required == {"members", "alfa", "beta", "k"}

Durations == {"block_publishing_delay", "hang_timeout"}

Byzantine == {"enabled", "max_churn_timeout", "churn_idx", "hang_idx", "max_sleep_delay",
              "sleep_idx", "duplicate_idx", "spurious_idx", "wrong_decision_idx"}

Key == Required \cup Durations \cup Byzantine

\* SnowballConfig::default
default ==
    [key \in Key |->
        CASE key = "members"                  -> <<>>
          [] key \in {"alfa", "beta", "k"}    -> 0
          [] key = "block_publishing_delay"   -> 5000
          [] key = "hang_timeout"             -> 3000
          [] key = "enabled"                  -> FALSE
          [] key = "max_churn_timeout"        -> 20000
          [] key = "max_sleep_delay"          -> 6000
          [] OTHER                            -> {}]

parses(settings, key) == key \in DOMAIN settings /\ settings[key] # <<>>

\* merge_setting_if_set_and_map, and the ifs that do the same for the test switches.
merge_setting_if_set(settings, setting_field, key) ==
    IF parses(settings, key) THEN Head(settings[key]) ELSE setting_field

get_members_from_settings_panics(settings) == ~ parses(settings, "members")

\* load_settings panics on a required setting that is missing or does not parse.
load_panics(settings) ==
    \/ get_members_from_settings_panics(settings)
    \/ \E key \in Required : ~ parses(settings, key)

load_settings(config, settings) ==
    [key \in Key |-> merge_setting_if_set(settings, config[key], key)]

\* Mutant: the delay is doubled past the maximum.
next_delay_uncapped(delay) ==
    IF delay < exponential_retry_max THEN 2 * delay ELSE delay

\* The delay of retry_until_ok after one more failure.
next_delay(delay) ==
    IF delay >= exponential_retry_max THEN delay
    ELSE IF 2 * delay > exponential_retry_max THEN exponential_retry_max
    ELSE 2 * delay
=============================================================================

----------------------------- MODULE RepoConfig -----------------------------
(***************************************************************************)
(* The repository's configuration, .github/nogent.json (repo_config.rs).   *)
(* A file states some of the keys; the rest have defaults, and each limit  *)
(* is clamped to its range. An option that is not stated is a key outside  *)
(* of the DOMAIN.                                                          *)
(***************************************************************************)
EXTENDS Integers

LimitKeys == {"max_files", "max_patch_bytes", "max_context_bytes"}
FlagKeys == {"enabled", "issue_triage_enabled", "pr_review_enabled"}

CONSTANT Limits  \* Limits[k]: default and range of the limit k

\* 25 in 1..300, 120_000 in 1_000..2_000_000, 400_000 in 10_000..4_000_000.
ASSUME RepoConfigAssumption ==
  \A k \in LimitKeys :
    /\ Limits[k] \in [default : Nat, low : Nat \ {0}, high : Nat]
    /\ Limits[k].default \in Limits[k].low .. Limits[k].high

\* What fetch_repo_config comes back with: no file, one that is not valid
\* JSON or has a key nogent does not know, or one with these keys.
IsRaw(raw) ==
  /\ raw.file \in {"absent", "malformed", "parsed"}
  /\ DOMAIN raw.flags \subseteq FlagKeys /\ \A k \in DOMAIN raw.flags : raw.flags[k] \in BOOLEAN
  /\ DOMAIN raw.limits \subseteq LimitKeys /\ \A k \in DOMAIN raw.limits : raw.limits[k] \in Nat
  /\ raw.file # "parsed" => DOMAIN raw.flags = {} /\ DOMAIN raw.limits = {}

clamp(n, low, high) == IF n < low THEN low ELSE IF n > high THEN high ELSE n

\* A malformed file is an error, and the event is dropped.
Resolves(raw) == raw.file # "malformed"

limit(raw, k) ==
  clamp(IF k \in DOMAIN raw.limits THEN raw.limits[k] ELSE Limits[k].default,
        Limits[k].low, Limits[k].high)

flag(raw, k) == IF k \in DOMAIN raw.flags THEN raw.flags[k] ELSE TRUE

resolve(raw) == [flags |-> [k \in FlagKeys |-> flag(raw, k)],
                 limits |-> [k \in LimitKeys |-> limit(raw, k)]]

ResolvedConfig == [flags : [FlagKeys -> BOOLEAN], limits : [LimitKeys -> Nat]]

\* dispatch_pr and dispatch_command go on to a review.
Reviews(config) == config.flags["enabled"] /\ config.flags["pr_review_enabled"]

=============================================================================

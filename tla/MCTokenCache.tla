---------------------------- MODULE MCTokenCache ----------------------------
(* An instance of TokenCache for TLC. The margin SKEW is one unit of time, *)
(* a token lives three, and the host's clock is one behind, right or one   *)
(* ahead, so that a mint signed behind is refused and an answer stored     *)
(* late and ahead is stale at once. The fallback and the HTTP timeout      *)
(* together are less than a lifetime, as 50 minutes and 20 seconds are     *)
(* less than an hour.                                                      *)
EXTENDS TokenCache, CivilDate, TLC

CONSTANTS c1, c2, org, lib, app

TwoRepos == {<<1, org, lib>>, <<1, org, app>>}
ClockOff == {-1, 0, 1}  \* behind, right, ahead
Symmetry == Permutations(Callers) \cup Permutations({lib, app})

-----------------------------------------------------------------------------
(* The dates of expires_at, and the stamps of the tests in app_auth.rs. *)

SixYears == {d \in (1999..2004) \X (1..12) \X (1..31) : IsDate(d[1], d[2], d[3])}

\* The next date has the next number.
ASSUME DatesCounted ==
  \A d \in SixYears :
    LET t == Tomorrow(d[1], d[2], d[3])
    IN  days_from_civil(t[1], t[2], t[3]) = days_from_civil(d[1], d[2], d[3]) + 1

At(year, month, day, hour) == [year |-> year, month |-> month, day |-> day,
                               hour |-> hour, min |-> 0, sec |-> 0]

\* parses_github_expires_at, rejects_malformed_expires_at.
ASSUME StampsOfTests ==
  /\ parse_rfc3339_secs(At(2026, 6, 29, 0)) = 1782691200
  /\ parse_rfc3339_secs(At(1970, 1, 1, 0)) = 0
  /\ parse_rfc3339_secs(At(2024, 2, 29, 12)) = 1709208000
  /\ parse_rfc3339_secs(At(2026, 13, 1, 0)) = Refused

=============================================================================

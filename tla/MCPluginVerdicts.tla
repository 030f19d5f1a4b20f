-------------------------- MODULE MCPluginVerdicts --------------------------
(***************************************************************************)
(* PluginVerdicts on a clock of 60 s: a decay step every unit, a renewed   *)
(* life and a verdict life of two units, a TICK in every unit.             *)
(***************************************************************************)
EXTENDS PluginVerdicts, TLC

CONSTANTS c1, c2

OneClient  == {c1}
TwoClients == {c1, c2}
Symmetry   == Permutations(TwoClients)

AtMost(n, cap) == IF n > cap THEN cap ELSE n

(* A verdict, seen from the present; once no outage could keep its entry,   *)
(* nothing asks for how long.                                               *)
Longest == (Second - 1) + DecayGap + (TickEvery - 1)
             + (StepsOut(KICK) - 1) * (DecayRenew + TickEvery)

VerdictNow(v) ==
  [v EXCEPT !.expires_at = -AtMost(now - v.expires_at, Longest + 1)]

(* An entry, seen from the present: a bucket of rate 1 is full after two    *)
(* units, a decay step is due after DecayGap.                               *)
EntryNow(e) ==
  [e EXCEPT !.expires_at = @ - now,
            !.tokens_ts = AtMost(now - @, 2),
            !.last_decay_ts = AtMost(now - @, DecayGap)]

StringNow(s) ==
  [packed |-> VerdictNow(s.packed), until |-> s.until - now]

(* States that differ by a shift of time, in whole seconds, are one state:  *)
(* guards, steps and properties only compare the clock with timestamps.  So *)
(* the search is not cut by the bound on the clock, and covers outages and  *)
(* runs of any length.  Left out is what no enabled guard and no property   *)
(* of a state reads: the output of the last callback, the activity          *)
(* timestamps (keep-alive is off here), and the timestamps whose periods    *)
(* are shorter than the clock unit.                                         *)
View ==
  <<now % Second, now - last_tick, mode, Registered(registry),
    verdict_redis_ctx, verdict_backoff_ms, refetched, kicked,
    [c \in Clients |-> IF verdict_cache[c] = Absent THEN Absent
                       ELSE EntryNow(verdict_cache[c])],
    [c \in Clients |-> IF verdictp[c] = Absent THEN Absent
                       ELSE StringNow(verdictp[c])],
    [c \in Clients |-> IF fetched[c] = Absent THEN Absent
                       ELSE VerdictNow(fetched[c])]>>
=============================================================================

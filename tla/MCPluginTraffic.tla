--------------------------- MODULE MCPluginTraffic --------------------------
(***************************************************************************)
(* PluginTraffic on a clock of one second: TICK and refresh every second,  *)
(* decay and verdict lives longer than the run.                            *)
(***************************************************************************)
EXTENDS PluginTraffic

CONSTANTS c1

(* No verdict expires within MaxTime, so expiry and decay times are not     *)
(* distinguished; neither is the output of the last callback.               *)
Seen(e) ==
  IF e = Absent THEN <<>>
  ELSE IF "packed" \in DOMAIN e THEN <<e.packed.level, e.packed.rate>>
  ELSE <<e.level, e.rate, e.tokens, e.tokens_ts>>

View == <<now, mode, registry, Seen(verdict_cache[c1]), verdict_redis_ctx,
          last_verdict_refresh_ts, Seen(verdictp[c1]), last_tick, traffic>>
=============================================================================

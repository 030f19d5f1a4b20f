------------------------------- MODULE Fleet --------------------------------
(***************************************************************************)
(* Coordinated drift (fleet.py): the z-scores of the windows that closed   *)
(* in the present fleet window, and the alarm raised when enough of them   *)
(* lie beyond the trigger on one feature.  The windows are those of        *)
(* features.py: the fleet sees each when it closes, but places it at its   *)
(* start, so that it sees them out of order.                               *)
(*                                                                         *)
(* A z-score is its sign beyond z_trigger, 0 within.  The running mean and *)
(* deviation only decide that sign: any, once two windows were seen.       *)
(***************************************************************************)
EXTENDS FeatureWindows, Sequences, FiniteSets, FiniteSetsExt

CONSTANTS
  Clients,
  Features,
  NoStart,          (* no fleet window yet                                  *)
  FleetWindow,      (* FleetBaseline.window_s                               *)
  MinFleetSize,     (* MIN_FLEET_SIZE_FOR_ALARM                             *)
  Percent,          (* coordinated_fraction, in hundredths                  *)
  SweepLate,        (* bound on how long after that a sweep finds a window  *)
  MaxTime,          (* bound on the clock                                   *)
  MaxUp, MaxDown    (* bounds on the windows with a z-score beyond the      *)
                    (* trigger                                              *)

ASSUME FleetAssumption ==
  /\ IsFiniteSet(Clients)
  /\ NoStart \notin Nat
  /\ FleetWindow \in Nat \ {0}
  /\ MinFleetSize \in Nat \ {0}
  /\ Percent \in 1..100
  /\ SweepLate \in Nat \ {0}
  /\ MaxTime \in Nat
  /\ MaxUp \in Nat
  /\ MaxDown \in Nat

VARIABLES
  now,
  acc,              (* FeatureWindowManager._acc                            *)
  active_clients,   (* FleetBaseline._active_clients                        *)
  window_zscores,   (* its _window_zscores                                  *)
  window_start,     (* its _window_start                                    *)
  observed          (* history: the calls of observe, and what they said    *)

fleet == <<active_clients, window_zscores, window_start, observed>>
vars  == <<now, acc, fleet>>

Signs == {-1, 0, 1}
Z     == [Features -> Signs]
Calm  == [f \in Features |-> 0]

TypeOK ==
  /\ now \in Nat
  /\ acc \in [Clients -> Accumulator \cup {NoWindow}]
  /\ active_clients \subseteq Clients
  /\ window_zscores \in Seq([client : Clients, start : Nat, z : Z])
  /\ window_start \in Nat \cup {NoStart}
  /\ observed \in Seq([client : Clients, start : Nat, z : Z, active : Nat,
                        alarm : BOOLEAN])

Init ==
  /\ now = 1
  /\ acc = [c \in Clients |-> NoWindow]
  /\ active_clients = {}
  /\ window_zscores = <<>>
  /\ window_start = NoStart
  /\ observed = <<>>

-----------------------------------------------------------------------------
(* Variants: a fleet window that never ends; one that ends for all but the  *)
(* first scores in it.                                                      *)
FleetRollsNever(start) == FALSE
FleetRollsEvery(start) == window_start # NoStart

(* _maybe_roll_window: the window scored lies past the fleet window's end.  *)
FleetRolls(start) ==
  window_start # NoStart /\ start - window_start >= FleetWindow

(* How many z-scores of the feature lie beyond the trigger on that side.    *)
Beyond(zs, f, sign) == Cardinality({i \in DOMAIN zs : zs[i].z[f] = sign})

(* The side that has more of them; the upper one if they are even.          *)
Direction(zs, f) == IF Beyond(zs, f, 1) >= Beyond(zs, f, -1) THEN 1 ELSE -1

Affected(zs, f) == Beyond(zs, f, Direction(zs, f))

InThisGroup(zs, f, c) ==
  \E i \in DOMAIN zs : zs[i].client = c /\ zs[i].z[f] = Direction(zs, f)

CheckCoordinated(zs, active, c) ==
  /\ Cardinality(active) >= MinFleetSize
  /\ \E f \in Features :
       /\ Affected(zs, f) >= 2
       /\ Affected(zs, f) * 100 >= Percent * Cardinality(active)
       /\ InThisGroup(zs, f, c)

(* FleetBaseline.observe, of a closed window of the client.                 *)
Observe(c, start, z) ==
  LET seen == [client |-> c, start |-> start, z |-> z]
      zs == Append(IF FleetRolls(start) THEN <<>> ELSE window_zscores, seen)
      active == active_clients \cup {c}
  IN
  /\ z # Calm => Len(observed) >= 2
  /\ window_start' = IF window_start = NoStart \/ FleetRolls(start)
                     THEN start ELSE window_start
  /\ active_clients' = active
  /\ window_zscores' = zs
  /\ observed' = Append(observed,
                   [client |-> c, start |-> start, z |-> z,
                    active |-> Cardinality(active),
                    alarm |-> CheckCoordinated(zs, active, c)])

-----------------------------------------------------------------------------
(* Scoring loop: an event of the client, which may close its window; and    *)
(* the sweep, which closes the windows of clients that fell silent.         *)
OnEvent(c, z) ==
  /\ acc' = [acc EXCEPT ![c] = AfterEvent(@, 0, now)]
  /\ acc' # acc
  /\ IF Rolls(acc[c], now) THEN Observe(c, acc[c].window_start, z)
                           ELSE z = Calm /\ UNCHANGED fleet
  /\ UNCHANGED now

StaleClients == {c \in Clients : Stale(acc[c], now)}

SweepOne(c, z) ==
  /\ c \in StaleClients
  /\ acc' = [acc EXCEPT ![c] = NoWindow]
  /\ Observe(c, acc[c].window_start, z)
  /\ UNCHANGED now

(* Time passes; a stale window is not left open for longer than a sweep     *)
(* takes to come round.                                                     *)
Advance ==
  /\ now < MaxTime
  /\ \A c \in Clients :
       acc[c] # NoWindow =>
         now + 1 < acc[c].window_start + WindowLen + IdleGrace + SweepLate
  /\ now' = now + 1
  /\ UNCHANGED <<acc, fleet>>

(* The z-scores explored for the next window.                               *)
Spikes(sign) ==
  Cardinality({i \in DOMAIN observed : \E f \in Features :
                 observed[i].z[f] = sign})

Explored ==
  {z \in Z : /\ Spikes(1) = MaxUp => \A f \in Features : z[f] # 1
             /\ Spikes(-1) = MaxDown => \A f \in Features : z[f] # -1}

Next ==
  \/ \E c \in Clients, z \in Explored : OnEvent(c, z) \/ SweepOne(c, z)
  \/ Advance

Spec == Init /\ [][Next]_vars

-----------------------------------------------------------------------------
(* How much later than at its end a window may close.                       *)
Late == IdleGrace + SweepLate - 1

Spiked(i, f, sign) == observed[i].z[f] = sign

(* An alarm is about this client and now: on one feature the client and at  *)
(* least one other window went the same way, and all that went that way and *)
(* count towards the quorum began within one fleet window and the lateness  *)
(* of a window, however the windows of the fleet interleave.                *)
AlarmIsJustified ==
  \A n \in DOMAIN observed : observed[n].alarm =>
    \E f \in Features, sign \in {-1, 1} :
      \E W \in SUBSET {i \in 1..n : Spiked(i, f, sign)} :
        /\ Cardinality(W) >= 2
        /\ Cardinality(W) * 100 >= Percent * observed[n].active
        /\ \E i \in W : observed[i].client = observed[n].client
        /\ \A i \in W : \A j \in W \cup {n} :
             observed[j].start - observed[i].start < FleetWindow + Late

(* Four windows that spike the same way within one span of a fleet window,  *)
(* when the fleet is large enough for an alarm and two of them are a        *)
(* quorum, are caught by at least one alarm, however the tumbling fleet     *)
(* windows cut the span, unless some window spiked the other way.           *)
CoordinationIsCaught ==
  \A f \in Features, sign \in {-1, 1} :
    \A W \in SUBSET {i \in DOMAIN observed : Spiked(i, f, sign)} :
      /\ Cardinality(W) >= 4
      /\ \A i, j \in W : observed[j].start - observed[i].start < FleetWindow
      /\ \A i \in W : /\ observed[i].active >= MinFleetSize
                      /\ Percent * observed[i].active <= 2 * 100
      /\ \A i \in DOMAIN observed : ~Spiked(i, f, -sign)
      => \E i \in W : observed[i].alarm

-----------------------------------------------------------------------------
(* What the documentation says and the code does not do.                    *)

(* SPEC.md 5.5: an alarm says that several clients drifted together.        *)
AlarmHasCompany ==
  \A n \in DOMAIN observed : observed[n].alarm =>
    \E f \in Features, sign \in {-1, 1} :
      Cardinality({observed[i].client : i \in
                     {j \in 1..n : Spiked(j, f, sign)}}) >= 2
=============================================================================

----------------------------- MODULE SteadyClock ----------------------------
(***************************************************************************)
(* std::chrono::steady_clock as the outputs of PublishVio use it.          *)
(***************************************************************************)
EXTENDS Integers

CONSTANTS
  Never,       \* no time yet: an empty optional, the default time point
  Horizon      \* bound: the last moment

ASSUME ClockAssumption == Horizon \in Nat /\ Never \notin Int

VARIABLE now

(***************************************************************************)
(* At least period has passed since a moment that may not have come.       *)
(***************************************************************************)
Elapsed(since, period) == IF since = Never THEN TRUE ELSE now - since >= period

Tick == now < Horizon /\ now' = now + 1
=============================================================================

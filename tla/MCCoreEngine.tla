---------------------------- MODULE MCCoreEngine ----------------------------
(***************************************************************************)
(* Instances of CoreEngine for TLC.                                        *)
(***************************************************************************)
EXTENDS CoreEngine

(***************************************************************************)
(* Two parsers registered, one name twice.                                 *)
(***************************************************************************)
MCRegistrations ==
  << [name |-> "null", kind |-> "NullParser"], [name |-> "itch", kind |-> "ItchParser"],
     [name |-> "itch", kind |-> "NullParser"] >>

(***************************************************************************)
(* Combined statistics of a pipeline that report no drop mean that none    *)
(* was made: each message dispatched is delivered, queued or in hand for   *)
(* every subscriber.                                                       *)
(***************************************************************************)
NoDropUnreported ==
  get_stats.dropped = 0 /\ p_thread.pc = "test" =>
    \A s \in Subs : Reached(s) = Owed(s)
=============================================================================

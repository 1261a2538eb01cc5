----------------------------- MODULE ExampleApp -----------------------------
(***************************************************************************)
(* The programs of examples/basic_example.cpp and itch50_example.cpp       *)
(* around the engine: set up, initialize, start, print statistics until a  *)
(* signal, stop, print the final statistics, return.  The main thread      *)
(* makes the engine's calls in the order of the program; "any" is an       *)
(* application that calls as it likes.  Reading and printing statistics    *)
(* changes nothing and is part of the step it belongs to.                  *)
(***************************************************************************)
EXTENDS MCCoreEngine

VARIABLES
  program,   \* which program runs
  line,      \* the next call main() makes
  running    \* the flag the signal handler clears

(***************************************************************************)
(* The bounds leave room for what the programs do.                         *)
(***************************************************************************)
ASSUME ProgramsFit == MaxSubscribers >= 2 /\ MaxStarts >= 1

appVars == <<program, line, running>>
allVars == <<vars, appVars>>

(***************************************************************************)
(* What main() does to the engine before initialize(): the parser it sets, *)
(* or the engine's default, and the subscribers it adds.                   *)
(***************************************************************************)
Setup == [basic |-> [parser |-> "EchoParser", subscribers |-> 1],
          itch50 |-> [parser |-> "ItchParser", subscribers |-> 2]]

Programs == DOMAIN Setup

AppInit ==
  /\ Init
  /\ program \in Programs \cup {"any"}
  /\ line = "set up"
  /\ running = TRUE

SetParser ==
  /\ line = "set up"
  /\ parser.kind # Setup[program].parser
  /\ set_parser(Setup[program].parser)
  /\ UNCHANGED appVars

AddSubscribers ==
  /\ line = "set up"
  /\ parser.kind = Setup[program].parser
  /\ Len(subscribers) < Setup[program].subscribers
  /\ add_subscriber
  /\ UNCHANGED appVars

(***************************************************************************)
(* A failed initialize() returns 1 from main at once.                      *)
(***************************************************************************)
Initialize ==
  /\ line = "set up"
  /\ parser.kind = Setup[program].parser
  /\ Len(subscribers) = Setup[program].subscribers
  /\ \E ok \in BOOLEAN : initialize(ok) /\ line' = IF ok THEN "start" ELSE "return"
  /\ UNCHANGED <<program, running>>

Start ==
  /\ line = "start"
  /\ StartFlag
  /\ line' = "wait"
  /\ UNCHANGED <<program, running>>

(***************************************************************************)
(* while (running.load()): each round sleeps and prints; once the signal   *)
(* has come the loop ends and engine.stop() is called.                     *)
(***************************************************************************)
Stop ==
  /\ line = "wait"
  /\ ~running
  /\ StopFlag
  /\ line' = "stop"
  /\ UNCHANGED <<program, running>>

(***************************************************************************)
(* After stop(): the final statistics, then the destructors, whose own     *)
(* stop() calls find nothing running.                                      *)
(***************************************************************************)
Return ==
  /\ line = "stop"
  /\ main = "idle"
  /\ line' = "return"
  /\ UNCHANGED <<vars, program, running>>

Main ==
  /\ program \in Programs
  /\ SetParser \/ AddSubscribers \/ Initialize \/ Start \/ Stop \/ Return

(***************************************************************************)
(* signal_handler: SIGINT or SIGTERM, at any time, or never.               *)
(***************************************************************************)
signal_handler ==
  /\ program \in Programs
  /\ running
  /\ running' = FALSE
  /\ UNCHANGED <<vars, program, line>>

Engine == MainStep \/ ParserThread \/ Receiving \/ Failing \/ Dispatching \/ Network

AppNext ==
  \/ Main
  \/ signal_handler
  \/ program = "any" /\ Application /\ UNCHANGED appVars
  \/ Engine /\ UNCHANGED appVars

(***************************************************************************)
(* The threads of the process are scheduled: one that can take a step, and *)
(* a start() or stop() in progress, goes on.  on_message returns (it must  *)
(* not block), and so does sleep_for.  Nothing is assumed of the network,  *)
(* of when "any" makes its calls, or whether and when the signal comes.    *)
(***************************************************************************)
AppScheduling ==
  /\ WF_allVars(Main)
  /\ WF_allVars(MainStep /\ UNCHANGED appVars)
  /\ WF_allVars(ParserThread /\ UNCHANGED appVars)
  /\ WF_allVars(Receiving /\ UNCHANGED appVars)
  /\ WF_allVars(Dispatching /\ UNCHANGED appVars)

AppSpec == AppInit /\ [][AppNext]_allVars /\ AppScheduling

(***************************************************************************)
(* The premise that datagrams keep arriving.                               *)
(***************************************************************************)
Traffic == WF_allVars(Network /\ UNCHANGED appVars)

-----------------------------------------------------------------------------
(***************************************************************************)
(* The application is inside stop().                                       *)
(***************************************************************************)
Stopping == main \in {"join parser", "stop dispatcher", "join dispatcher",
                      "stop receiver", "join receiver"}

(***************************************************************************)
(* stop() gets as far as the join of the receiver thread whatever the      *)
(* network does, be it silent or without pause: the parser thread looks at *)
(* running_ after each packet and is stopped first, so the dispatcher      *)
(* thread, which drains a queue before it looks at running_ again, runs    *)
(* out of messages.                                                        *)
(***************************************************************************)
StopReachesReceiver == Stopping ~> main \in {"join receiver", "idle"}

(***************************************************************************)
(* A stop() in progress returns ("Stop the core engine") if datagrams keep *)
(* arriving, for one of them wakes the receiver thread out of recvfrom:    *)
(* all three threads are joined.                                           *)
(***************************************************************************)
StopReturns == Traffic => (Stopping ~> main = "idle")

(***************************************************************************)
(* "Press Ctrl+C to stop": once the signal has come, main returns, from    *)
(* wherever the program and the three threads of its engine are.           *)
(***************************************************************************)
ProgramExits == ~running ~> line = "return"

(***************************************************************************)
(* This is so if datagrams keep arriving.                                  *)
(***************************************************************************)
ProgramExitsInTraffic == Traffic => ProgramExits
=============================================================================

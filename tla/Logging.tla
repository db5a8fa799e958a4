------------------------------- MODULE Logging -------------------------------
(***************************************************************************)
(* setRTPSLoglevel, and what becomes of the entries that are logged while  *)
(* it runs.                                                                *)
(*                                                                         *)
(* The log of Fast-DDS belongs to the process: consumers, verbosity and    *)
(* queue are shared by all threads and all objects, and the four calls of  *)
(* setRTPSLoglevel are four operations, not one.  A thread of the log      *)
(* hands each queued entry to every consumer there is at that moment.      *)
(* Formatting and the colours that CustomLogConsumer leaves out are data.  *)
(***************************************************************************)
EXTENDS Integers, Sequences, FiniteSets

CONSTANTS
  Callers,         \* threads that call setlogLevel
  MaxCalls,        \* bound on the calls of a behaviour
  MaxEntries       \* bound on the entries of a behaviour

ASSUME LoggingAssumption ==
  IsFiniteSet(Callers) /\ MaxCalls \in Nat /\ MaxEntries \in Nat

(* Error, warning, info: an entry is taken up to the verbosity.            *)
Kinds == 0 .. 2

VARIABLES
  call,            \* call[c]: where thread c is in setRTPSLoglevel, and for
                   \* which level
  stdout,          \* is the consumer registered that Fast-DDS starts with?
  custom,          \* number of CustomLogConsumers registered
  verbosity,
  queue,           \* the entries (their kinds) not yet consumed
  logged,          \* number of entries so far
  lines,           \* how often the last consumed entry was printed
  calls,           \* number of calls so far
  level,           \* history: the level of the call that began last
  overlapped       \* history: have two calls been under way together?

vars == <<call, stdout, custom, verbosity, queue, logged, lines, calls, level,
          overlapped>>
consumers == <<stdout, custom>>
entries   == <<queue, logged, lines>>
history   == <<calls, level, overlapped>>

NoCall == [step |-> "idle", level |-> 0]
At(c, step) == call[c].step = step
Go(c, step) == call' = [call EXCEPT ![c].step = step]

Init ==
  /\ call = [c \in Callers |-> NoCall]
  /\ stdout = TRUE /\ custom = 0 /\ verbosity = 0
  /\ queue = << >> /\ logged = 0 /\ lines = 1
  /\ calls = 0 /\ level = 0 /\ overlapped = FALSE
-----------------------------------------------------------------------------
SetLogLevel(c, l) ==
  /\ At(c, "idle") /\ calls < MaxCalls
  /\ call' = [call EXCEPT ![c] = [step |-> "clear", level |-> l]]
  /\ calls' = calls + 1 /\ level' = l
  /\ overlapped' = (overlapped \/ \E d \in Callers : ~At(d, "idle"))
  /\ UNCHANGED <<consumers, verbosity, entries>>

\* Mutant of ClearConsumers: only the consumer added last is taken out.
ClearConsumersOne(c) ==
  /\ At(c, "clear") /\ Go(c, "register")
  /\ custom' = custom - 1
  /\ UNCHANGED <<stdout, verbosity, entries, history>>

\* Mutant of ClearConsumers: the new consumer comes beside the old ones.
ClearConsumersNot(c) ==
  /\ At(c, "clear") /\ Go(c, "register")
  /\ UNCHANGED <<consumers, verbosity, entries, history>>

ClearConsumers(c) ==
  /\ At(c, "clear") /\ Go(c, "register")
  /\ stdout' = FALSE /\ custom' = 0
  /\ UNCHANGED <<verbosity, entries, history>>

\* Mutant of RegisterConsumer: no consumer takes the place of the old ones.
RegisterConsumerNot(c) ==
  /\ At(c, "register") /\ Go(c, "verbosity")
  /\ UNCHANGED <<consumers, verbosity, entries, history>>

RegisterConsumer(c) ==
  /\ At(c, "register") /\ Go(c, "verbosity")
  /\ custom' = custom + 1
  /\ UNCHANGED <<stdout, verbosity, entries, history>>

\* Mutant of SetVerbosity: a case of the switch runs into the next ones.
SetVerbosityFallsThrough(c) ==
  /\ At(c, "verbosity")
  /\ verbosity' = 2
  /\ call' = [call EXCEPT ![c] = NoCall]
  /\ UNCHANGED <<consumers, entries, history>>

(* The switch; the file names that are asked for then are not told apart.  *)
SetVerbosity(c) ==
  /\ At(c, "verbosity")
  /\ verbosity' = call[c].level
  /\ call' = [call EXCEPT ![c] = NoCall]
  /\ UNCHANGED <<consumers, entries, history>>
-----------------------------------------------------------------------------
(* Any thread logs an entry: it is queued if its kind is asked for.        *)
LogEntry(k) ==
  /\ logged < MaxEntries /\ k <= verbosity
  /\ queue' = Append(queue, k)
  /\ logged' = logged + 1
  /\ UNCHANGED <<call, consumers, verbosity, lines, history>>

(* Every consumer registered at this moment prints it.                     *)
Consume ==
  /\ queue # << >>
  /\ queue' = Tail(queue)
  /\ lines' = custom + (IF stdout THEN 1 ELSE 0)
  /\ UNCHANGED <<call, consumers, verbosity, logged, history>>
-----------------------------------------------------------------------------
Next ==
  \/ \E c \in Callers : \/ \E l \in Kinds : SetLogLevel(c, l)
                        \/ ClearConsumers(c) \/ RegisterConsumer(c)
                        \/ SetVerbosity(c)
  \/ \E k \in Kinds : LogEntry(k)
  \/ Consume

Spec == Init /\ [][Next]_vars
-----------------------------------------------------------------------------
Steps == {"idle", "clear", "register", "verbosity"}

TypeOK ==
  /\ call \in [Callers -> [step : Steps, level : Kinds]]
  /\ stdout \in BOOLEAN /\ custom \in Nat /\ verbosity \in Kinds
  /\ queue \in Seq(Kinds) /\ logged \in Nat /\ lines \in Nat
  /\ calls \in Nat /\ level \in Kinds /\ overlapped \in BOOLEAN

(* An entry is lost only if it comes to be consumed while some call is     *)
(* between clearing the consumers and registering its own                  *)
(* (FastRTPSWrapper.cpp:61-62), however the calls overlap.                 *)
LostOnlyBetween ==
  [][queue' # queue /\ Len(queue') < Len(queue) /\ lines' = 0 =>
       \E c \in Callers : At(c, "register")]_vars

(* An entry is printed twice only if two calls have overlapped; both may   *)
(* clear first and register then, and every entry is doubled from there on.*)
DoubledOnlyByOverlap == lines > 1 => overlapped

(* Called by one thread at a time the function does what it is for: one    *)
(* consumer, the custom one, and the verbosity asked for last.             *)
LevelSet ==
  ~overlapped /\ calls > 0 /\ (\A c \in Callers : At(c, "idle")) =>
    ~stdout /\ custom = 1 /\ verbosity = level

=============================================================================

--------------------------- MODULE LoggingProofs ---------------------------
(***************************************************************************)
(* setRTPSLoglevel for any number of calling threads, calls and entries.   *)
(***************************************************************************)
EXTENDS Logging, TLAPS

USE LoggingAssumption

(* Without consumers some call is about to register one.                   *)
Between == custom = 0 /\ ~stdout => \E c \in Callers : At(c, "register")

(* As long as no two calls overlapped: there is one call at most, and what *)
(* it has done is what its step says.                                      *)
Alone ==
  ~overlapped =>
    /\ \A c, d \in Callers : ~At(c, "idle") /\ ~At(d, "idle") => c = d
    /\ custom <= 1 /\ (stdout => custom = 0)
    /\ \A c \in Callers :
         /\ ~At(c, "idle") => call[c].level = level
         /\ At(c, "register") => custom = 0 /\ ~stdout
         /\ At(c, "verbosity") => custom = 1 /\ ~stdout

LogInv == TypeOK /\ Between /\ Alone /\ LevelSet /\ DoubledOnlyByOverlap

(* Fast-DDS starts with its one consumer.                                  *)
LEMMA LogInit == Init => LogInv
<1> SUFFICES ASSUME Init PROVE LogInv
  OBVIOUS
<1>1. stdout /\ ~overlapped
  BY DEF Init
<1>2. queue \in Seq(Kinds)
  BY DEF Init
<1>3. call \in [Callers -> [step : Steps, level : Kinds]]
  BY DEF Init, NoCall, Steps, Kinds
<1>4. TypeOK
  <2>1. stdout \in BOOLEAN /\ overlapped \in BOOLEAN
    BY Zenon DEF Init
  <2>2. /\ custom \in Nat /\ verbosity \in Kinds /\ logged \in Nat
        /\ lines \in Nat /\ calls \in Nat /\ level \in Kinds
    BY DEF Init, Kinds
  <2> QED
    BY <1>2, <1>3, <2>1, <2>2, Zenon DEF TypeOK
<1>5. Between /\ DoubledOnlyByOverlap /\ LevelSet
  BY <1>1 DEF Init, Between, DoubledOnlyByOverlap, LevelSet
<1>6. Alone
  BY DEF Init, Alone, NoCall, At
<1> QED
  BY <1>4, <1>5, <1>6 DEF LogInv

(* Every step of a call and of the log keeps the invariant.                *)
LEMMA LogStep == LogInv /\ [Next]_vars => LogInv'
<1> SUFFICES ASSUME LogInv, [Next]_vars PROVE LogInv'
  OBVIOUS
<1> USE DEF LogInv, At, Go, NoCall, Steps, Kinds, consumers, entries, history
<1>1. ASSUME NEW c \in Callers, NEW l \in Kinds, SetLogLevel(c, l)
      PROVE  LogInv'
  <2>1. call' = [call EXCEPT ![c] = [step |-> "clear", level |-> l]]
    BY <1>1 DEF SetLogLevel
  <2>2. TypeOK'
    BY <1>1 DEF SetLogLevel, TypeOK
  <2>3. Between' /\ DoubledOnlyByOverlap'
    BY <1>1 DEF SetLogLevel, TypeOK, Between, DoubledOnlyByOverlap
  <2>4. Alone'
    BY <1>1 DEF SetLogLevel, TypeOK, Alone
  <2>5. LevelSet'
    BY <1>1 DEF SetLogLevel, TypeOK, LevelSet
  <2> QED
    BY <2>2, <2>3, <2>4, <2>5
<1>2. ASSUME NEW c \in Callers, ClearConsumers(c) PROVE LogInv'
  <2>1. TypeOK'
    BY <1>2 DEF ClearConsumers, TypeOK
  <2>2. Between' /\ Alone'
    BY <1>2 DEF ClearConsumers, TypeOK, Between, Alone
  <2>3. LevelSet' /\ DoubledOnlyByOverlap'
    BY <1>2 DEF ClearConsumers, TypeOK, LevelSet, DoubledOnlyByOverlap
  <2> QED
    BY <2>1, <2>2, <2>3
<1>3. ASSUME NEW c \in Callers, RegisterConsumer(c) PROVE LogInv'
  <2>1. TypeOK'
    BY <1>3 DEF RegisterConsumer, TypeOK
  <2>2. Between' /\ Alone'
    BY <1>3 DEF RegisterConsumer, TypeOK, Between, Alone
  <2>3. LevelSet' /\ DoubledOnlyByOverlap'
    BY <1>3 DEF RegisterConsumer, TypeOK, LevelSet, DoubledOnlyByOverlap
  <2> QED
    BY <2>1, <2>2, <2>3
<1>4. ASSUME NEW c \in Callers, SetVerbosity(c) PROVE LogInv'
  <2>1. TypeOK'
    BY <1>4 DEF SetVerbosity, TypeOK
  <2>2. Between' /\ Alone' /\ DoubledOnlyByOverlap'
    BY <1>4 DEF SetVerbosity, TypeOK, Between, Alone, DoubledOnlyByOverlap
  <2>3. LevelSet'
    BY <1>4 DEF SetVerbosity, TypeOK, LevelSet, Alone
  <2> QED
    BY <2>1, <2>2, <2>3
<1>5. ASSUME NEW k \in Kinds, LogEntry(k) PROVE LogInv'
  <2>1. TypeOK'
    BY <1>5 DEF LogEntry, TypeOK
  <2> QED
    BY <1>5, <2>1 DEF LogEntry, Between, Alone, LevelSet, DoubledOnlyByOverlap
<1>6. ASSUME Consume PROVE LogInv'
  <2>1. TypeOK'
    BY <1>6 DEF Consume, TypeOK
  <2>2. Between' /\ Alone' /\ LevelSet'
    BY <1>6 DEF Consume, Between, Alone, LevelSet
  <2>3. DoubledOnlyByOverlap'
    BY <1>6 DEF Consume, TypeOK, Alone, DoubledOnlyByOverlap
  <2> QED
    BY <2>1, <2>2, <2>3
<1>7. CASE UNCHANGED vars
  BY <1>7 DEF vars, TypeOK, Between, Alone, LevelSet, DoubledOnlyByOverlap
<1> QED
  BY <1>1, <1>2, <1>3, <1>4, <1>5, <1>6, <1>7 DEF Next
-----------------------------------------------------------------------------
(* The inductive invariant: what each step of setRTPSLoglevel has done, and*)
(* that some thread is about to register where there is no consumer.       *)
THEOREM LogInvariance == Spec => []LogInv
  BY LogInit, LogStep, PTL DEF Spec

(* The state of the log and of the calls of setRTPSLoglevel is well typed. *)
THEOREM LogTyped == Spec => []TypeOK
<1>1. LogInv => TypeOK
  BY DEF LogInv
<1> QED
  BY LogInvariance, <1>1, PTL

(* An entry is printed twice only after two calls of setRTPSLoglevel       *)
(* overlapped, in whichever order their steps fell.                        *)
THEOREM DoublingNeedsOverlap == Spec => []DoubledOnlyByOverlap
<1>1. LogInv => DoubledOnlyByOverlap
  BY DEF LogInv
<1> QED
  BY LogInvariance, <1>1, PTL

(* Called by one thread at a time, setRTPSLoglevel leaves one consumer and *)
(* the verbosity asked for last.                                           *)
THEOREM LevelTakesEffect == Spec => []LevelSet
<1>1. LogInv => LevelSet
  BY DEF LogInv
<1> QED
  BY LogInvariance, <1>1, PTL

(* No entry is lost but between ClearConsumers and RegisterConsumer of some*)
(* call of setRTPSLoglevel, however many calls overlap.                    *)
THEOREM LossNeedsGap == Spec => LostOnlyBetween
<1>1. LogInv /\ [Next]_vars =>
        [queue' # queue /\ Len(queue') < Len(queue) /\ lines' = 0 =>
           \E c \in Callers : At(c, "register")]_vars
  <2> SUFFICES ASSUME LogInv, Next, queue' # queue, Len(queue') < Len(queue),
                      lines' = 0
               PROVE  \E c \in Callers : At(c, "register")
    BY DEF vars
  <2>1. CASE Consume
    <3>1. custom = 0 /\ ~stdout
      BY <2>1 DEF Consume, LogInv, TypeOK
    <3> QED
      BY <3>1 DEF LogInv, Between
  <2>2. ASSUME NEW k \in Kinds, LogEntry(k) PROVE FALSE
    BY <2>2 DEF LogEntry, LogInv, TypeOK, Kinds
  <2>3. ASSUME NEW c \in Callers,
               \/ \E l \in Kinds : SetLogLevel(c, l)
               \/ ClearConsumers(c) \/ RegisterConsumer(c) \/ SetVerbosity(c)
        PROVE  FALSE
    BY <2>3 DEF SetLogLevel, ClearConsumers, RegisterConsumer, SetVerbosity,
                entries
  <2> QED
    BY <2>1, <2>2, <2>3 DEF Next
<1> QED
  BY LogInvariance, <1>1, PTL DEF Spec, LostOnlyBetween

=============================================================================

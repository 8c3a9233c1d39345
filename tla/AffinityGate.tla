----------------------------- MODULE AffinityGate -----------------------------
(***************************************************************************)
(* run_java_pinned.py and the JVM it launches.  The JVM's two workers wait *)
(* for a gate file.  The launcher finds their threads by name, pins them   *)
(* and everything else, looks again, opens the gate and audits the masks   *)
(* until the JVM ends.                                                     *)
(*                                                                         *)
(* A new thread has its parent's name and mask until it names itself, the  *)
(* names are read one by one while threads come and go, and either side    *)
(* may run out of time.  The JVM's other threads are Helpers.              *)
(*                                                                         *)
(* Behind the gate the workers run Phases phases, of which the last is     *)
(* measured.  Publishing and consuming are the library's: here the         *)
(* consumer is in its processor from when it is ready until main halts it. *)
(***************************************************************************)
EXTENDS Naturals, FiniteSets

CONSTANTS Helpers, ProducerCpu, ConsumerCpu, Housekeeping,
          Phases        \* totalPhases = config.warmupRuns + 1

Workers == {"main", "consumer"}
Threads == Workers \cup Helpers

ASSUME CpuAssumption ==
    /\ Workers \cap Helpers = {}
    /\ ProducerCpu # ConsumerCpu
    /\ Phases \in Nat \ {0}
    /\ Housekeeping # {} /\ {ProducerCpu, ConsumerCpu} \cap Housekeeping = {}

VARIABLES
    jvm,            \* "starting", "running", "exit 0", "exit 1", "killed"
    comm, mask,     \* per thread: its name, "none" when not alive; its CPUs
    at,             \* per worker: where its code is
    phaseNumber,    \* main's, which it has commanded or will next
    gate,           \* the gate file exists
    loop,           \* the launcher's loop: "discover", "settle", "audit"
    step,           \* the launcher's place in it, "returned" or "raised"
    names, todo,    \* names read in this turn; threads still to visit
    picked,         \* producer_tid and consumer_tid
    expired,        \* the launcher's deadline has passed
    interfered      \* somebody else has changed a worker's mask

jvmVars      == <<jvm, comm, mask, at, phaseNumber>>
launcherVars == <<loop, step, names, todo, picked>>
faultVars    == <<expired, interfered>>
gateVars     == <<jvmVars, gate, launcherVars, faultVars>>

Nobody == [t \in Threads |-> "none"]
Alive(t) == comm[t] # "none"
JvmEnded == jvm \in {"exit 0", "exit 1", "killed"}
Exact(w) == mask[w] = {IF w = "main" THEN ProducerCpu ELSE ConsumerCpu}

\* The launcher has moved itself to the housekeeping CPUs; the JVM inherits
\* them.
GateInit ==
    /\ jvm = "starting" /\ comm = Nobody
    /\ mask = [t \in Threads |-> Housekeeping]
    /\ at = [w \in Workers |-> "new"] /\ phaseNumber = 1
    /\ gate = FALSE
    /\ loop = "discover" /\ step = "look"
    /\ names = Nobody /\ todo = {}
    /\ picked = [producer |-> "none", consumer |-> "none"]
    /\ expired = FALSE /\ interfered = FALSE

------------------------------------------------------------------------------
(* The JVM.                                                                *)

Enter(w, place) == at' = [at EXCEPT ![w] = place]

End(status) ==
    /\ jvm' = status
    /\ comm' = Nobody
    /\ UNCHANGED <<mask, at, phaseNumber>>

JvmAppears ==
    /\ jvm = "starting"
    /\ jvm' = "running"
    /\ comm' = [comm EXCEPT !["main"] = "java"]
    /\ UNCHANGED <<mask, at, phaseNumber>>

JvmFailsToStart == jvm = "starting" /\ End("exit 1")

MainNamesItself ==
    /\ Alive("main") /\ at["main"] = "new"
    /\ comm' = [comm EXCEPT !["main"] = "lls-producer"]
    /\ Enter("main", "named")
    /\ UNCHANGED <<jvm, mask, phaseNumber>>

\* A thread starts with the name and the mask of the thread that creates it.
Create(parent, child) ==
    /\ Alive(parent) /\ ~Alive(child)
    /\ comm' = [comm EXCEPT ![child] = comm[parent]]
    /\ mask' = [mask EXCEPT ![child] = mask[parent]]
    /\ UNCHANGED <<jvm, phaseNumber>>

StartConsumer ==
    /\ at["main"] = "named"
    /\ Create("main", "consumer")
    /\ Enter("main", "gate")

ConsumerNamesItself ==
    /\ Alive("consumer") /\ at["consumer"] = "new"
    /\ comm' = [comm EXCEPT !["consumer"] = "lls-consumer"]
    /\ Enter("consumer", "gate")
    /\ UNCHANGED <<jvm, mask, phaseNumber>>

HelperStarts(parent, h) == Create(parent, h) /\ UNCHANGED at

HelperNamesItself(h) ==
    /\ comm[h] \notin {"none", "helper"}
    /\ comm' = [comm EXCEPT ![h] = "helper"]
    /\ UNCHANGED <<jvm, mask, at, phaseNumber>>

HelperEnds(h) ==
    /\ comm[h] = "helper"
    /\ comm' = [comm EXCEPT ![h] = "none"]
    /\ UNCHANGED <<jvm, mask, at, phaseNumber>>

Moves(w, from, to) ==
    /\ Alive(w) /\ at[w] = from
    /\ Enter(w, to)
    /\ UNCHANGED <<jvm, comm, mask, phaseNumber>>

\* awaitAffinityGate
PassGate == gate /\ \/ Moves("main", "gate", "checking")
                    \/ Moves("consumer", "gate", "idle")

\* commandedPhase is set once main has checked its mask; the consumer checks its
\* own in each phase, and main again when the consumer is ready, that is, has
\* started its processor.
MainChecks     == Exact("main") /\ Moves("main", "checking", "commanded")
TakePhase      == /\ at["main"] = "commanded"
                  /\ Moves("consumer", "idle", "checking")
ConsumerChecks == Exact("consumer") /\ Moves("consumer", "checking", "ready")
MainSeesReady  == /\ at["consumer"] \in {"ready", "broken"}
                  /\ Moves("main", "commanded", "rechecking")
MainRechecks   == Exact("main") /\ Moves("main", "rechecking", "measuring")

\* Main has seen the consumer at the last event of the phase.
Halt == Moves("main", "measuring", "halted")

\* run() returns, completedPhase is set, and the consumer waits for the next
\* phase; after the last one its thread ends.
ConsumerCompletes == /\ at["main"] = "halted"
                     /\ Moves("consumer", "ready", "idle")

ConsumerEnds ==
    /\ Alive("consumer") /\ at["consumer"] = "idle"
    /\ at["main"] = "halted" /\ phaseNumber = Phases
    /\ comm' = [comm EXCEPT !["consumer"] = "none"]
    /\ Enter("consumer", "done")
    /\ UNCHANGED <<jvm, mask, phaseNumber>>

\* The measurement is verified.  Another phase follows, or main joins the
\* consumer and is done.
Completed == at["main"] = "halted" /\ at["consumer"] \in {"idle", "done"}

NextPhase ==
    /\ Alive("main") /\ Completed /\ phaseNumber < Phases
    /\ Enter("main", "commanded")
    /\ phaseNumber' = phaseNumber + 1
    /\ UNCHANGED <<jvm, comm, mask>>

Complete ==
    /\ Alive("main") /\ Completed /\ at["consumer"] = "done"
    /\ End("exit 0")

\* Main throws on arguments it cannot use, when the gate or its mask is not there
\* in time, when /proc cannot be read, and when a phase fails its verification;
\* the consumer when the gate or its mask is not there and when its processor
\* throws.  Main ends the process; the consumer leaves its error for main.
MainMayThrow == \/ at["main"] \in {"new", "checking", "rechecking"}
                \/ at["main"] = "gate" /\ expired /\ ~gate
                \/ Completed

ConsumerMayThrow == \/ at["consumer"] \in {"checking", "ready"}
                    \/ at["consumer"] = "gate" /\ expired /\ ~gate

MainThrows == Alive("main") /\ MainMayThrow /\ End("exit 1")

\* Its error is found in the loop main is in: before main has seen it ready, or
\* after.
ConsumerThrows ==
    /\ Alive("consumer") /\ ConsumerMayThrow
    /\ comm' = [comm EXCEPT !["consumer"] = "none"]
    /\ Enter("consumer", IF at["consumer"] = "ready" THEN "broken" ELSE "failed")
    /\ UNCHANGED <<jvm, mask, phaseNumber>>

\* Mutant: main waits for the consumer without looking for its failure.
NeverRethrown == FALSE /\ End("exit 1")

\* rethrowConsumerFailure, in the loops that wait for readyPhase and for
\* completedPhase.
RethrowConsumerFailure ==
    /\ Alive("main")
    /\ \/ at["main"] = "commanded" /\ at["consumer"] = "failed"
       \/ at["main"] = "halted" /\ at["consumer"] = "broken"
    /\ End("exit 1")

\* While it publishes and waits for the last event main may see the failure: the
\* claims of policy try-next look for it, those of blocking-next wait in the
\* library for room that a dead consumer never makes.
RethrowWhileMeasuring ==
    /\ Alive("main") /\ at["main"] = "measuring" /\ at["consumer"] = "broken"
    /\ End("exit 1")

WorkerStep ==
    \/ JvmAppears \/ MainNamesItself \/ StartConsumer \/ ConsumerNamesItself
    \/ PassGate \/ MainChecks \/ TakePhase \/ ConsumerChecks \/ MainSeesReady
    \/ MainRechecks \/ ConsumerCompletes \/ ConsumerEnds \/ NextPhase
    \/ Complete \/ RethrowConsumerFailure

JvmFault == JvmFailsToStart \/ MainThrows \/ ConsumerThrows

Jvm ==
    /\ \/ WorkerStep \/ Halt \/ RethrowWhileMeasuring \/ JvmFault
       \/ \E h \in Helpers :
            \/ HelperNamesItself(h) \/ HelperEnds(h)
            \/ \E parent \in Threads : HelperStarts(parent, h)
    /\ UNCHANGED <<gate, launcherVars, faultVars>>

------------------------------------------------------------------------------
(* The launcher.                                                           *)

InLoop(l, s) == loop = l /\ step = s
Go(l, s) == loop' = l /\ step' = s

\* The head of each loop: out of time, the JVM has ended, or another turn over
\* the threads that /proc lists.
RunOutOfTime ==
    /\ step = "look" /\ loop # "audit" /\ expired
    /\ Go(loop, "raise")
    /\ UNCHANGED <<gate, mask, names, todo, picked>>

ReturnStatus ==
    /\ step = "look" /\ (loop = "audit" \/ ~expired)
    /\ JvmEnded
    /\ Go(loop, "returned")
    /\ UNCHANGED <<gate, mask, names, todo, picked>>

Look ==
    /\ step = "look" /\ (loop = "audit" \/ ~expired)
    /\ jvm = "running"
    /\ todo' = {t \in Threads : Alive(t)}
    /\ names' = Nobody
    /\ Go(loop, IF loop = "audit" THEN "visit" ELSE "names")
    /\ UNCHANGED <<gate, mask, picked>>

\* read_thread_names, one comm file; a thread that has ended is skipped.
ReadName(t) ==
    /\ step = "names" /\ t \in todo
    /\ names' = [names EXCEPT ![t] = comm[t]]
    /\ todo' = todo \ {t}
    /\ UNCHANGED <<gate, mask, loop, step, picked>>

Seen == {t \in Threads : names[t] # "none"}

\* Mutant: any thread of the name will do.
SomeoneNamed(p, c) ==
    /\ names[p] = "lls-producer" /\ names[c] = "lls-consumer"
    /\ Alive(p) /\ Alive(c)

\* p and c are the only threads of their names, and still there.
SoleWorkers(p, c) ==
    /\ {t \in Threads : names[t] = "lls-producer"} = {p}
    /\ {t \in Threads : names[t] = "lls-consumer"} = {c}
    /\ Alive(p) /\ Alive(c)

Select ==
    /\ InLoop("discover", "names") /\ todo = {}
    /\ \/ \E p, c \in Threads :
            /\ SoleWorkers(p, c)
            /\ picked' = [producer |-> p, consumer |-> c]
          /\ todo' = Seen
          /\ Go("discover", "visit")
       \/ /\ ~\E p, c \in Threads : SoleWorkers(p, c)
          /\ Go("discover", "look")
          /\ UNCHANGED <<todo, picked>>
    /\ UNCHANGED <<gate, mask, names>>

VisitAgain ==
    /\ InLoop("settle", "names") /\ todo = {}
    /\ todo' = Seen
    /\ Go("settle", "visit")
    /\ UNCHANGED <<gate, mask, names, picked>>

\* The CPUs a thread belongs on; only the picked threads are workers.
Place(t) == IF t = picked.producer THEN {ProducerCpu}
            ELSE IF t = picked.consumer THEN {ConsumerCpu}
            ELSE Housekeeping

PinIfAlive(t) ==
    mask' = IF Alive(t) THEN [mask EXCEPT ![t] = Place(t)] ELSE mask

PinThread(t) ==
    /\ loop # "audit" /\ step = "visit" /\ t \in todo
    /\ PinIfAlive(t)
    /\ todo' = todo \ {t}
    /\ UNCHANGED <<gate, loop, step, names, picked>>

InPlace(t) == Alive(t) /\ mask[t] = Place(t)

Verified == InPlace(picked.producer) /\ InPlace(picked.consumer)

Verify ==
    /\ InLoop("discover", "visit") /\ todo = {}
    /\ IF Verified THEN Go("settle", "look") ELSE Go("discover", "raise")
    /\ UNCHANGED <<gate, mask, names, todo, picked>>

\* Are the same two threads still the only ones of their names?
Recheck ==
    /\ InLoop("settle", "visit") /\ todo = {}
    /\ Go("settle", IF SoleWorkers(picked.producer, picked.consumer)
                      THEN "confirm" ELSE "look")
    /\ UNCHANGED <<gate, mask, names, todo, picked>>

Confirm ==
    /\ InLoop("settle", "confirm")
    /\ Go("settle", IF Verified THEN "open" ELSE "raise")
    /\ UNCHANGED <<gate, mask, names, todo, picked>>

OpenGate ==
    /\ InLoop("settle", "open")
    /\ gate' = TRUE
    /\ Go("audit", "look")
    /\ UNCHANGED <<mask, names, todo, picked>>

\* Mutant: only the workers are looked at during the run.
AuditWorkersOnly(t) ==
    /\ InLoop("audit", "visit") /\ t \in todo
    /\ todo' = todo \ {t}
    /\ Go("audit", IF t \in {picked.producer, picked.consumer} /\ Alive(t)
                         /\ ~InPlace(t)
                     THEN "raise" ELSE "visit")
    /\ UNCHANGED <<gate, mask, names, picked>>

\* A worker's mask is only read, a helper is moved.
Audit(t) ==
    /\ InLoop("audit", "visit") /\ t \in todo
    /\ todo' = todo \ {t}
    /\ IF t \in {picked.producer, picked.consumer}
         THEN /\ Go("audit", IF Alive(t) /\ ~InPlace(t)
                               THEN "raise" ELSE "visit")
              /\ UNCHANGED mask
         ELSE PinIfAlive(t) /\ UNCHANGED <<loop, step>>
    /\ UNCHANGED <<gate, names, picked>>

NextAudit ==
    /\ InLoop("audit", "visit") /\ todo = {}
    /\ Go("audit", "look")
    /\ UNCHANGED <<gate, mask, names, todo, picked>>

\* terminate_and_reap signals the process, then waits for its end.
Terminate ==
    /\ step = "raise"
    /\ Go(loop, "reaping")
    /\ UNCHANGED <<gate, mask, names, todo, picked>>

Reap ==
    /\ step = "reaping" /\ JvmEnded
    /\ Go(loop, "raised")
    /\ UNCHANGED <<gate, mask, names, todo, picked>>

Launcher ==
    /\ \/ RunOutOfTime \/ ReturnStatus \/ Look \/ Select \/ VisitAgain
       \/ Verify \/ Recheck \/ Confirm \/ OpenGate \/ NextAudit
       \/ Terminate \/ Reap
       \/ \E t \in Threads : ReadName(t) \/ PinThread(t) \/ Audit(t)
    /\ UNCHANGED <<jvm, comm, at, phaseNumber, faultVars>>

\* SIGTERM, or SIGKILL ten seconds later.
Killed ==
    /\ step = "reaping" /\ ~JvmEnded
    /\ End("killed")
    /\ UNCHANGED <<gate, launcherVars, faultVars>>

DeadlinePasses ==
    /\ ~expired /\ expired' = TRUE
    /\ UNCHANGED <<jvmVars, gate, launcherVars, interfered>>

\* Somebody sets another mask, once.
Interfere(w) ==
    /\ ~interfered /\ interfered' = TRUE
    /\ Alive(w)
    /\ mask' = [mask EXCEPT ![w] = Housekeeping]
    /\ UNCHANGED <<jvm, comm, at, phaseNumber, gate, launcherVars, expired>>

LauncherEnded == step \in {"returned", "raised"}

BothEnded == LauncherEnded /\ JvmEnded /\ UNCHANGED gateVars

GateNext ==
    \/ Jvm \/ Launcher \/ Killed \/ DeadlinePasses
    \/ \E w \in Workers : Interfere(w)
    \/ BothEnded

\* Both processes and the workers run on, time passes, and signals arrive.  A
\* phase may last for ever: main need not come to halt the processor, nor see
\* inside it that the consumer has failed.
GateSpec ==
    /\ GateInit /\ [][GateNext]_gateVars
    /\ WF_gateVars(Launcher) /\ WF_gateVars(Killed)
    /\ WF_gateVars(DeadlinePasses)
    /\ WF_gateVars(WorkerStep /\ UNCHANGED <<gate, launcherVars, faultVars>>)

------------------------------------------------------------------------------
\* When the gate is open the threads that run the producer's and the consumer's
\* code have exactly their CPU, and keep it: neither a newborn thread with an
\* inherited name nor the audit itself puts them elsewhere (run_java_pinned.py
\* and README: "pins each Java worker TID individually").
WorkersArePinned ==
    gate /\ jvm = "running" /\ ~interfered =>
        \A w \in Workers : Alive(w) => Exact(w)

Measuring == jvm = "running" /\ at["main"] = "measuring"

\* The launcher ends after the JVM: whatever is raised, the process has been
\* terminated and reaped (terminate_and_reap), so no sample runs beside the next.
NoJvmLeftBehind == LauncherEnded => JvmEnded

\* Unless a phase goes on for ever, launcher and JVM end, whoever runs out of
\* time first, whichever worker fails and in whichever phase, although the audit
\* loop has no deadline of its own; and the launcher leaves no JVM behind.
LauncherTerminates == []NoJvmLeftBehind /\ (<>[]Measuring \/ <>LauncherEnded)

\* A helper that is born on a hot CPU during the run is moved away from it, or
\* its life or the run is over first.
HelpersLeaveTheHotCpus ==
    \A h \in Helpers :
        (gate /\ Alive(h) /\ mask[h] # Housekeeping)
            ~> (~Alive(h) \/ mask[h] = Housekeeping \/ LauncherEnded)
==============================================================================

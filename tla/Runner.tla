------------------------------- MODULE Runner -------------------------------
(***************************************************************************)
(* scripts/dev.mjs: one process that starts the mail catcher, the API and  *)
(* the web server in turn, waits for each, and stops them all when one of  *)
(* them exits or the developer interrupts it.                              *)
(*                                                                         *)
(* The code between two awaits of main() is one action; pc is the await    *)
(* main() is at.  A signal, an exit of a child or the end of an await come *)
(* in any order.  Time is not modelled: a timeout may come at any moment.  *)
(***************************************************************************)
EXTENDS FiniteSets

CONSTANT Options    \* bound: the sets of options it is started with

AllOptions == {"mail", "api", "web", "migrate", "seed"}
ASSUME OptionsAssumption == Options \subseteq SUBSET AllOptions

Services == {"mail", "api", "web"}      \* start(): kept in children
Commands == {"npm", "db", "build"}      \* run(): not kept
Processes == Services \union Commands

VARIABLES
    flags,      \* what it was asked to run
    pc,         \* the await main() is at; "up" after the banner, "end" after a return
    proc,       \* each process: not started, running, ended or never spawned
    told,       \* the running processes that got a signal
    children,   \* the map of started services
    shutdown,   \* "no", the graceful wait, the flush of the logs, "gone"
    code,       \* the exit code
    first,      \* history: what came first, the developer's signal or a failure
    late        \* the processes started after the others were killed

vars == <<flags, pc, proc, told, children, shutdown, code, first, late>>

Init ==
    /\ flags \in Options
    /\ pc = "preflight"
    /\ proc = [p \in Processes |-> "none"]
    /\ told = {} /\ children = {} /\ late = {}
    /\ shutdown = "no" /\ code = 0 /\ first = "nothing"

Running(P) == {p \in P : proc[p] = "running"}
shuttingDown == shutdown # "no"
alive == shutdown # "gone"

-----------------------------------------------------------------------------
(* A failure is what the runner calls shutdown(1) for, or dies of; what main() *)
(* only logs or warns about (no mail catcher, a program that cannot be         *)
(* spawned, an API or a web server that is not ready in time) is none.         *)
Comes(what) == first' = IF first = "nothing" THEN what ELSE first

(* shutdown(1): kills at once and flushes; a second call does nothing. *)
ShutdownNow ==
    /\ Comes("failure")
    /\ IF shuttingDown THEN UNCHANGED <<shutdown, code, told>>
       ELSE /\ shutdown' = "flush"
            /\ code' = 1
            /\ told' = told \union Running(children)

(* return shutdown(1) *)
GiveUp ==
    /\ pc' = "end"
    /\ ShutdownNow
    /\ UNCHANGED <<children, late>>

Started(p, become) ==
    /\ proc' = [become EXCEPT ![p] = "running"]
    /\ told' = told \ {p}
    /\ late' = IF shutdown = "flush" THEN late \union {p} ELSE late

(* A program that cannot be spawned never exits: it stays in children. *)
start(p, next, become) ==
    /\ \/ Started(p, become)
       \/ proc' = [become EXCEPT ![p] = "failed"] /\ UNCHANGED <<told, late>>
    /\ children' = children \union {p}
    /\ pc' = next
    /\ UNCHANGED <<shutdown, code, first>>

run(p, next, become) ==
    /\ Started(p, become)
    /\ pc' = next
    /\ UNCHANGED <<children, shutdown, code, first>>

Goto(next, become) ==
    /\ pc' = next
    /\ proc' = become
    /\ UNCHANGED <<told, children, shutdown, code, first, late>>

(* What main() does from one step to the next await.  become is the state of *)
(* the processes when the step is reached.                                   *)
EnterUp(become) == Goto(IF shuttingDown THEN "end" ELSE "up", become)

EnterWeb(become) ==
    IF "web" \in flags /\ ~shuttingDown THEN start("web", "webWait", become)
    ELSE EnterUp(become)

EnterApi(become) ==
    IF "api" \in flags /\ ~shuttingDown THEN run("build", "building", become)
    ELSE EnterWeb(become)

EnterSeed(become) ==
    IF "seed" \in flags /\ ~shuttingDown THEN run("db", "seeding", become)
    ELSE EnterApi(become)

EnterMigrate(become) ==
    IF "migrate" \in flags /\ ~shuttingDown THEN run("db", "migrating", become)
    ELSE EnterSeed(become)

EnterMail(become) ==
    IF "mail" \in flags THEN Goto("mailPort", become) ELSE EnterMigrate(become)

EnterNpm ==
    IF shuttingDown THEN Goto("end", proc)
    ELSE \/ EnterMail(proc)
         \/ "web" \in flags /\ run("npm", "installing", proc)

EnterWebPort == IF "web" \in flags THEN Goto("webPort", proc) ELSE EnterNpm
EnterApiPort == IF "api" \in flags THEN Goto("apiPort", proc) ELSE EnterWebPort

-----------------------------------------------------------------------------
(* The awaits of main(), in its order. *)

(* Go, backend/.env, DATABASE_URL and a local database. *)
Preflight ==
    /\ pc = "preflight"
    /\ \/ EnterApiPort
       \/ /\ flags \intersect {"api", "migrate", "seed"} # {}
          /\ GiveUp
          /\ UNCHANGED proc

(* A port in use ends the run.  When a shutdown has already begun the call   *)
(* returns, and main() goes on until it looks at shuttingDown.               *)
requireFreePort ==
    /\ pc \in {"apiPort", "webPort"}
    /\ pc' = IF pc = "apiPort" /\ "web" \in flags /\ shuttingDown
             THEN "webPort" ELSE "end"
    /\ ShutdownNow
    /\ UNCHANGED <<proc, children, late>>

PortIsFree ==
    \/ pc = "apiPort" /\ EnterWebPort
    \/ pc = "webPort" /\ EnterNpm

(* Another mail catcher has the port, or none is installed, or it is started. *)
Mail ==
    /\ pc = "mailPort"
    /\ EnterMigrate(proc) \/ start("mail", "mailWait", proc)

(* Mutant: the wait for the mail port has no timeout. *)
MailWaitForever ==
    /\ pc = "mailWait"
    /\ proc["mail"] = "running" \/ shuttingDown
    /\ EnterMigrate(proc)

MailWait ==
    /\ pc = "mailWait"
    /\ \/ proc["mail"] = "running" /\ EnterMigrate(proc)
       \/ shuttingDown /\ EnterMigrate(proc)
       \/ ~shuttingDown /\ GiveUp /\ UNCHANGED proc

(* The end of a one-off command: main() goes on in the same tick. *)
CommandEnds(p, step) ==
    /\ pc = step /\ proc[p] = "running"
    /\ LET ended == [proc EXCEPT ![p] = "ended"]
       IN  \/ CASE step = "installing" -> EnterMail(ended)
                [] step = "migrating"  -> EnterSeed(ended)
                [] step = "seeding"    -> EnterApi(ended)
                [] step = "building"   -> start("api", "apiWait", ended)
           \/ GiveUp /\ proc' = ended

Commanded ==
    \/ CommandEnds("npm", "installing")
    \/ CommandEnds("db", "migrating") \/ CommandEnds("db", "seeding")
    \/ CommandEnds("build", "building")

ApiWait ==
    /\ pc = "apiWait"
    /\ IF shuttingDown THEN Goto("end", proc) ELSE EnterWeb(proc)

WebWait == pc = "webWait" /\ EnterUp(proc)

Main ==
    /\ alive
    /\ \/ Preflight \/ requireFreePort \/ PortIsFree \/ Mail \/ MailWait \/ Commanded
       \/ ApiWait \/ WebWait
    /\ UNCHANGED flags

-----------------------------------------------------------------------------
(* Mutant: a service that exits stays in the map. *)
ServiceExitsKept(p) ==
    /\ proc[p] = "running"
    /\ proc' = [proc EXCEPT ![p] = "ended"]
    /\ IF alive /\ ~shuttingDown
       THEN /\ Comes("failure")
            /\ shutdown' = "flush"
            /\ code' = 1
            /\ told' = told \union Running(children \ {p})
       ELSE UNCHANGED <<shutdown, code, told, first>>
    /\ UNCHANGED <<flags, pc, children, late>>

(* A service that exits before the shutdown brings the others down. *)
ServiceExits(p) ==
    /\ proc[p] = "running"
    /\ proc' = [proc EXCEPT ![p] = "ended"]
    /\ IF alive
       THEN /\ children' = children \ {p}
            /\ Comes("failure")
            /\ IF shuttingDown THEN UNCHANGED <<shutdown, code, told>>
               ELSE /\ shutdown' = "flush"
                    /\ code' = 1
                    /\ told' = told \union Running(children \ {p})
       ELSE UNCHANGED <<children, shutdown, code, told, first>>
    /\ UNCHANGED <<flags, pc, late>>

(* What the runner left running may still end. *)
CommandOutlives(p) ==
    /\ ~alive /\ proc[p] = "running"
    /\ proc' = [proc EXCEPT ![p] = "ended"]
    /\ UNCHANGED <<flags, pc, told, children, shutdown, code, first, late>>

(* Mutant: a signal makes the end clean even when a failure began it. *)
InterruptForgives(reached) ==
    /\ alive
    /\ Comes("signal")
    /\ told' = told \union reached
    /\ IF shuttingDown THEN UNCHANGED shutdown
       ELSE shutdown' = IF children = {} THEN "flush" ELSE "grace"
    /\ code' = 0
    /\ UNCHANGED <<flags, pc, proc, children, late>>

(* SIGTERM reaches the runner alone; Ctrl+C every process of the terminal. *)
Interrupt(reached) ==
    /\ alive
    /\ Comes("signal")
    /\ told' = told \union reached
    /\ IF shuttingDown THEN UNCHANGED <<shutdown, code>>
       ELSE /\ shutdown' = IF children = {} THEN "flush" ELSE "grace"
            /\ code' = 0
    /\ UNCHANGED <<flags, pc, proc, children, late>>

SigTerm == Interrupt({})
CtrlC == Interrupt(Running(Processes))

(* Mutant: the end of the grace period kills nobody. *)
GraceEndsKindly ==
    /\ shutdown = "grace"
    /\ shutdown' = "flush"
    /\ UNCHANGED <<flags, pc, proc, told, children, code, first, late>>

(* Mutant: the grace period has no deadline. *)
GraceUntilGone ==
    /\ shutdown = "grace" /\ Running(children) = {}
    /\ shutdown' = "flush"
    /\ UNCHANGED <<flags, pc, proc, told, children, code, first, late>>

(* Every child is gone, or four seconds are over: kill what is left. *)
GraceEnds ==
    /\ shutdown = "grace"
    /\ shutdown' = "flush"
    /\ told' = told \union Running(children)
    /\ UNCHANGED <<flags, pc, proc, children, code, first, late>>

(* The logs are written; or a line comes after the end of their stream, an   *)
(* error event nobody listens to.                                            *)
Exit ==
    /\ shutdown = "flush"
    /\ shutdown' = "gone"
    /\ \/ UNCHANGED code
       \/ code' = 1 /\ (Running(Processes) # {} \/ pc # "end")
    /\ UNCHANGED <<flags, pc, proc, told, children, first, late>>

(* npm ci has no listener for a failed spawn: the error ends the runner. *)
NpmMissing ==
    /\ alive /\ pc = "installing" /\ proc["npm"] = "running"
    /\ proc' = [proc EXCEPT !["npm"] = "failed"]
    /\ Comes("failure")
    /\ shutdown' = "gone" /\ code' = 1
    /\ UNCHANGED <<flags, pc, told, children, late>>

Next ==
    \/ Main
    \/ \E p \in Services : ServiceExits(p)
    \/ \E p \in Commands : CommandOutlives(p)
    \/ SigTerm \/ CtrlC \/ GraceEnds \/ Exit \/ NpmMissing

(* The event loop: awaits end, since each has a timeout or a process that    *)
(* ends; the grace period and the flush end.                                 *)
Fairness == WF_vars(Main) /\ WF_vars(GraceEnds) /\ WF_vars(Exit)

Spec == Init /\ [][Next]_vars /\ Fairness
=============================================================================

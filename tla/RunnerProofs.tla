---------------------------- MODULE RunnerProofs ----------------------------
(***************************************************************************)
(* What the development runner leaves behind, for every set of options.    *)
(*                                                                         *)
(* Safe is inductive.  While the runner is alive every running service is  *)
(* in its map, so the kill loop reaches it; from the flush on, a running   *)
(* service was reached or started late; nothing is in the map while npm is *)
(* being installed, when the runner may end without a kill loop; and the   *)
(* first failure or signal is what begins the shutdown and sets the code.  *)
(***************************************************************************)
EXTENDS MCRunner, TLAPS

States == {"none", "running", "ended", "failed"}
BeforeServices == {"preflight", "apiPort", "webPort", "installing"}

ServicesAreKept == alive => Running(Services) \subseteq children
NothingToKillYet == pc \in BeforeServices => children = {}
KilledOrLate == shutdown \in {"flush", "gone"} => Running(Services) \subseteq told \union late
CleanWasAsked ==
    /\ ~shuttingDown => first = "nothing"
    /\ shuttingDown /\ code = 0 => first = "signal"

Safe ==
    /\ TypeOK /\ ServicesAreKept /\ NothingToKillYet
    /\ KilledOrLate /\ CleanWasAsked

(* What main() knows of the processes when it reaches its next step: a       *)
(* command has ended and nothing else has changed.                           *)
Ended(become) ==
    /\ become \in [Processes -> States]
    /\ \A p \in Services : become[p] = proc[p]

USE DEF Processes, Services, Commands, States, alive, shuttingDown, Comes

-----------------------------------------------------------------------------
(* The steps that the awaits of main() are built from. *)

(* A failed step kills every service, or leaves the shutdown to go on. *)
LEMMA GiveUpSafe ==
    ASSUME Safe, alive, UNCHANGED flags, ShutdownNow,
           pc' \in Steps, pc' \notin BeforeServices \/ pc \in BeforeServices,
           UNCHANGED <<children, late>>,
           Ended(proc')
    PROVE  Safe'
<1>1. TypeOK'
  BY DEF Safe, TypeOK, ShutdownNow, Ended, Running, BeforeServices, Steps
<1>2. ServicesAreKept'
  BY DEF Safe, TypeOK, ServicesAreKept, ShutdownNow, Ended, Running
<1>3. NothingToKillYet'
  BY DEF Safe, NothingToKillYet, ShutdownNow, BeforeServices
<1>4. KilledOrLate'
  BY DEF Safe, TypeOK, ServicesAreKept, KilledOrLate, ShutdownNow, Ended, Running
<1>5. CleanWasAsked'
  BY DEF Safe, TypeOK, CleanWasAsked, ShutdownNow
<1> QED BY <1>1, <1>2, <1>3, <1>4, <1>5 DEF Safe

LEMMA StartSafe ==
    ASSUME NEW p \in Services, NEW next \in Steps \ BeforeServices, NEW become,
           Safe, alive, UNCHANGED flags, Ended(become), start(p, next, become)
    PROVE  Safe'
<1>1. TypeOK'
  <2>1. proc' \in [Processes -> States] /\ proc'[p] \in {"running", "failed"}
        /\ \A q \in Services \ {p} : proc'[q] = proc[q]
    BY DEF start, Started, Ended
  <2>2. children' \subseteq {q \in Services : proc'[q] \in {"running", "failed"}}
    BY <2>1 DEF Safe, TypeOK, start
  <2>3. told' \subseteq Processes /\ late' \subseteq Processes
    BY DEF Safe, TypeOK, start, Started
  <2> QED BY <2>1, <2>2, <2>3 DEF Safe, TypeOK, start, Started
<1>2. ServicesAreKept'
  BY DEF Safe, TypeOK, ServicesAreKept, start, Started, Ended, Running
<1>3. NothingToKillYet'
  BY DEF Safe, NothingToKillYet, start, Started, BeforeServices
<1>4. KilledOrLate'
  BY DEF Safe, TypeOK, ServicesAreKept, KilledOrLate, start, Started, Ended, Running
<1>5. CleanWasAsked'
  BY DEF Safe, TypeOK, CleanWasAsked, start, Started
<1> QED BY <1>1, <1>2, <1>3, <1>4, <1>5 DEF Safe

LEMMA RunSafe ==
    ASSUME NEW p \in Commands, NEW next \in Steps, NEW become,
           next \in BeforeServices => pc \in BeforeServices,
           Safe, alive, UNCHANGED flags, Ended(become), run(p, next, become)
    PROVE  Safe'
<1>1. TypeOK'
  BY DEF Safe, TypeOK, run, Started, Ended, Running, BeforeServices, Steps
<1>2. ServicesAreKept'
  BY DEF Safe, TypeOK, ServicesAreKept, run, Started, Ended, Running
<1>3. NothingToKillYet'
  BY DEF Safe, NothingToKillYet, run, Started, BeforeServices
<1>4. KilledOrLate'
  BY DEF Safe, TypeOK, ServicesAreKept, KilledOrLate, run, Started, Ended, Running
<1>5. CleanWasAsked'
  BY DEF Safe, TypeOK, CleanWasAsked, run, Started
<1> QED BY <1>1, <1>2, <1>3, <1>4, <1>5 DEF Safe

LEMMA GotoSafe ==
    ASSUME NEW next \in Steps, NEW become,
           next \in BeforeServices => pc \in BeforeServices,
           Safe, alive, UNCHANGED flags, Ended(become), Goto(next, become)
    PROVE  Safe'
<1>1. TypeOK'
  BY DEF Safe, TypeOK, Goto, Ended, Running, BeforeServices, Steps
<1>2. ServicesAreKept'
  BY DEF Safe, TypeOK, ServicesAreKept, Goto, Ended, Running
<1>3. NothingToKillYet'
  BY DEF Safe, NothingToKillYet, Goto, BeforeServices
<1>4. KilledOrLate'
  BY DEF Safe, TypeOK, ServicesAreKept, KilledOrLate, Goto, Ended, Running
<1>5. CleanWasAsked'
  BY DEF Safe, TypeOK, CleanWasAsked, Goto
<1> QED BY <1>1, <1>2, <1>3, <1>4, <1>5 DEF Safe

-----------------------------------------------------------------------------
(* What main() goes through before its next await, from its last step back. *)

LEMMA EnterWebSafe ==
    ASSUME NEW become, Safe, alive, UNCHANGED flags, Ended(become), EnterWeb(become)
    PROVE  Safe'
<1>1. CASE start("web", "webWait", become)
  BY <1>1, StartSafe DEF Steps, BeforeServices
<1>2. CASE EnterUp(become)
  BY <1>2, GotoSafe DEF EnterUp, Steps, BeforeServices
<1> QED BY <1>1, <1>2 DEF EnterWeb

LEMMA EnterApiSafe ==
    ASSUME NEW become, Safe, alive, UNCHANGED flags, Ended(become), EnterApi(become)
    PROVE  Safe'
<1>1. CASE run("build", "building", become)
  BY <1>1, RunSafe DEF Steps, BeforeServices
<1> QED BY <1>1, EnterWebSafe DEF EnterApi

LEMMA EnterSeedSafe ==
    ASSUME NEW become, Safe, alive, UNCHANGED flags, Ended(become), EnterSeed(become)
    PROVE  Safe'
<1>1. CASE run("db", "seeding", become)
  BY <1>1, RunSafe DEF Steps, BeforeServices
<1> QED BY <1>1, EnterApiSafe DEF EnterSeed

LEMMA EnterMigrateSafe ==
    ASSUME NEW become, Safe, alive, UNCHANGED flags, Ended(become), EnterMigrate(become)
    PROVE  Safe'
<1>1. CASE run("db", "migrating", become)
  BY <1>1, RunSafe DEF Steps, BeforeServices
<1> QED BY <1>1, EnterSeedSafe DEF EnterMigrate

LEMMA EnterMailSafe ==
    ASSUME NEW become, Safe, alive, UNCHANGED flags, Ended(become), EnterMail(become)
    PROVE  Safe'
<1>1. CASE Goto("mailPort", become)
  BY <1>1, GotoSafe DEF Steps, BeforeServices
<1> QED BY <1>1, EnterMigrateSafe DEF EnterMail

LEMMA EnterNpmSafe ==
    ASSUME Safe, alive, UNCHANGED flags, pc \in BeforeServices, EnterNpm
    PROVE  Safe'
<1>1. Ended(proc)
  BY DEF Ended, Safe, TypeOK
<1>2. CASE Goto("end", proc)
  BY <1>1, <1>2, GotoSafe DEF Steps
<1>3. CASE run("npm", "installing", proc)
  BY <1>1, <1>3, RunSafe DEF Steps
<1> QED BY <1>1, <1>2, <1>3, EnterMailSafe DEF EnterNpm

LEMMA EnterPortsSafe ==
    ASSUME Safe, alive, UNCHANGED flags, pc \in BeforeServices,
           EnterApiPort \/ EnterWebPort
    PROVE  Safe'
<1>1. Ended(proc)
  BY DEF Ended, Safe, TypeOK
<1>2. CASE Goto("apiPort", proc)
  BY <1>1, <1>2, GotoSafe DEF Steps
<1>3. CASE Goto("webPort", proc)
  BY <1>1, <1>3, GotoSafe DEF Steps
<1> QED BY <1>2, <1>3, EnterNpmSafe DEF EnterApiPort, EnterWebPort

-----------------------------------------------------------------------------
(* Every action keeps Safe. *)

LEMMA CommandEndsSafe ==
    ASSUME NEW p \in Commands, NEW step, Safe, alive, UNCHANGED flags,
           CommandEnds(p, step),
           step = "installing" => p = "npm",
           step \in {"installing", "migrating", "seeding", "building"}
    PROVE  Safe'
<1> DEFINE ended == [proc EXCEPT ![p] = "ended"]
<1>1. Ended(ended)
  BY DEF Ended, Safe, TypeOK
<1>2. CASE GiveUp /\ proc' = ended
  <2>1. Ended(proc')
    BY <1>1, <1>2
  <2> QED BY <1>2, <2>1, GiveUpSafe DEF GiveUp, Steps, BeforeServices
<1>3. CASE step = "installing" /\ EnterMail(ended)
  BY <1>1, <1>3, EnterMailSafe
<1>4. CASE step = "migrating" /\ EnterSeed(ended)
  BY <1>1, <1>4, EnterSeedSafe
<1>5. CASE step = "seeding" /\ EnterApi(ended)
  BY <1>1, <1>5, EnterApiSafe
<1>6. CASE step = "building" /\ start("api", "apiWait", ended)
  BY <1>1, <1>6, StartSafe DEF Steps, BeforeServices
<1> QED BY <1>2, <1>3, <1>4, <1>5, <1>6 DEF CommandEnds

LEMMA MainSafe == ASSUME Safe, Main PROVE Safe'
<1> USE DEF Main
<1>1. Ended(proc)
  BY DEF Ended, Safe, TypeOK
<1>2. ASSUME GiveUp, UNCHANGED proc PROVE Safe'
  <2>1. Ended(proc')
    BY <1>1, <1>2
  <2> QED BY <1>2, <2>1, GiveUpSafe DEF GiveUp, Steps, BeforeServices
<1>3. CASE Preflight
  BY <1>2, <1>3, EnterPortsSafe DEF Preflight, BeforeServices
<1>4. CASE requireFreePort
  <2>1. Ended(proc')
    BY <1>1, <1>4 DEF requireFreePort
  <2> QED BY <1>4, <2>1, GiveUpSafe DEF requireFreePort, Steps, BeforeServices
<1>5. CASE PortIsFree
  BY <1>5, EnterPortsSafe, EnterNpmSafe DEF PortIsFree, BeforeServices
<1>6. CASE Mail
  <2>1. CASE start("mail", "mailWait", proc)
    BY <1>1, <2>1, StartSafe DEF Steps, BeforeServices
  <2> QED BY <1>1, <1>6, <2>1, EnterMigrateSafe DEF Mail
<1>7. CASE MailWait
  BY <1>1, <1>2, <1>7, EnterMigrateSafe DEF MailWait
<1>8. CASE Commanded
  BY <1>8, CommandEndsSafe DEF Commanded
<1>9. CASE ApiWait
  <2>1. CASE Goto("end", proc)
    BY <1>1, <2>1, GotoSafe DEF Steps, BeforeServices
  <2> QED BY <1>1, <1>9, <2>1, EnterWebSafe DEF ApiWait
<1>10. CASE WebWait
  <2>1. EnterUp(proc)
    BY <1>10 DEF WebWait
  <2> QED BY <1>1, <2>1, GotoSafe DEF EnterUp, Steps, BeforeServices
<1> QED BY <1>3, <1>4, <1>5, <1>6, <1>7, <1>8, <1>9, <1>10

LEMMA ServiceExitsSafe ==
    ASSUME NEW p \in Services, Safe, ServiceExits(p)
    PROVE  Safe'
<1>1. /\ proc' \in [Processes -> States] /\ proc'[p] = "ended"
      /\ \A q \in Processes \ {p} : proc'[q] = proc[q]
  BY DEF Safe, TypeOK, ServiceExits
<1>2. TypeOK'
  <2>1. CASE alive
    <3>1. children' \subseteq {q \in Services : proc'[q] \in {"running", "failed"}}
      <4>1. children \subseteq {q \in Services : proc[q] \in {"running", "failed"}}
        BY <2>1 DEF Safe, TypeOK
      <4>2. children' = children \ {p}
        BY <2>1 DEF ServiceExits
      <4> QED BY <1>1, <4>1, <4>2
    <3>2. told' \subseteq Processes
      <4>1. Running(children \ {p}) \subseteq Processes
        BY <2>1 DEF Safe, TypeOK, Running
      <4>2. told \subseteq Processes /\ told' \subseteq told \union Running(children \ {p})
        BY <2>1 DEF Safe, TypeOK, ServiceExits
      <4> QED BY <4>1, <4>2
    <3>3. UNCHANGED <<flags, pc, late>> /\ shutdown' \in {shutdown, "flush"}
          /\ code' \in {0, 1} /\ first' \in {"nothing", "signal", "failure"}
      BY <2>1 DEF Safe, TypeOK, ServiceExits
    <3> QED BY <1>1, <3>1, <3>2, <3>3 DEF Safe, TypeOK
  <2>2. CASE ~alive
    BY <1>1, <2>2 DEF Safe, TypeOK, ServiceExits
  <2> QED BY <2>1, <2>2
<1>3. ServicesAreKept'
  BY <1>1 DEF Safe, ServicesAreKept, ServiceExits, Running
<1>4. NothingToKillYet'
  BY DEF Safe, NothingToKillYet, ServiceExits
<1>5. KilledOrLate'
  BY <1>1 DEF Safe, TypeOK, ServicesAreKept, KilledOrLate, ServiceExits, Running
<1>6. CleanWasAsked'
  BY DEF Safe, CleanWasAsked, ServiceExits
<1> QED BY <1>2, <1>3, <1>4, <1>5, <1>6 DEF Safe

LEMMA CommandOutlivesSafe ==
    ASSUME NEW p \in Commands, Safe, CommandOutlives(p)
    PROVE  Safe'
<1>1. proc' \in [Processes -> States] /\ \A q \in Services : proc'[q] = proc[q]
  BY DEF Safe, TypeOK, CommandOutlives
<1> QED BY <1>1 DEF Safe, TypeOK, ServicesAreKept, NothingToKillYet, KilledOrLate,
              CleanWasAsked, CommandOutlives, Running

LEMMA InterruptSafe ==
    ASSUME NEW reached \in SUBSET Processes, Safe, Interrupt(reached)
    PROVE  Safe'
<1>1. TypeOK'
  BY DEF Safe, TypeOK, Interrupt
<1>2. ServicesAreKept' /\ NothingToKillYet'
  BY DEF Safe, ServicesAreKept, NothingToKillYet, Interrupt, Running
<1>3. KilledOrLate'
  BY DEF Safe, ServicesAreKept, KilledOrLate, Interrupt, Running
<1>4. CleanWasAsked'
  BY DEF Safe, CleanWasAsked, Interrupt
<1> QED BY <1>1, <1>2, <1>3, <1>4 DEF Safe

LEMMA EndsSafe ==
    ASSUME Safe, GraceEnds \/ Exit \/ NpmMissing
    PROVE  Safe'
<1>1. CASE GraceEnds
  <2>1. TypeOK'
    BY <1>1 DEF Safe, TypeOK, GraceEnds, Running
  <2>2. ServicesAreKept' /\ NothingToKillYet' /\ KilledOrLate' /\ CleanWasAsked'
    BY <1>1 DEF Safe, ServicesAreKept, NothingToKillYet, KilledOrLate, CleanWasAsked,
                GraceEnds, Running
  <2> QED BY <2>1, <2>2 DEF Safe
<1>2. CASE Exit
  <2>1. TypeOK'
    BY <1>2 DEF Safe, TypeOK, Exit
  <2>2. ServicesAreKept' /\ NothingToKillYet' /\ KilledOrLate' /\ CleanWasAsked'
    BY <1>2 DEF Safe, TypeOK, ServicesAreKept, NothingToKillYet, KilledOrLate,
                CleanWasAsked, Exit, Running
  <2> QED BY <2>1, <2>2 DEF Safe
<1>3. CASE NpmMissing
  <2>1. /\ proc' \in [Processes -> States]
        /\ \A q \in Services : proc'[q] = proc[q]
    BY <1>3 DEF Safe, TypeOK, NpmMissing
  <2>2. children = {} /\ Running(Services) = {}
    BY <1>3 DEF Safe, ServicesAreKept, NothingToKillYet, NpmMissing, BeforeServices, Running
  <2>3. Running(Services)' = {}
    BY <2>1, <2>2 DEF Running
  <2>4. TypeOK'
    BY <1>3, <2>1 DEF Safe, TypeOK, NpmMissing
  <2> QED BY <1>3, <2>2, <2>3, <2>4 DEF Safe, ServicesAreKept, NothingToKillYet, KilledOrLate,
                                 CleanWasAsked, NpmMissing
<1> QED BY <1>1, <1>2, <1>3

-----------------------------------------------------------------------------
LEMMA SafeHolds == Spec => []Safe
<1>1. Init => Safe
  BY OptionsAssumption DEF Init, Safe, TypeOK, ServicesAreKept, NothingToKillYet,
     KilledOrLate, CleanWasAsked, Running, Steps
<1>2. Safe /\ [Next]_vars => Safe'
  <2> SUFFICES ASSUME Safe, [Next]_vars PROVE Safe'
    OBVIOUS
  <2>1. CASE Main
    BY <2>1, MainSafe
  <2>2. ASSUME NEW p \in Services, ServiceExits(p) PROVE Safe'
    BY <2>2, ServiceExitsSafe
  <2>3. ASSUME NEW p \in Commands, CommandOutlives(p) PROVE Safe'
    BY <2>3, CommandOutlivesSafe
  <2>4. CASE SigTerm
    BY <2>4, InterruptSafe DEF SigTerm
  <2>5. CASE CtrlC
    BY <2>5, InterruptSafe DEF CtrlC, Running
  <2>6. CASE GraceEnds \/ Exit \/ NpmMissing
    BY <2>6, EndsSafe
  <2>7. CASE UNCHANGED vars
    BY <2>7 DEF vars, Safe, TypeOK, ServicesAreKept, NothingToKillYet, KilledOrLate,
                CleanWasAsked, Running
  <2> QED BY <2>1, <2>2, <2>3, <2>4, <2>5, <2>6, <2>7 DEF Next
<1> QED BY <1>1, <1>2, PTL DEF Spec

(* dev.mjs: the map of children never holds a service that the runner knows *)
(* to have ended, whatever main() is waiting for.                           *)
THEOREM TypeOKHolds == Spec => []TypeOK
<1>1. Safe => TypeOK
  BY DEF Safe
<1> QED BY <1>1, SafeHolds, PTL

(* dev.mjs: a service that outlives the runner without a signal was started *)
(* after shutdown() had gone through its children; whatever the options and *)
(* whichever step failed, nothing else is left behind.                      *)
THEOREM OnlyLateStartsSurviveHolds == Spec => []OnlyLateStartsSurvive
<1>1. Safe => OnlyLateStartsSurvive
  BY DEF Safe, TypeOK, KilledOrLate, OnlyLateStartsSurvive
<1> QED BY <1>1, SafeHolds, PTL

(* dev.mjs: exit code 0 means that the developer's signal came before any   *)
(* exit of a service and any failed step the runner learned of, in whatever *)
(* order exits, failures and further signals follow.                        *)
THEOREM CleanExitWasAskedHolds == Spec => []CleanExitWasAsked
<1>1. Safe => CleanExitWasAsked
  BY DEF Safe, TypeOK, CleanWasAsked, CleanExitWasAsked
<1> QED BY <1>1, SafeHolds, PTL
=============================================================================

------------------------------ MODULE MCRunner ------------------------------
(***************************************************************************)
(* What the development runner promises, for every set of its options.     *)
(***************************************************************************)
EXTENDS Runner

MCOptions == SUBSET AllOptions

Steps == {"preflight", "apiPort", "webPort", "installing", "mailPort", "mailWait",
          "migrating", "seeding", "building", "apiWait", "webWait", "up", "end"}

TypeOK ==
    /\ flags \in Options /\ pc \in Steps
    /\ proc \in [Processes -> {"none", "running", "ended", "failed"}]
    /\ told \subseteq Processes /\ late \subseteq Processes
    /\ children \subseteq {p \in Services : proc[p] \in {"running", "failed"}} \/ ~alive
    /\ shutdown \in {"no", "grace", "flush", "gone"}
    /\ code \in {0, 1} /\ first \in {"nothing", "signal", "failure"}

(* dev.mjs: a service the runner leaves running without a signal when it is  *)
(* gone was started after shutdown() had gone through its children.          *)
OnlyLateStartsSurvive ==
    ~alive => Running(Services) \ told \subseteq late

(* dev.mjs: the exit code is 0 only when the developer's signal came before  *)
(* the runner learned that a service had exited or a step had failed; a      *)
(* signal that follows a failure does not make the end clean.  What main()   *)
(* only warns about (an API or a web server not ready in time, no mail       *)
(* catcher, a program that cannot be spawned) is no failure.                 *)
CleanExitWasAsked ==
    ~alive /\ code = 0 => first = "signal"

(* dev.mjs: whatever main() is waiting for, a shutdown ends the process.     *)
ShutdownEnds == shuttingDown ~> ~alive

(* dev.mjs: every step of main() ends: the banner is printed or the runner   *)
(* stops; no wait is forever.                                                *)
UpOrGone == <>(pc = "up" \/ ~alive)
=============================================================================

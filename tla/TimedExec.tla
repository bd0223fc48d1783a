----------------------------- MODULE TimedExec -----------------------------
(***************************************************************************)
(* wolfbench/TimedExec.sh: a script that starts a watchdog in the          *)
(* background and then becomes the program under test (exec), so that the  *)
(* watchdog's $PARENT, the script's process id, is the program's.  The     *)
(* watchdog sleeps a second at a time, looks whether the id is still in    *)
(* use, and after TIMEOUT seconds sends TERM, HUP and KILL, two seconds    *)
(* apart and as long as there is somebody to receive them.                 *)
(*                                                                         *)
(* All the watchdog knows of the program is that id.  Once the program has *)
(* ended and been waited for, the system may give it to another process.   *)
(*                                                                         *)
(* Definitions named Op_Variant are faulty forms of Op, see LoopWalk.      *)
(***************************************************************************)
EXTENDS Naturals, FiniteSets

CONSTANTS
  TIMEOUT,     \* the seconds the program may run
  MaxReuse     \* how often the id is given to another process, a bound for TLC

ASSUME TimeoutAssumption == TIMEOUT \in Nat
ASSUME ReuseAssumption == MaxReuse \in Nat

VARIABLES
  holder,      \* the process that has the id $PARENT
  pending,     \* the signals sent to the script or program and not delivered yet
  handles,     \* the signals the program catches or ignores
  ending,      \* what ended the script or program
  wd,          \* the next step of the watchdog
  SEC,         \* its counter
  \* history, which no step of the code reads
  slept,       \* the seconds the watchdog has slept
  freed,       \* `slept' when the program was waited for
  reused,      \* how often the id was given away since
  sent         \* the signals sent: which, to whom, and `slept' at that time

vars == <<holder, pending, handles, ending, wd, SEC, slept, freed, reused, sent>>

history == <<slept, freed, reused, sent>>

Signals == {"TERM", "HUP", "KILL"}

\* "foreign" is a process of another user, which the watchdog may not signal.
Holders == {"script", "program", "zombie", "none", "stranger", "foreign"}

Running == holder \in {"script", "program"}

Init ==
  /\ holder = "script"
  /\ pending = {}
  /\ handles \in SUBSET (Signals \ {"KILL"})
  /\ ending = "none"
  /\ wd = "unborn"
  /\ SEC = 0
  /\ slept = 0
  /\ freed = 0
  /\ reused = 0
  /\ sent = {}

-----------------------------------------------------------------------------
(* The script and the program *)

\* Too few arguments: no watchdog is started (lines 10-13).
Usage ==
  /\ holder = "script" /\ wd = "unborn"
  /\ holder' = "zombie"
  /\ ending' = "exit"
  /\ UNCHANGED <<pending, handles, wd, SEC, history>>

StartWatchdog ==
  /\ holder = "script" /\ wd = "unborn"
  /\ wd' = "while"
  /\ UNCHANGED <<holder, pending, handles, ending, SEC, history>>

\* `cd' and exec: the id stays, and with it what is pending.
Exec ==
  /\ holder = "script" /\ wd # "unborn"
  /\ holder' = "program"
  /\ UNCHANGED <<pending, handles, ending, wd, SEC, history>>

\* The program ends, or cannot be executed and the script does (status 126, 127).
Exit ==
  /\ Running /\ wd # "unborn"
  /\ holder' = "zombie"
  /\ ending' = "exit"
  /\ UNCHANGED <<pending, handles, wd, SEC, history>>

Fatal(sig) == holder = "script" \/ sig \notin handles

Deliver(sig) ==
  /\ Running
  /\ sig \in pending
  /\ pending' = pending \ {sig}
  /\ IF Fatal(sig) THEN holder' = "zombie" /\ ending' = sig
                   ELSE UNCHANGED <<holder, ending>>
  /\ UNCHANGED <<handles, wd, SEC, history>>

-----------------------------------------------------------------------------
(* The system *)

\* The shell of RunSafely.sh that started the script waits for it.
Reap ==
  /\ holder = "zombie"
  /\ holder' = "none"
  /\ pending' = {}
  /\ freed' = slept
  /\ UNCHANGED <<handles, ending, wd, SEC, slept, reused, sent>>

Reuse ==
  /\ holder = "none"
  /\ reused < MaxReuse
  /\ holder' \in {"stranger", "foreign"}
  /\ reused' = reused + 1
  /\ UNCHANGED <<pending, handles, ending, wd, SEC, slept, freed, sent>>

OtherEnds ==
  /\ holder \in {"stranger", "foreign"}
  /\ holder' = "none"
  /\ UNCHANGED <<pending, handles, ending, wd, SEC, history>>

\* kill succeeds if some process has the id and may be signalled; a zombie may.
KillSucceeds == holder \notin {"none", "foreign"}

-----------------------------------------------------------------------------
(* The watchdog *)

While_OneLess == SEC + 1 < TIMEOUT

While_OneMore == SEC <= TIMEOUT

While == SEC < TIMEOUT

Sleep ==
  /\ wd = "while"
  /\ While
  /\ wd' = "poll"
  /\ slept' = slept + 1
  /\ UNCHANGED <<holder, pending, handles, ending, SEC, freed, reused, sent>>

\* kill -0 (lines 36-41).
ParentGone_Never == FALSE

ParentGone == ~ KillSucceeds

Poll ==
  /\ wd = "poll"
  /\ IF ParentGone THEN wd' = "ended" /\ SEC' = SEC
                   ELSE wd' = "while" /\ SEC' = SEC + 1
  /\ UNCHANGED <<holder, pending, handles, ending, history>>

TimeUp_Returns ==
  /\ wd = "while"
  /\ ~ While
  /\ wd' = "ended"
  /\ UNCHANGED <<holder, pending, handles, ending, SEC, history>>

TimeUp ==
  /\ wd = "while"
  /\ ~ While
  /\ wd' = "TERM"
  /\ UNCHANGED <<holder, pending, handles, ending, SEC, history>>

\* kill && (sleep 2; kill -1) && (sleep 2; kill -9): a kill that fails is the last.
AfterKill_TermHup(sig) == IF sig = "TERM" THEN "sleepHUP" ELSE "ended"

AfterKill(sig) ==
  CASE sig = "TERM" -> "sleepHUP"
    [] sig = "HUP" -> "sleepKILL"
    [] sig = "KILL" -> "ended"

Kill(sig) ==
  /\ wd = sig
  /\ IF KillSucceeds
     THEN /\ wd' = AfterKill(sig)
          /\ pending' = IF Running THEN pending \cup {sig} ELSE pending
          /\ sent' = sent \cup {[sig |-> sig, to |-> holder, at |-> slept]}
     ELSE /\ wd' = "ended"
          /\ UNCHANGED <<pending, sent>>
  /\ UNCHANGED <<holder, handles, ending, SEC, slept, freed, reused>>

Grace(sig) ==
  /\ \/ wd = "sleepHUP" /\ sig = "HUP"
     \/ wd = "sleepKILL" /\ sig = "KILL"
  /\ wd' = sig
  /\ slept' = slept + 2
  /\ UNCHANGED <<holder, pending, handles, ending, SEC, freed, reused, sent>>

-----------------------------------------------------------------------------
Script == Usage \/ StartWatchdog \/ Exec

Delivery == \E sig \in Signals : Deliver(sig)

Watchdog == Sleep \/ Poll \/ TimeUp \/ \E sig \in Signals : Kill(sig) \/ Grace(sig)

Done == holder = "none" /\ wd \in {"unborn", "ended"}

Finished == Done /\ UNCHANGED vars

Next == Script \/ Exit \/ Delivery \/ Reap \/ Reuse \/ OtherEnds \/ Watchdog \/ Finished

Spec == Init /\ [][Next]_vars

\* The scheduler runs the script and the watchdog, signals are delivered and the
\* shell waits.  Nothing makes the program end, or any other process.
FairSpec ==
  Spec /\ WF_vars(Script) /\ WF_vars(Delivery) /\ WF_vars(Reap) /\ WF_vars(Watchdog)

-----------------------------------------------------------------------------
(* Properties *)

Steps == {"unborn", "while", "poll", "sleepHUP", "sleepKILL", "ended"} \cup Signals

TypeOK ==
  /\ holder \in Holders
  /\ pending \subseteq Signals
  /\ handles \subseteq Signals \ {"KILL"}
  /\ ending \in {"none", "exit"} \cup Signals
  /\ wd \in Steps
  /\ SEC \in 0..TIMEOUT
  /\ slept \in Nat
  /\ freed \in Nat
  /\ reused \in 0..MaxReuse
  /\ sent \subseteq [sig : Signals, to : Holders, at : Nat]

\* The watchdog gives up only on a program that is as good as dead: it has ended,
\* or KILL is on its way to it, whatever signals it catches and whoever had the
\* id when the watchdog looked.
NoSurvivor == wd = "ended" /\ Running => "KILL" \in pending

\* No signal comes early or out of turn: TERM after TIMEOUT seconds, HUP two
\* seconds after a TERM that reached somebody, KILL two seconds after such a HUP.
Due(sig) ==
  CASE sig = "TERM" -> TIMEOUT
    [] sig = "HUP" -> TIMEOUT + 2
    [] sig = "KILL" -> TIMEOUT + 4

SignalsInTime ==
  \A s \in sent :
    /\ s.at >= Due(s.sig)
    /\ s.sig # "TERM" => \E t \in sent : t.sig = "TERM" /\ t.at + 2 <= s.at
    /\ s.sig = "KILL" => \E t \in sent : t.sig = "HUP" /\ t.at + 2 <= s.at

\* The watchdog does not stay behind: unless somebody else got the id, it sleeps
\* at most two seconds after the program was waited for.
WatchdogFollows == holder = "none" /\ reused = 0 => slept <= freed + 2

\* The time limit holds whatever the program does, even if it catches every
\* signal it can: it ends, and so does the watchdog.
TimesOut == <>(~ Running /\ wd \in {"unborn", "ended"})

\* The strengthening behind the proofs: how the seconds slept follow from where
\* the watchdog is, and which signals are behind it.
Elapsed ==
  /\ wd = "unborn" => SEC = 0 /\ slept = 0 /\ sent = {}
  /\ wd = "while" => slept = SEC
  /\ wd = "poll" => slept = SEC + 1 /\ SEC < TIMEOUT
  /\ wd = "TERM" => slept >= TIMEOUT

Escalated ==
  /\ wd = "sleepHUP" => slept >= TIMEOUT /\ \E t \in sent : t.sig = "TERM" /\ t.at <= slept
  /\ wd = "HUP" => /\ slept >= TIMEOUT + 2
                   /\ \E t \in sent : t.sig = "TERM" /\ t.at + 2 <= slept
  /\ wd = "sleepKILL" => /\ slept >= TIMEOUT + 2
                         /\ \E t \in sent : t.sig = "TERM" /\ t.at + 2 <= slept
                         /\ \E t \in sent : t.sig = "HUP" /\ t.at <= slept
  /\ wd = "KILL" => /\ slept >= TIMEOUT + 4
                    /\ \E t \in sent : t.sig = "TERM" /\ t.at + 2 <= slept
                    /\ \E t \in sent : t.sig = "HUP" /\ t.at + 2 <= slept

Lag ==
  /\ holder \in {"stranger", "foreign"} => reused > 0
  /\ holder = "none" /\ reused = 0 =>
       /\ wd \in {"unborn", "while", "TERM", "sleepHUP", "sleepKILL"} => slept <= freed
       /\ wd = "poll" => slept <= freed + 1
       /\ wd \in {"HUP", "KILL", "ended"} => slept <= freed + 2

IInv == TypeOK /\ NoSurvivor /\ Elapsed /\ Escalated /\ SignalsInTime /\ Lag

\* TimedExec.sh:31: the watchdog wakes up "to kill the parent process", and
\* nobody else.
OnlyParentSignalled == \A s \in sent : s.to \notin {"stranger", "foreign"}

=============================================================================
